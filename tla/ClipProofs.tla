----------------------------- MODULE ClipProofs -----------------------------
(***************************************************************************)
(* Proofs about clips that the model sees in pieces: the causal VAE        *)
(* (CausalVae, as ConditionedVae runs it), the features of conditioning    *)
(* that its decoders are given (ConditionedVae) and the projections of     *)
(* low-quality frames (LqProj), for all numbers of levels and of blocks    *)
(* and for clips of any length.                                            *)
(***************************************************************************)
EXTENDS ConditionedVae, LqProj, FiniteSetTheorems, SequenceTheorems, TLAPS

-----------------------------------------------------------------------------
(* Sequences that are put together of sequences *)

\* A set of natural numbers that has zero and what follows each of its numbers
\* has all of them.
LEMMA SetInduction ==
  ASSUME NEW S \in SUBSET Nat, 0 \in S, \A n \in S : n + 1 \in S
  PROVE  S = Nat
<1> DEFINE R == OpToRel(<, Nat)
           C == Nat \ S
<1>1. IsWellFoundedOn(R, Nat)
  BY NatLessThanWellFounded
<1>2. R = {p \in Nat \X Nat : p[1] < p[2]}
  BY DEF OpToRel
<1> HIDE DEF R
<1>3. ASSUME C # {} PROVE FALSE
  <2>1. PICK n \in C : \A k \in C : ~ (<<k, n>> \in R)
    BY <1>1, <1>3, WFMin
  <2>2. n \in Nat /\ n # 0
    OBVIOUS
  <2>3. n - 1 \in Nat /\ <<n - 1, n>> \in R
    BY <1>2, <2>2
  <2>4. n - 1 \in S
    BY <2>1, <2>3
  <2>5. (n - 1) + 1 \in S
    BY <2>4
  <2>6. (n - 1) + 1 = n
    BY <2>2
  <2> QED
    BY <2>5, <2>6
<1> QED
  BY <1>3

\* The beginnings of a sequence of sequences, each put together.
Flattened(f, seqs) ==
  f = [k \in 1 .. Len(seqs) |-> IF k = 1 THEN seqs[k] ELSE f[k - 1] \o seqs[k]]

\* There are such beginnings.
LEMMA FlattenedExists ==
  ASSUME NEW D, NEW seqs \in Seq(D)
  PROVE  \E f : Flattened(f, seqs)
<1> DEFINE Upto(f, n) == f = [k \in 1 .. n |-> IF k = 1 THEN seqs[k] ELSE f[k - 1] \o seqs[k]]
           S == {n \in Nat : \E f : Upto(f, n)}
<1>1. 0 \in S
  <2>1. Upto(<<>>, 0)
    OBVIOUS
  <2> QED
    BY <2>1
<1>2. ASSUME NEW n \in S PROVE n + 1 \in S
  <2>1. PICK f : Upto(f, n)
    OBVIOUS
  <2> DEFINE e == IF n + 1 = 1 THEN seqs[1] ELSE f[n] \o seqs[n + 1]
             g == [k \in 1 .. (n + 1) |-> IF k = n + 1 THEN e ELSE f[k]]
  <2>2. n \in Nat
    OBVIOUS
  <2>3. ASSUME NEW k \in 1 .. (n + 1)
        PROVE  g[k] = IF k = 1 THEN seqs[k] ELSE g[k - 1] \o seqs[k]
    <3>1. CASE k = n + 1
      <4>1. g[k] = e
        BY <3>1
      <4>2. k # 1 => k - 1 \in 1 .. (n + 1) /\ k - 1 # n + 1 /\ k - 1 = n
        BY <2>2, <3>1
      <4>3. k # 1 => g[k - 1] = f[n]
        BY <4>2
      <4> HIDE DEF g
      <4> QED
        BY <3>1, <4>1, <4>3
    <3>2. CASE k # n + 1
      <4>1. k \in 1 .. n
        BY <2>2, <3>2
      <4>2. g[k] = f[k]
        BY <3>2
      <4>3. f[k] = IF k = 1 THEN seqs[k] ELSE f[k - 1] \o seqs[k]
        BY <2>1, <4>1
      <4>4. k # 1 => k - 1 \in 1 .. (n + 1) /\ k - 1 # n + 1
        BY <2>2, <4>1
      <4>5. k # 1 => g[k - 1] = f[k - 1]
        BY <4>4
      <4> HIDE DEF g
      <4> QED
        BY <4>2, <4>3, <4>5
    <3> QED
      BY <3>1, <3>2
  <2>4. Upto(g, n + 1)
    BY <2>3
  <2> HIDE DEF g, Upto
  <2> QED
    BY <2>2, <2>4
<1> HIDE DEF S
<1>3. S = Nat
  <2>1. S \in SUBSET Nat
    BY DEF S
  <2> QED
    BY <1>1, <1>2, <2>1, SetInduction
<1>4. Len(seqs) \in S
  BY <1>3
<1> QED
  BY <1>4 DEF S, Flattened

\* FlattenSeq puts them all together.
LEMMA FlattenIsLast ==
  ASSUME NEW D, NEW seqs \in Seq(D), Len(seqs) # 0
  PROVE  \E f : Flattened(f, seqs) /\ FlattenSeq(seqs) = f[Len(seqs)]
<1> DEFINE g == CHOOSE f : Flattened(f, seqs)
<1>1. Flattened(g, seqs)
  BY FlattenedExists
<1>2. FlattenSeq(seqs) = g[Len(seqs)]
  BY DEF FlattenSeq, Flattened
<1> QED
  BY <1>1, <1>2

\* The first n sequences, put together.
Joined(seqs, n) == FlattenSeq(SubSeq(seqs, 1, n))

\* Beginnings of sequences are sequences.
LEMMA Beginnings ==
  ASSUME NEW D, NEW s \in Seq(D), NEW n \in 0 .. Len(s)
  PROVE  /\ SubSeq(s, 1, n) \in Seq(D) /\ Len(SubSeq(s, 1, n)) = n
         /\ \A k \in 1 .. n : SubSeq(s, 1, n)[k] = s[k]
  OBVIOUS

\* A beginning of a longer beginning is the same.
LEMMA FlattenedPrefix ==
  ASSUME NEW D, NEW seqs \in Seq(D), NEW n \in 0 .. Len(seqs), NEW f, NEW g,
         Flattened(f, seqs), Flattened(g, SubSeq(seqs, 1, n)), NEW j \in 1 .. n
  PROVE  g[j] = f[j]
<1> DEFINE S == {k \in Nat : k \in 1 .. n => g[k] = f[k]}
<1>1. /\ \A k \in 1 .. n : g[k] = IF k = 1 THEN seqs[k] ELSE g[k - 1] \o seqs[k]
      /\ \A k \in 1 .. n : f[k] = IF k = 1 THEN seqs[k] ELSE f[k - 1] \o seqs[k]
  <2>1. \A k \in 1 .. n : k \in 1 .. Len(seqs)
    OBVIOUS
  <2>2. Len(SubSeq(seqs, 1, n)) = n /\ \A k \in 1 .. n : SubSeq(seqs, 1, n)[k] = seqs[k]
    BY Beginnings
  <2> QED
    BY <2>1, <2>2 DEF Flattened
<1>2. 0 \in S
  OBVIOUS
<1>3. ASSUME NEW k \in S PROVE k + 1 \in S
  <2>1. SUFFICES ASSUME k + 1 \in 1 .. n PROVE g[k + 1] = f[k + 1]
    OBVIOUS
  <2>2. CASE k = 0
    BY <1>1, <2>1, <2>2
  <2>3. CASE k # 0
    <3>1. k \in 1 .. n /\ (k + 1) - 1 = k /\ k + 1 # 1
      BY <2>1, <2>3
    <3>2. g[k] = f[k]
      BY <3>1
    <3>3. g[k + 1] = g[k] \o seqs[k + 1] /\ f[k + 1] = f[k] \o seqs[k + 1]
      BY <1>1, <2>1, <3>1
    <3> QED
      BY <3>2, <3>3
  <2> QED
    BY <2>2, <2>3
<1> HIDE DEF S
<1>4. S = Nat
  <2>1. S \in SUBSET Nat
    BY DEF S
  <2> QED
    BY <1>2, <1>3, <2>1, SetInduction
<1>5. j \in S
  BY <1>4
<1> QED
  BY <1>5 DEF S

\* No sequences make none; the first n and one more are the first n + 1; and
\* all of them are what FlattenSeq makes.
LEMMA JoinedSteps ==
  ASSUME NEW D, NEW seqs \in Seq(Seq(D))
  PROVE  /\ Joined(seqs, 0) = <<>>
         /\ \A n \in 0 .. (Len(seqs) - 1) :
              Joined(seqs, n) \in Seq(D) =>
                Joined(seqs, n + 1) = Joined(seqs, n) \o seqs[n + 1]
         /\ Joined(seqs, Len(seqs)) = FlattenSeq(seqs)
<1>1. Joined(seqs, 0) = <<>>
  <2>1. SubSeq(seqs, 1, 0) = <<>>
    OBVIOUS
  <2>2. Len(<<>>) = 0
    OBVIOUS
  <2> QED
    BY <2>1, <2>2 DEF Joined, FlattenSeq
<1>2. ASSUME NEW n \in 0 .. (Len(seqs) - 1), Joined(seqs, n) \in Seq(D)
      PROVE  Joined(seqs, n + 1) = Joined(seqs, n) \o seqs[n + 1]
  <2> DEFINE s == SubSeq(seqs, 1, n + 1)
             r == SubSeq(seqs, 1, n)
  <2>1. n \in Nat /\ n + 1 \in 0 .. Len(seqs) /\ n \in 0 .. Len(seqs) /\ n + 1 \in 1 .. Len(seqs)
    OBVIOUS
  <2>2. /\ s \in Seq(Seq(D)) /\ Len(s) = n + 1 /\ s[n + 1] = seqs[n + 1]
        /\ r \in Seq(Seq(D)) /\ Len(r) = n
    BY <2>1, Beginnings
  <2>3. SubSeq(s, 1, n) = r
    BY <2>1
  <2>4. seqs[n + 1] \in Seq(D)
    BY <2>1
  <2> HIDE DEF s, r
  <2>5. PICK f : Flattened(f, s) /\ FlattenSeq(s) = f[n + 1]
    BY <2>1, <2>2, FlattenIsLast
  <2>6. f[n + 1] = IF n + 1 = 1 THEN s[n + 1] ELSE f[(n + 1) - 1] \o s[n + 1]
    <3>1. \A k \in 1 .. Len(s) : f[k] = IF k = 1 THEN s[k] ELSE f[k - 1] \o s[k]
      BY <2>5, Zenon DEF Flattened
    <3>2. n + 1 \in 1 .. Len(s)
      BY <2>1, <2>2
    <3> QED
      BY <3>1, <3>2
  <2>7. CASE n = 0
    <3>1. FlattenSeq(s) = seqs[n + 1]
      BY <2>2, <2>5, <2>6, <2>7
    <3>2. Joined(seqs, n) = <<>>
      BY <1>1, <2>7
    <3>3. <<>> \o seqs[n + 1] = seqs[n + 1]
      BY <2>4
    <3> QED
      BY <3>1, <3>2, <3>3 DEF Joined, s
  <2>8. CASE n # 0
    <3>1. PICK g : Flattened(g, r) /\ FlattenSeq(r) = g[n]
      BY <2>2, <2>8, FlattenIsLast
    <3>2. n \in 1 .. n /\ n \in 0 .. Len(s) /\ (n + 1) - 1 = n
      BY <2>1, <2>2, <2>8
    <3>3. g[n] = f[n]
      <4>1. Flattened(g, SubSeq(s, 1, n))
        BY <2>3, <3>1, Zenon
      <4>2. s \in Seq(Seq(D)) /\ n \in 0 .. Len(s) /\ n \in 1 .. n /\ Flattened(f, s)
        BY <2>2, <2>5, <3>2
      <4> QED
        BY <4>1, <4>2, FlattenedPrefix
    <3>4. f[n + 1] = f[n] \o s[n + 1]
      <4>1. n + 1 # 1
        BY <2>1, <2>8
      <4> QED
        BY <2>6, <3>2, <4>1, Zenon
    <3>5. FlattenSeq(s) = FlattenSeq(r) \o seqs[n + 1]
      BY <2>2, <2>5, <3>1, <3>3, <3>4, Zenon
    <3> QED
      BY <3>5, Zenon DEF Joined, s, r
  <2> QED
    BY <2>7, <2>8
<1>3. Joined(seqs, Len(seqs)) = FlattenSeq(seqs)
  <2>1. SubSeq(seqs, 1, Len(seqs)) = seqs
    OBVIOUS
  <2> QED
    BY <2>1 DEF Joined
<1> QED
  BY <1>1, <1>2, <1>3

\* Sequences of elements of D make sequences of elements of D.
LEMMA JoinedIsSeq ==
  ASSUME NEW D, NEW seqs \in Seq(Seq(D))
  PROVE  \A n \in 0 .. Len(seqs) : Joined(seqs, n) \in Seq(D)
<1> DEFINE S == {n \in Nat : n <= Len(seqs) => Joined(seqs, n) \in Seq(D)}
<1>0. Len(seqs) \in Nat
  OBVIOUS
<1>1. 0 \in S
  <2>1. Joined(seqs, 0) = <<>>
    BY JoinedSteps
  <2>2. <<>> \in Seq(D)
    OBVIOUS
  <2>3. Joined(seqs, 0) \in Seq(D)
    BY <2>1, <2>2, Zenon
  <2> QED
    BY <2>3
<1>2. ASSUME NEW n \in S PROVE n + 1 \in S
  <2>1. SUFFICES ASSUME n + 1 <= Len(seqs) PROVE Joined(seqs, n + 1) \in Seq(D)
    OBVIOUS
  <2>2. n \in 0 .. (Len(seqs) - 1) /\ n + 1 \in 1 .. Len(seqs)
    BY <1>0, <2>1
  <2>3. Joined(seqs, n) \in Seq(D)
    BY <1>0, <2>2
  <2>4. Joined(seqs, n + 1) = Joined(seqs, n) \o seqs[n + 1]
    BY <2>2, <2>3, JoinedSteps
  <2>5. seqs[n + 1] \in Seq(D)
    BY <2>2
  <2> DEFINE a == Joined(seqs, n)
             b == seqs[n + 1]
  <2>6. a \in Seq(D) /\ b \in Seq(D)
    BY <2>3, <2>5
  <2> HIDE DEF a, b
  <2>7. a \o b \in Seq(D)
    BY <2>6
  <2> QED
    BY <2>4, <2>7, Zenon DEF a, b
<1> HIDE DEF S
<1>3. S = Nat
  <2>1. S \in SUBSET Nat
    BY DEF S
  <2> QED
    BY <1>1, <1>2, <2>1, SetInduction
<1>4. ASSUME NEW n \in 0 .. Len(seqs) PROVE Joined(seqs, n) \in Seq(D)
  <2>1. n \in S /\ n <= Len(seqs)
    BY <1>0, <1>3
  <2> QED
    BY <2>1 DEF S
<1> QED
  BY <1>4

\* FlattenSeq, one sequence more at a time.
LEMMA FlattenSteps ==
  ASSUME NEW D, NEW seqs \in Seq(Seq(D))
  PROVE  /\ FlattenSeq(seqs) \in Seq(D)
         /\ Joined(seqs, 0) = <<>> /\ Joined(seqs, Len(seqs)) = FlattenSeq(seqs)
         /\ \A n \in 0 .. (Len(seqs) - 1) :
              /\ Joined(seqs, n) \in Seq(D)
              /\ Joined(seqs, n + 1) = Joined(seqs, n) \o seqs[n + 1]
<1>1. \A n \in 0 .. (Len(seqs) - 1) : n \in 0 .. Len(seqs)
  OBVIOUS
<1>2. Len(seqs) \in 0 .. Len(seqs)
  OBVIOUS
<1> QED
  BY <1>1, <1>2, JoinedIsSeq, JoinedSteps

\* Two sequences, put together.
IsConcat(c, a, b) ==
  /\ Len(c) = Len(a) + Len(b)
  /\ \A k \in 1 .. Len(a) : c[k] = a[k]
  /\ \A k \in 1 .. Len(b) : c[Len(a) + k] = b[k]

\* What \o makes of two sequences.
LEMMA Concat ==
  ASSUME NEW D, NEW a \in Seq(D), NEW b \in Seq(D)
  PROVE  a \o b \in Seq(D) /\ IsConcat(a \o b, a, b)
  BY DEF IsConcat

\* A sequence that is two, one after the other.
LEMMA ConcatIs ==
  ASSUME NEW D, NEW a \in Seq(D), NEW b \in Seq(D), NEW t \in Seq(D), IsConcat(t, a, b)
  PROVE  a \o b = t
<1> DEFINE c == a \o b
<1>1. c \in Seq(D) /\ IsConcat(c, a, b)
  BY Concat
<1> HIDE DEF c
<1>0. Len(a) \in Nat /\ Len(b) \in Nat
  OBVIOUS
<1>2. Len(c) = Len(t) /\ Len(c) = Len(a) + Len(b)
  BY <1>1, Zenon DEF IsConcat
<1>3. ASSUME NEW k \in 1 .. Len(c) PROVE c[k] = t[k]
  <2>1. CASE k <= Len(a)
    <3>1. k \in 1 .. Len(a)
      BY <1>0, <1>2, <2>1
    <3> QED
      BY <1>1, <3>1, Zenon DEF IsConcat
  <2>2. CASE k > Len(a)
    <3> DEFINE j == k - Len(a)
    <3>1. j \in 1 .. Len(b) /\ Len(a) + j = k
      BY <1>0, <1>2, <2>2
    <3> HIDE DEF j
    <3>2. c[Len(a) + j] = b[j] /\ t[Len(a) + j] = b[j]
      BY <1>1, <3>1, Zenon DEF IsConcat
    <3> QED
      BY <3>1, <3>2, Zenon
  <2> QED
    BY <1>0, <2>1, <2>2
<1>4. c = t
  BY <1>1, <1>2, <1>3, SeqEqual
<1> QED
  BY <1>4 DEF c

\* A sequence that is part of another.
LEMMA SubSeqIs ==
  ASSUME NEW D, NEW s \in Seq(D), NEW p \in Nat \ {0}, NEW q \in Nat, p <= q + 1, q <= Len(s),
         NEW t \in Seq(D), Len(t) = q - p + 1, \A k \in 1 .. Len(t) : t[k] = s[p + k - 1]
  PROVE  SubSeq(s, p, q) = t
<1> DEFINE r == SubSeq(s, p, q)
<1>1. Len(s) \in Nat /\ Len(t) \in Nat
  OBVIOUS
<1>2. \A k \in p .. q : s[k] \in D
  <2>1. \A k \in p .. q : k \in 1 .. Len(s)
    BY <1>1
  <2> QED
    BY <2>1, ElementOfSeq
<1>3. r \in Seq(D) /\ Len(r) = (IF p <= q THEN q - p + 1 ELSE 0) /\ \A k \in 1 .. (q - p + 1) : r[k] = s[p + k - 1]
  BY <1>2, SubSeqProperties
<1> HIDE DEF r
<1>4. Len(r) = Len(t)
  BY <1>3
<1>5. \A k \in 1 .. Len(r) : r[k] = t[k]
  BY <1>3, <1>4
<1> QED
  BY <1>3, <1>4, <1>5, SeqEqual DEF r

\* A sequence of four elements.
LEMMA FourElements ==
  ASSUME NEW D, NEW s \in Seq(D), Len(s) = 4
  PROVE  /\ s[1] \in D /\ s[2] \in D /\ s[3] \in D /\ s[4] \in D
         /\ s = <<s[1], s[2], s[3], s[4]>>
<1>1. s[1] \in D /\ s[2] \in D /\ s[3] \in D /\ s[4] \in D
  <2>1. \A k \in 1 .. 4 : k \in 1 .. Len(s)
    OBVIOUS
  <2>2. \A k \in 1 .. 4 : s[k] \in D
    BY <2>1, ElementOfSeq
  <2> QED
    BY <2>2
<1> DEFINE t == <<s[1], s[2], s[3], s[4]>>
<1>2. t \in Seq(D) /\ Len(t) = 4
  BY <1>1
<1>3. \A k \in 1 .. 4 : s[k] = t[k]
  OBVIOUS
<1> HIDE DEF t
<1>4. s = t
  BY <1>2, <1>3, SeqEqual
<1> QED
  BY <1>1, <1>4 DEF t

\* A sequence and one element more.
LEMMA OneMore ==
  ASSUME NEW D, NEW a \in Seq(D), NEW e \in Seq(D), Len(e) = 1
  PROVE  a \o e = [k \in 1 .. (Len(a) + 1) |-> IF k = Len(a) + 1 THEN e[1] ELSE a[k]]
<1> DEFINE c == a \o e
           b == [k \in 1 .. (Len(a) + 1) |-> IF k = Len(a) + 1 THEN e[1] ELSE a[k]]
<1>1. Len(a) \in Nat /\ 1 \in 1 .. Len(e)
  OBVIOUS
<1>0. /\ c \in Seq(D) /\ Len(c) = Len(a) + Len(e)
      /\ \A k \in 1 .. Len(a) : c[k] = a[k]
      /\ \A k \in 1 .. Len(e) : c[Len(a) + k] = e[k]
  <2>1. a \o e \in Seq(D)
    BY Concat
  <2>2. IsConcat(a \o e, a, e)
    BY Concat
  <2> QED
    BY <2>1, <2>2, Zenon DEF IsConcat
<1>2. c \in Seq(D) /\ Len(c) = Len(a) + 1
  BY <1>0, Zenon
<1>3. \A k \in 1 .. Len(a) : c[k] = a[k]
  BY <1>0, Zenon
<1>4. c[Len(a) + 1] = e[1]
  BY <1>0, <1>1, Zenon
<1>5. b \in Seq(D) /\ Len(b) = Len(a) + 1
  <2>1. \A k \in 1 .. (Len(a) + 1) : (IF k = Len(a) + 1 THEN e[1] ELSE a[k]) \in D
    <3>1. e[1] \in D
      BY <1>1, ElementOfSeq
    <3>2. \A k \in 1 .. Len(a) : a[k] \in D
      BY ElementOfSeq
    <3> QED
      BY <1>1, <3>1, <3>2
  <2> QED
    BY <1>1, <2>1
<1>6. \A k \in 1 .. (Len(a) + 1) : b[k] = IF k = Len(a) + 1 THEN e[1] ELSE a[k]
  OBVIOUS
<1> HIDE DEF b, c
<1>7. \A k \in 1 .. (Len(a) + 1) : b[k] = c[k]
  BY <1>1, <1>3, <1>4, <1>6
<1>8. b = c
  BY <1>1, <1>2, <1>5, <1>7
<1> QED
  BY <1>8 DEF b, c

\* Sequences of one element, put together after some that are empty.
LEMMA FlattenSingles ==
  ASSUME NEW D, NEW seqs \in Seq(Seq(D)), NEW off \in 0 .. Len(seqs),
         \A k \in 1 .. off : seqs[k] = <<>>,
         \A k \in (off + 1) .. Len(seqs) : Len(seqs[k]) = 1
  PROVE  FlattenSeq(seqs) = [k \in 1 .. (Len(seqs) - off) |-> seqs[off + k][1]]
<1> DEFINE N(n) == IF n < off THEN 0 ELSE n - off
           F(n) == [k \in 1 .. N(n) |-> seqs[off + k][1]]
           S == {n \in Nat : n <= Len(seqs) => Joined(seqs, n) = F(n)}
<1>0. Len(seqs) \in Nat /\ off \in Nat /\ off <= Len(seqs)
  OBVIOUS
<1> HIDE DEF F
<1>1. 0 \in S
  <2>1. Joined(seqs, 0) = <<>>
    BY FlattenSteps
  <2>2. N(0) = 0
    BY <1>0
  <2>3. F(0) = <<>>
    BY <2>2 DEF F
  <2> QED
    BY <2>1, <2>3
<1>2. ASSUME NEW n \in S PROVE n + 1 \in S
  <2>1. SUFFICES ASSUME n + 1 <= Len(seqs) PROVE Joined(seqs, n + 1) = F(n + 1)
    OBVIOUS
  <2>2. n \in 0 .. (Len(seqs) - 1) /\ n + 1 \in 1 .. Len(seqs) /\ n \in Nat /\ n <= Len(seqs)
    BY <1>0, <2>1
  <2>3. Joined(seqs, n) = F(n)
    BY <2>2
  <2>4. Joined(seqs, n + 1) = Joined(seqs, n) \o seqs[n + 1] /\ Joined(seqs, n) \in Seq(D)
    BY <2>2, FlattenSteps
  <2>5. seqs[n + 1] \in Seq(D)
    BY <2>2
  <2>6. CASE n + 1 <= off
    <3>1. seqs[n + 1] = <<>>
      BY <1>0, <2>2, <2>6
    <3>2. N(n + 1) = 0 /\ N(n) = 0
      BY <1>0, <2>2, <2>6
    <3>3. F(n + 1) = <<>> /\ F(n) = <<>>
      BY <3>2 DEF F
    <3>4. <<>> \o <<>> = <<>>
      OBVIOUS
    <3> QED
      BY <2>3, <2>4, <3>1, <3>3, <3>4, Zenon
  <2>7. CASE off < n + 1
    <3> DEFINE l == n - off
               e == seqs[n + 1]
    <3>1. l \in Nat /\ N(n) = l /\ N(n + 1) = l + 1 /\ off + (l + 1) = n + 1
          /\ n + 1 \in (off + 1) .. Len(seqs)
      BY <1>0, <2>2, <2>7
    <3>2. Len(e) = 1 /\ e \in Seq(D)
      BY <2>5, <3>1
    <3>3. F(n) = [k \in 1 .. l |-> seqs[off + k][1]]
      BY <3>1 DEF F
    <3>4. F(n + 1) = [k \in 1 .. (l + 1) |-> seqs[off + k][1]]
      BY <3>1 DEF F
    <3>5. \A k \in 1 .. l : F(n)[k] = seqs[off + k][1]
      BY <3>3
    <3>6. F(n) \in Seq(D) /\ Len(F(n)) = l
      <4>1. F(n) \in Seq(D)
        BY <2>3, <2>4, Zenon
      <4>2. DOMAIN F(n) = 1 .. l
        BY <3>3
      <4> HIDE DEF l
      <4> QED
        BY <3>1, <4>1, <4>2
    <3> DEFINE a == F(n)
               b == F(n + 1)
    <3>7. b = [k \in 1 .. (l + 1) |-> IF k = l + 1 THEN e[1] ELSE a[k]]
      <4> HIDE DEF a, e
      <4>1. ASSUME NEW k \in 1 .. (l + 1)
            PROVE  seqs[off + k][1] = IF k = l + 1 THEN e[1] ELSE a[k]
        <5>1. CASE k = l + 1
          BY <3>1, <5>1 DEF e
        <5>2. CASE k # l + 1
          <6>1. k \in 1 .. l
            BY <3>1, <5>2
          <6> HIDE DEF l
          <6> QED
            BY <3>5, <5>2, <6>1 DEF a
        <5> QED
          BY <5>1, <5>2
      <4> HIDE DEF l, b
      <4> QED
        BY <3>4, <4>1, Zenon DEF b
    <3> HIDE DEF l, e
    <3>8. a \in Seq(D) /\ Len(a) = l
      BY <3>6
    <3> HIDE DEF a, b
    <3>9. a \o e = b
      <4>1. a \o e = [k \in 1 .. (Len(a) + 1) |-> IF k = Len(a) + 1 THEN e[1] ELSE a[k]]
        BY <3>2, <3>8, OneMore
      <4> QED
        BY <3>7, <3>8, <4>1, Zenon
    <3> QED
      BY <2>3, <2>4, <3>9, Zenon DEF a, b, e
  <2> QED
    BY <1>0, <2>2, <2>6, <2>7
<1> HIDE DEF S
<1>3. S = Nat
  <2>1. S \in SUBSET Nat
    BY DEF S
  <2> QED
    BY <1>1, <1>2, <2>1, SetInduction
<1>4. Joined(seqs, Len(seqs)) = F(Len(seqs))
  BY <1>0, <1>3 DEF S
<1>5. N(Len(seqs)) = Len(seqs) - off
  BY <1>0
<1>6. F(Len(seqs)) = [k \in 1 .. (Len(seqs) - off) |-> seqs[off + k][1]]
  BY <1>5 DEF F
<1> QED
  BY <1>4, <1>6, FlattenSteps

OneAfterTheOther(a, b, c, d) == FlattenSeq(<<a, b, c, d>>) = ((a \o b) \o c) \o d

\* Four sequences are put together one after the other.
LEMMA FlattenFour ==
  ASSUME NEW D, NEW a \in Seq(D), NEW b \in Seq(D), NEW c \in Seq(D), NEW d \in Seq(D)
  PROVE  OneAfterTheOther(a, b, c, d)
<1> DEFINE s == <<a, b, c, d>>
<1>1. s \in Seq(Seq(D)) /\ Len(s) = 4 /\ s[1] = a /\ s[2] = b /\ s[3] = c /\ s[4] = d
  OBVIOUS
<1> HIDE DEF s
<1>2. /\ Joined(s, 0) = <<>> /\ Joined(s, 4) = FlattenSeq(s)
      /\ \A n \in 0 .. 3 : Joined(s, n + 1) = Joined(s, n) \o s[n + 1]
  <2>1. /\ Joined(s, 0) = <<>> /\ Joined(s, Len(s)) = FlattenSeq(s)
        /\ \A n \in 0 .. (Len(s) - 1) : Joined(s, n + 1) = Joined(s, n) \o s[n + 1]
    BY <1>1, FlattenSteps
  <2>2. Len(s) - 1 = 3
    BY <1>1
  <2> QED
    BY <1>1, <2>1, <2>2, Zenon
<1>3. /\ Joined(s, 1) = <<>> \o a /\ Joined(s, 2) = Joined(s, 1) \o b
      /\ Joined(s, 3) = Joined(s, 2) \o c /\ Joined(s, 4) = Joined(s, 3) \o d
  <2>1. \A n \in {0, 1, 2, 3} : n \in 0 .. 3
    OBVIOUS
  <2>2. 0 + 1 = 1 /\ 1 + 1 = 2 /\ 2 + 1 = 3 /\ 3 + 1 = 4
    OBVIOUS
  <2> QED
    BY <1>1, <1>2, <2>1, <2>2, Zenon
<1>4. <<>> \o a = a
  OBVIOUS
<1> QED
  BY <1>2, <1>3, <1>4, Zenon DEF s, OneAfterTheOther

\* The elements of two sequences, put together.
LEMMA ToSetOfConcat ==
  ASSUME NEW D, NEW a \in Seq(D), NEW b \in Seq(D)
  PROVE  a \o b \in Seq(D) /\ ToSet(a \o b) = ToSet(a) \cup ToSet(b)
<1> DEFINE s == a \o b
<1>1. /\ s \in Seq(D) /\ DOMAIN s = 1 .. (Len(a) + Len(b)) /\ Len(a) \in Nat /\ Len(b) \in Nat
      /\ \A k \in 1 .. (Len(a) + Len(b)) : s[k] = IF k <= Len(a) THEN a[k] ELSE b[k - Len(a)]
      /\ DOMAIN a = 1 .. Len(a) /\ DOMAIN b = 1 .. Len(b)
  OBVIOUS
<1> HIDE DEF s
<1>2. ASSUME NEW e \in ToSet(s) PROVE e \in ToSet(a) \cup ToSet(b)
  <2>1. PICK k \in 1 .. (Len(a) + Len(b)) : e = s[k]
    BY <1>1 DEF ToSet
  <2>2. CASE k <= Len(a)
    BY <1>1, <2>1, <2>2 DEF ToSet
  <2>3. CASE k > Len(a)
    <3>1. k - Len(a) \in 1 .. Len(b) /\ e = b[k - Len(a)]
      BY <1>1, <2>1, <2>3
    <3> QED
      BY <1>1, <3>1 DEF ToSet
  <2> QED
    BY <1>1, <2>2, <2>3
<1>3. ASSUME NEW e \in ToSet(a) PROVE e \in ToSet(s)
  <2>1. PICK k \in 1 .. Len(a) : e = a[k]
    BY <1>1 DEF ToSet
  <2>2. k \in 1 .. (Len(a) + Len(b)) /\ s[k] = e
    BY <1>1, <2>1
  <2> QED
    BY <1>1, <2>2 DEF ToSet
<1>4. ASSUME NEW e \in ToSet(b) PROVE e \in ToSet(s)
  <2>1. PICK k \in 1 .. Len(b) : e = b[k]
    BY <1>1 DEF ToSet
  <2>2. Len(a) + k \in 1 .. (Len(a) + Len(b)) /\ ~ (Len(a) + k <= Len(a)) /\ (Len(a) + k) - Len(a) = k
    BY <1>1
  <2>3. s[Len(a) + k] = e
    BY <1>1, <2>1, <2>2
  <2> QED
    BY <1>1, <2>2, <2>3 DEF ToSet
<1> QED
  BY <1>1, <1>2, <1>3, <1>4, Zenon DEF s

-----------------------------------------------------------------------------
(***************************************************************************)
(* The projections of low-quality frames: what four frames make.           *)
(***************************************************************************)
Frames == Seq(Nat)
Projection(s) == Conv2(Conv1(s))

\* Four sequences, put together, have the elements of all of them.
LEMMA ElementsOfFour ==
  ASSUME NEW a \in Frames, NEW b \in Frames, NEW c \in Frames, NEW d \in Frames
  PROVE  /\ FlattenSeq(<<a, b, c, d>>) \in Frames
         /\ ToSet(FlattenSeq(<<a, b, c, d>>))
              = ToSet(a) \cup ToSet(b) \cup ToSet(c) \cup ToSet(d)
<1>1. a \o b \in Frames /\ ToSet(a \o b) = ToSet(a) \cup ToSet(b)
  BY ToSetOfConcat DEF Frames
<1> DEFINE ab == a \o b
<1> HIDE DEF ab
<1>2. ab \in Frames
  BY <1>1 DEF ab
<1>3. ab \o c \in Frames /\ ToSet(ab \o c) = ToSet(ab) \cup ToSet(c)
  BY <1>2, ToSetOfConcat DEF Frames
<1> DEFINE abc == ab \o c
<1> HIDE DEF abc
<1>4. abc \in Frames
  BY <1>3 DEF abc
<1>5. abc \o d \in Frames /\ ToSet(abc \o d) = ToSet(abc) \cup ToSet(d)
  BY <1>4, ToSetOfConcat DEF Frames
<1>6. FlattenSeq(<<a, b, c, d>>) = ((a \o b) \o c) \o d
  <2>1. a \in Seq(Nat) /\ b \in Seq(Nat) /\ c \in Seq(Nat) /\ d \in Seq(Nat)
    BY DEF Frames
  <2> QED
    <3>1. OneAfterTheOther(a, b, c, d)
      BY <2>1, FlattenFour
    <3> QED
      BY <3>1, Zenon DEF OneAfterTheOther
<1> QED
  BY <1>1, <1>3, <1>5, <1>6, Zenon DEF ab, abc

\* What is put together of three frames and a cache, and of four.
LEMMA FourAfterTwo ==
  ASSUME NEW D, NEW a \in D, NEW b \in D, NEW c \in D, NEW d \in D
  PROVE  /\ <<c, d>> \o <<a, b, c, d>> = <<c, d, a, b, c, d>>
         /\ SubSeq(<<c, d, a, b, c, d>>, 1, 4) = <<c, d, a, b>>
         /\ SubSeq(<<c, d, a, b, c, d>>, 3, 6) = <<a, b, c, d>>
         /\ SubSeq(<<a, b, c, d>>, 3, 4) = <<c, d>>
<1> DEFINE joined == <<c, d, a, b, c, d>>
           p == <<c, d>>
           q == <<a, b, c, d>>
           t == <<c, d, a, b>>
<1>1. /\ joined \in Seq(D) /\ p \in Seq(D) /\ q \in Seq(D) /\ t \in Seq(D)
      /\ Len(joined) = 6 /\ Len(p) = 2 /\ Len(q) = 4 /\ Len(t) = 4
  OBVIOUS
<1>2. IsConcat(joined, p, q)
  BY DEF IsConcat
<1>3. \A k \in 1 .. 4 : t[k] = joined[1 + k - 1]
  OBVIOUS
<1>4. \A k \in 1 .. 4 : q[k] = joined[3 + k - 1]
  OBVIOUS
<1>5. \A k \in 1 .. 2 : p[k] = q[3 + k - 1]
  OBVIOUS
<1> HIDE DEF joined, p, q, t
<1>6. p \o q = joined
  BY <1>1, <1>2, ConcatIs
<1>7. SubSeq(joined, 1, 4) = t
  BY <1>1, <1>3, SubSeqIs
<1>8. SubSeq(joined, 3, 6) = q
  BY <1>1, <1>4, SubSeqIs
<1>9. SubSeq(q, 3, 4) = p
  BY <1>1, <1>5, SubSeqIs
<1> QED
  BY <1>6, <1>7, <1>8, <1>9, Zenon DEF joined, p, q, t

\* The first convolution makes two of four frames, of all of them.
LEMMA FirstOfFour ==
  ASSUME NEW a \in Frames, NEW b \in Frames, NEW c \in Frames, NEW d \in Frames
  PROVE  Conv1(<<a, b, c, d>>) = <<FlattenSeq(<<c, d, a, b>>), FlattenSeq(<<a, b, c, d>>)>>
<1> DEFINE s == <<a, b, c, d>>
           before == <<c, d>>
           joined == <<c, d, a, b, c, d>>
<1>1. Len(s) = 4 /\ Len(before) = 2 /\ Len(joined) = 6
  OBVIOUS
<1>2. /\ before \o s = joined /\ SubSeq(s, 3, 4) = before
      /\ SubSeq(joined, 1, 4) = <<c, d, a, b>> /\ SubSeq(joined, 3, 6) = s
  BY FourAfterTwo
<1> HIDE DEF s, before, joined
<1>3. OwnEnd(s) = before
  BY <1>1, <1>2 DEF OwnEnd
<1> DEFINE e(n) == FlattenSeq(SubSeq(joined, 2 * (n - 1) + 1, 2 * (n - 1) + 4))
<1>4. CausalConv(s, before) = [n \in 1 .. 2 |-> e(n)]
  <2>1. CausalConv(s, before) = [n \in 1 .. ((Len(joined) - 4) \div 2 + 1) |-> e(n)]
    <3>1. Len(before) >= 2
      BY <1>1
    <3> QED
      BY <1>2, <3>1, Zenon DEF CausalConv, Kernel, ConvStride
  <2>2. (Len(joined) - 4) \div 2 + 1 = 2
    BY <1>1
  <2> QED
    BY <2>1, <2>2, Zenon
<1>5. e(1) = FlattenSeq(SubSeq(joined, 1, 4)) /\ e(2) = FlattenSeq(SubSeq(joined, 3, 6))
  <2>1. 2 * (1 - 1) + 1 = 1 /\ 2 * (1 - 1) + 4 = 4 /\ 2 * (2 - 1) + 1 = 3 /\ 2 * (2 - 1) + 4 = 6
    OBVIOUS
  <2> QED
    BY <2>1
<1> HIDE DEF e
<1>6. [n \in 1 .. 2 |-> e(n)] = <<e(1), e(2)>>
  OBVIOUS
<1> QED
  BY <1>2, <1>3, <1>4, <1>5, <1>6, Zenon DEF Conv1, s

\* The second convolution makes one of two frames, of both of them.
LEMMA SecondOfTwo ==
  ASSUME NEW a \in Frames, NEW b \in Frames
  PROVE  Conv2(<<a, b>>) = <<FlattenSeq(<<a, b, a, b>>)>>
<1> DEFINE s == <<a, b>>
           joined == <<a, b, a, b>>
<1>1. /\ Len(s) = 2 /\ Len(joined) = 4 /\ s \in Seq(Frames) /\ joined \in Seq(Frames)
      /\ IsConcat(joined, s, s)
  BY DEF IsConcat
<1> HIDE DEF s, joined
<1>2. SubSeq(s, 1, 2) = s /\ SubSeq(joined, 1, 4) = joined
  BY <1>1, SubSeqFull
<1>3. s \o s = joined
  BY <1>1, ConcatIs
<1>4. OwnEnd(s) = s
  BY <1>1, <1>2 DEF OwnEnd
<1> DEFINE e(n) == FlattenSeq(SubSeq(joined, 2 * (n - 1) + 1, 2 * (n - 1) + 4))
<1>5. CausalConv(s, s) = [n \in 1 .. 1 |-> e(n)]
  <2>1. CausalConv(s, s) = [n \in 1 .. ((Len(joined) - 4) \div 2 + 1) |-> e(n)]
    <3>1. Len(s) >= 2
      BY <1>1
    <3> QED
      BY <1>3, <3>1, Zenon DEF CausalConv, Kernel, ConvStride
  <2>2. (Len(joined) - 4) \div 2 + 1 = 1
    BY <1>1
  <2> QED
    BY <2>1, <2>2, Zenon
<1>6. e(1) = FlattenSeq(joined)
  <2>1. 2 * (1 - 1) + 1 = 1 /\ 2 * (1 - 1) + 4 = 4
    OBVIOUS
  <2> QED
    BY <1>2, <2>1
<1> HIDE DEF e
<1>7. [n \in 1 .. 1 |-> e(n)] = <<e(1)>>
  OBVIOUS
<1> QED
  BY <1>4, <1>5, <1>6, <1>7, Zenon DEF Conv2, s, joined

\* A projection of four frames is one, made of all of them.
LEMMA OneProjection ==
  ASSUME NEW s \in Seq(Frames), Len(s) = 4
  PROVE  /\ Projection(s) \in Seq(Frames) /\ Len(Projection(s)) = 1
         /\ ToSet(Projection(s)[1]) = ToSet(s[1]) \cup ToSet(s[2]) \cup ToSet(s[3]) \cup ToSet(s[4])
<1> DEFINE a == FlattenSeq(<<s[3], s[4], s[1], s[2]>>)
           b == FlattenSeq(<<s[1], s[2], s[3], s[4]>>)
           c == FlattenSeq(<<a, b, a, b>>)
           all == ToSet(s[1]) \cup ToSet(s[2]) \cup ToSet(s[3]) \cup ToSet(s[4])
<1>1. /\ s[1] \in Frames /\ s[2] \in Frames /\ s[3] \in Frames /\ s[4] \in Frames
      /\ s = <<s[1], s[2], s[3], s[4]>>
  BY FourElements
<1>2. /\ a \in Frames /\ ToSet(a) = ToSet(s[3]) \cup ToSet(s[4]) \cup ToSet(s[1]) \cup ToSet(s[2])
      /\ b \in Frames /\ ToSet(b) = all
  BY <1>1, ElementsOfFour
<1>3. Conv1(s) = <<a, b>>
  <2>1. Conv1(<<s[1], s[2], s[3], s[4]>>) = <<a, b>>
    BY <1>1, FirstOfFour
  <2> QED
    BY <1>1, <2>1, Zenon
<1> HIDE DEF a, b
<1>4. c \in Frames /\ ToSet(c) = ToSet(a) \cup ToSet(b) \cup ToSet(a) \cup ToSet(b)
  BY <1>2, ElementsOfFour
<1>5. Projection(s) = <<c>>
  BY <1>2, <1>3, SecondOfTwo DEF Projection
<1> HIDE DEF c
<1>6. ToSet(c) = all
  BY <1>2, <1>4
<1>7. <<c>> \in Seq(Frames) /\ Len(<<c>>) = 1 /\ <<c>>[1] = c
  BY <1>4
<1> QED
  BY <1>5, <1>6, <1>7, Zenon

-----------------------------------------------------------------------------
(* Projections of a clip *)

\* The frames of a piece, whatever the clip is.
FourOf(k) == [j \in 1 .. 4 |-> <<IF k = 1 THEN 0 ELSE 4 * k - 8 + j>>]

\* A clip that begins with its first frame three times more.
LEMMA PaddedClip ==
  ASSUME NEW t \in Nat \ {0}
  PROVE  /\ Padded(Clip(t)) \in Seq(Frames) /\ Len(Padded(Clip(t))) = t + 3
         /\ \A j \in 1 .. (t + 3) : Padded(Clip(t))[j] = <<IF j <= 4 THEN 0 ELSE j - 4>>
<1> DEFINE s == Clip(t)
           p == <<s[1], s[1], s[1]>>
           e(j) == <<IF j <= 4 THEN 0 ELSE j - 4>>
<1>1. s \in Seq(Frames) /\ Len(s) = t /\ \A j \in 1 .. t : s[j] = <<j - 1>>
  <2>1. \A j \in 1 .. t : <<j - 1>> \in Frames
    BY DEF Frames
  <2> QED
    BY <2>1 DEF Clip
<1>2. s[1] = <<0>>
  BY <1>1
<1>3. p \in Seq(Frames) /\ Len(p) = 3 /\ \A j \in 1 .. 3 : p[j] = <<0>>
  <2>1. <<0>> \in Frames
    BY DEF Frames
  <2> QED
    BY <1>2, <2>1
<1> HIDE DEF s, p
<1>4. p \o s \in Seq(Frames) /\ IsConcat(p \o s, p, s)
  BY <1>1, <1>3, Concat
<1> DEFINE c == p \o s
<1>5. /\ c \in Seq(Frames) /\ Len(c) = 3 + t
      /\ \A j \in 1 .. 3 : c[j] = p[j]
      /\ \A j \in 1 .. t : c[3 + j] = s[j]
  BY <1>1, <1>3, <1>4, Zenon DEF IsConcat
<1> HIDE DEF c
<1>6. ASSUME NEW j \in 1 .. (t + 3) PROVE c[j] = e(j)
  <2>1. CASE j <= 3
    BY <1>3, <1>5, <2>1
  <2>2. CASE j > 3
    <3> DEFINE l == j - 3
    <3>1. l \in 1 .. t /\ 3 + l = j /\ l - 1 = IF j <= 4 THEN 0 ELSE j - 4
      BY <2>2
    <3> HIDE DEF l
    <3>2. c[3 + l] = <<l - 1>>
      BY <1>1, <1>5, <3>1
    <3> QED
      BY <3>1, <3>2, Zenon
  <2> QED
    BY <2>1, <2>2
<1>7. Padded(Clip(t)) = c
  BY Zenon DEF Padded, c, s, p
<1>8. 3 + t = t + 3
  OBVIOUS
<1> QED
  BY <1>5, <1>6, <1>7, <1>8, Zenon

\* Pieces of four frames.
LEMMA FourFrames ==
  ASSUME NEW k \in Nat \ {0}
  PROVE  FourOf(k) \in Seq(Frames) /\ Len(FourOf(k)) = 4
<1>1. \A j \in 1 .. 4 : <<IF k = 1 THEN 0 ELSE 4 * k - 8 + j>> \in Frames
  <2>1. \A j \in 1 .. 4 : (IF k = 1 THEN 0 ELSE 4 * k - 8 + j) \in Nat
    OBVIOUS
  <2> QED
    BY <2>1 DEF Frames
<1> QED
  BY <1>1 DEF FourOf

\* Iterations, and the clips that are whole pieces.
LEMMA IterationsOf ==
  ASSUME NEW t \in Nat \ {0}
  PROVE  /\ Iterations(t) \in Nat \ {0} /\ 4 * Iterations(t) <= t + 3
         /\ \A n \in Nat \ {0} : t = 4 * n - 3 => Iterations(t) = n
  BY DEF Iterations

\* What goes into the convolutions: four frames, the first of them four times.
LEMMA PieceIsFour ==
  ASSUME NEW t \in Nat \ {0}, NEW k \in 1 .. Iterations(t)
  PROVE  Piece4(t, k) = FourOf(k)
<1> DEFINE s == Padded(Clip(t))
           e(j) == <<IF j <= 4 THEN 0 ELSE j - 4>>
<1>1. s \in Seq(Frames) /\ Len(s) = t + 3 /\ \A j \in 1 .. (t + 3) : s[j] = e(j)
  BY PaddedClip
<1>2. k \in Nat \ {0} /\ 4 * k <= t + 3
  <2>1. Iterations(t) \in Nat \ {0} /\ 4 * Iterations(t) <= t + 3
    BY IterationsOf
  <2> QED
    BY <2>1
<1> HIDE DEF s
<1>3. Piece4(t, k) = SubSeq(s, 4 * (k - 1) + 1, 4 * k)
  <2>1. Piece4(t, k) = SubSeq(s, 4 * (k - 1) + 1, IF 4 * k < Len(s) THEN 4 * k ELSE Len(s))
    BY Zenon DEF Piece4, Slice, s
  <2>2. (IF 4 * k < Len(s) THEN 4 * k ELSE Len(s)) = 4 * k
    BY <1>1, <1>2
  <2> QED
    BY <2>1, <2>2, Zenon
<1> DEFINE p == 4 * (k - 1) + 1
           q == 4 * k
<1>4. p \in Nat \ {0} /\ q \in Nat /\ p <= q + 1 /\ q <= t + 3 /\ q - p + 1 = 4
  BY <1>2
<1>5. FourOf(k) \in Seq(Frames) /\ Len(FourOf(k)) = 4
  BY <1>2, FourFrames
<1>6. ASSUME NEW j \in 1 .. 4 PROVE FourOf(k)[j] = s[p + j - 1]
  <2>1. p + j - 1 \in 1 .. (t + 3)
    BY <1>4
  <2>2. s[p + j - 1] = e(p + j - 1)
    BY <1>1, <2>1
  <2>3. (IF p + j - 1 <= 4 THEN 0 ELSE (p + j - 1) - 4) = IF k = 1 THEN 0 ELSE 4 * k - 8 + j
    BY <1>2
  <2> QED
    BY <2>2, <2>3 DEF FourOf
<1> HIDE DEF p, q
<1>7. SubSeq(s, p, q) = FourOf(k)
  <2> DEFINE f == FourOf(k)
  <2>1. f \in Seq(Frames) /\ Len(f) = 4
    BY <1>5
  <2>2. \A j \in 1 .. 4 : f[j] = s[p + j - 1]
    BY <1>6
  <2> HIDE DEF f
  <2>3. \A j \in 1 .. Len(f) : f[j] = s[p + j - 1]
    BY <2>1, <2>2
  <2>4. Len(f) = q - p + 1 /\ q <= Len(s)
    BY <1>1, <1>4, <2>1
  <2>5. SubSeq(s, p, q) = f
    BY <1>1, <1>4, <2>1, <2>3, <2>4, SubSeqIs
  <2> QED
    BY <2>5 DEF f
<1> QED
  BY <1>3, <1>7, Zenon DEF p, q

\* What forward() of both projections makes of a clip: one projection for each
\* piece, or for each but the first.
ProjectionOf(k) == Projection(FourOf(k))[1]

\* forward() makes a projection of every four frames; a stream, of all but the
\* first.
LEMMA ForwardOf ==
  ASSUME NEW t \in Nat \ {0}
  PROVE  /\ LQProj_forward(t) = [k \in 1 .. Iterations(t) |-> ProjectionOf(k)]
         /\ Buffer_forward(t) = [k \in 1 .. (Iterations(t) - 1) |-> ProjectionOf(1 + k)]
<1> DEFINE n == Iterations(t)
           e(k) == Projection(FourOf(k))
           lq_ == [k \in 1 .. n |-> e(k)]
           buffer == [k \in 1 .. n |-> IF k = 1 THEN <<>> ELSE e(k)]
<1>1. n \in Nat \ {0}
  BY IterationsOf
<1>2. LQProj_forward(t) = FlattenSeq(lq_)
  <2>1. \A k \in 1 .. n : Conv2(Conv1(Piece4(t, k))) = e(k)
    BY PieceIsFour, Zenon DEF Projection
  <2> QED
    BY <2>1, Zenon DEF LQProj_forward
<1>3. Buffer_forward(t) = FlattenSeq(buffer)
  <2>1. \A k \in 1 .. n : Conv2(Conv1(Piece4(t, k))) = e(k)
    BY PieceIsFour, Zenon DEF Projection
  <2> QED
    BY <2>1, Zenon DEF Buffer_forward
<1>4. ASSUME NEW k \in 1 .. n PROVE e(k) \in Seq(Frames) /\ Len(e(k)) = 1
  <2>1. k \in Nat \ {0}
    BY <1>1
  <2>2. FourOf(k) \in Seq(Frames) /\ Len(FourOf(k)) = 4
    BY <2>1, FourFrames
  <2> QED
    BY <2>2, OneProjection
<1> HIDE DEF n, e
<1>5. FlattenSeq(lq_) = [k \in 1 .. n |-> e(k)[1]]
  <2>1. lq_ \in Seq(Seq(Frames)) /\ Len(lq_) = n
    BY <1>1, <1>4
  <2>2. \A k \in 1 .. n : Len(lq_[k]) = 1 /\ lq_[k][1] = e(k)[1]
    BY <1>4
  <2> HIDE DEF lq_
  <2>3. FlattenSeq(lq_) = [k \in 1 .. (Len(lq_) - 0) |-> lq_[0 + k][1]]
    <3>1. 0 \in 0 .. Len(lq_) /\ (\A k \in 1 .. 0 : lq_[k] = <<>>)
          /\ (\A k \in (0 + 1) .. Len(lq_) : Len(lq_[k]) = 1)
      BY <1>1, <2>1, <2>2
    <3> QED
      BY <2>1, <3>1, FlattenSingles
  <2>4. Len(lq_) - 0 = n /\ \A k \in 1 .. n : 0 + k = k
    BY <1>1, <2>1
  <2>5. FlattenSeq(lq_) = [k \in 1 .. n |-> lq_[0 + k][1]]
    BY <2>3, <2>4, Zenon
  <2>6. \A k \in 1 .. n : lq_[0 + k][1] = e(k)[1]
    BY <2>2, <2>4, Zenon
  <2> QED
    BY <2>5, <2>6, Zenon
<1>6. FlattenSeq(buffer) = [k \in 1 .. (n - 1) |-> e(1 + k)[1]]
  <2>1. buffer \in Seq(Seq(Frames)) /\ Len(buffer) = n
    <3>1. \A k \in 1 .. n : (IF k = 1 THEN <<>> ELSE e(k)) \in Seq(Frames)
      BY <1>4
    <3> QED
      BY <1>1, <3>1
  <2>2. buffer[1] = <<>> /\ \A k \in 2 .. n : buffer[k] = e(k)
    BY <1>1
  <2> HIDE DEF buffer
  <2>3. FlattenSeq(buffer) = [k \in 1 .. (Len(buffer) - 1) |-> buffer[1 + k][1]]
    <3>1. 1 \in 0 .. Len(buffer) /\ (\A k \in 1 .. 1 : buffer[k] = <<>>)
      BY <1>1, <2>1, <2>2
    <3>2. ASSUME NEW k \in (1 + 1) .. Len(buffer) PROVE Len(buffer[k]) = 1
      <4>1. k \in 2 .. n /\ k \in 1 .. n
        BY <1>1, <2>1
      <4> QED
        BY <1>4, <2>2, <4>1
    <3> QED
      BY <2>1, <3>1, <3>2, FlattenSingles
  <2>4. \A k \in 1 .. (n - 1) : 1 + k \in 2 .. n
    BY <1>1
  <2>5. \A k \in 1 .. (n - 1) : buffer[1 + k][1] = e(1 + k)[1]
    BY <2>2, <2>4, Zenon
  <2> QED
    BY <2>1, <2>3, <2>5, Zenon
<1> QED
  BY <1>2, <1>3, <1>5, <1>6, Zenon DEF n, e, ProjectionOf

-----------------------------------------------------------------------------
\* The inductive invariant of the projections: a stream has been fed whole
\* pieces, and has returned what forward() would have.
LqStream ==
  /\ fed \in Nat /\ out = Buffer_forward(fed)
  /\ \E n \in Nat \ {0} : fed = 4 * n - 3

LqWhole ==
  /\ whole.t \in Nat \ {0}
  /\ whole.lq = LQProj_forward(whole.t) /\ whole.buffer = Buffer_forward(whole.t)

LqInv ==
  /\ clip_idx \in Nat
  /\ clip_idx > 0 => LqStream
  /\ whole.t > 0 => LqWhole

\* The first piece of a stream makes nothing.
LEMMA FirstPieceKeeps ==
  LqInv /\ stream_first => LqInv'
<1> SUFFICES ASSUME LqInv, stream_first PROVE LqInv'
  OBVIOUS
<1>1. clip_idx = 0 /\ clip_idx' = clip_idx + 1 /\ fed' = 1 /\ out' = <<>> /\ whole' = NoClip
  BY DEF stream_first
<1>2. Iterations(1) = 1
  BY DEF Iterations
<1>3. Buffer_forward(1) = <<>>
  <2>1. Buffer_forward(1) = [k \in 1 .. (Iterations(1) - 1) |-> ProjectionOf(1 + k)]
    BY ForwardOf
  <2> DEFINE f == Buffer_forward(1)
           g == [k \in 1 .. 0 |-> ProjectionOf(1 + k)]
  <2>2. f = g
    <3>1. Iterations(1) - 1 = 0
      BY <1>2
    <3> QED
      BY <2>1, <3>1, Zenon
  <2>3. g \in [1 .. 0 -> {0}]
    OBVIOUS
  <2> HIDE DEF f, g
  <2>4. f = <<>>
    BY <2>2, <2>3
  <2> QED
    BY <2>4 DEF f
<1>4. fed' = 4 * 1 - 3 /\ 1 \in Nat \ {0}
  BY <1>1
<1>5. LqStream'
  BY <1>1, <1>3, <1>4 DEF LqStream
<1>6. ~ (whole'.t > 0)
  BY <1>1 DEF NoClip
<1> QED
  BY <1>1, <1>5, <1>6 DEF LqInv

\* The next piece makes one projection more, that of forward().
LEMMA NextPieceKeeps ==
  LqInv /\ stream_next => LqInv'
<1> SUFFICES ASSUME LqInv, stream_next PROVE LqInv'
  OBVIOUS
<1> DEFINE s == [j \in 1 .. 4 |-> <<fed + j - 1>>]
<1>1. /\ clip_idx > 0 /\ clip_idx' = clip_idx + 1 /\ fed' = fed + 4
      /\ out' = out \o Conv2(Conv1(s)) /\ UNCHANGED whole
  BY DEF stream_next
<1>2. clip_idx \in Nat /\ LqStream
  BY <1>1 DEF LqInv
<1>3. PICK n \in Nat \ {0} : fed = 4 * n - 3
  BY <1>2 DEF LqStream
<1>4. fed \in Nat \ {0} /\ fed + 4 = 4 * (n + 1) - 3 /\ fed + 4 \in Nat \ {0} /\ n + 1 \in Nat \ {0}
  BY <1>3
<1>5. Iterations(fed) = n /\ Iterations(fed + 4) = n + 1
  BY <1>3, <1>4, IterationsOf
<1>6. s = FourOf(n + 1)
  <2>1. ASSUME NEW j \in 1 .. 4
        PROVE  fed + j - 1 = IF n + 1 = 1 THEN 0 ELSE 4 * (n + 1) - 8 + j
    BY <1>3
  <2> QED
    BY <2>1, Zenon DEF FourOf
<1> HIDE DEF s
<1> DEFINE e == Projection(FourOf(n + 1))
           a == [k \in 1 .. (n - 1) |-> ProjectionOf(1 + k)]
<1>7. out' = out \o e
  BY <1>1, <1>6, Zenon DEF Projection
<1>8. e \in Seq(Frames) /\ Len(e) = 1 /\ e[1] = ProjectionOf(n + 1)
  <2>1. FourOf(n + 1) \in Seq(Frames) /\ Len(FourOf(n + 1)) = 4
    BY <1>4, FourFrames
  <2>2. e \in Seq(Frames) /\ Len(e) = 1
    BY <2>1, OneProjection
  <2> QED
    BY <2>2, Zenon DEF ProjectionOf
<1> HIDE DEF e
<1>9. out = a
  <2>1. Buffer_forward(fed) = [k \in 1 .. (Iterations(fed) - 1) |-> ProjectionOf(1 + k)]
    BY <1>4, ForwardOf
  <2> QED
    BY <1>2, <1>5, <2>1 DEF LqStream
<1>10. a \in Seq(Frames) /\ Len(a) = n - 1
  <2>1. ASSUME NEW k \in 1 .. (n - 1) PROVE ProjectionOf(1 + k) \in Frames
    <3>1. 1 + k \in Nat \ {0}
      OBVIOUS
    <3>2. FourOf(1 + k) \in Seq(Frames) /\ Len(FourOf(1 + k)) = 4
      BY <3>1, FourFrames
    <3>3. Projection(FourOf(1 + k)) \in Seq(Frames) /\ Len(Projection(FourOf(1 + k))) = 1
      BY <3>2, OneProjection
    <3>4. 1 \in 1 .. Len(Projection(FourOf(1 + k)))
      BY <3>3
    <3>5. Projection(FourOf(1 + k))[1] \in Frames
      BY <3>3, <3>4, ElementOfSeq
    <3> QED
      BY <3>5 DEF ProjectionOf
  <2>2. n - 1 \in Nat
    BY <1>3
  <2> QED
    BY <2>1, <2>2
<1>11. a \o e = [k \in 1 .. n |-> ProjectionOf(1 + k)]
  <2>1. (Len(a) + 1) = n /\ n - 1 \in Nat /\ n \in Nat
    BY <1>3, <1>10
  <2>2. \A k \in 1 .. (n - 1) : a[k] = ProjectionOf(1 + k)
    OBVIOUS
  <2> HIDE DEF a
  <2>3. a \o e = [k \in 1 .. (Len(a) + 1) |-> IF k = Len(a) + 1 THEN e[1] ELSE a[k]]
    BY <1>8, <1>10, OneMore
  <2>4. a \o e = [k \in 1 .. n |-> IF k = n THEN e[1] ELSE a[k]]
    BY <2>1, <2>3, Zenon
  <2>5. ASSUME NEW k \in 1 .. n
        PROVE  (IF k = n THEN e[1] ELSE a[k]) = ProjectionOf(1 + k)
    <3>1. CASE k = n
      <4>1. 1 + k = n + 1
        BY <2>1, <3>1
      <4> QED
        BY <1>8, <3>1, <4>1, Zenon
    <3>2. CASE k # n
      <4>1. k \in 1 .. (n - 1)
        BY <2>1, <3>2
      <4> QED
        BY <2>2, <3>2, <4>1, Zenon
    <3> QED
      BY <3>1, <3>2
  <2> QED
    BY <2>4, <2>5, Zenon
<1>12. Buffer_forward(fed + 4) = [k \in 1 .. n |-> ProjectionOf(1 + k)]
  <2>1. Buffer_forward(fed + 4) = [k \in 1 .. (Iterations(fed + 4) - 1) |-> ProjectionOf(1 + k)]
    BY <1>4, ForwardOf
  <2>2. (n + 1) - 1 = n
    BY <1>3
  <2> QED
    BY <1>5, <2>1, <2>2, Zenon
<1> HIDE DEF a
<1>13. out' = Buffer_forward(fed')
  BY <1>1, <1>7, <1>9, <1>11, <1>12, Zenon
<1>14. LqStream'
  BY <1>1, <1>4, <1>13 DEF LqStream
<1> QED
  BY <1>1, <1>2, <1>14 DEF LqInv, LqWhole

\* Every step keeps the invariant.
THEOREM LqInvariant == LqSpec => []LqInv
<1>1. LqInit => LqInv
  BY DEF LqInit, LqInv, NoClip
<1>2. LqInv /\ [LqNext]_lqvars => LqInv'
  <2> SUFFICES ASSUME LqInv, [LqNext]_lqvars PROVE LqInv'
    OBVIOUS
  <2>1. CASE lq_clear_cache
    BY <2>1 DEF lq_clear_cache, LqInv, NoClip
  <2>2. CASE lq_forward
    <3>1. PICK t \in 1 .. MaxClip :
            /\ clip_idx' = 0
            /\ whole' = [t |-> t, lq |-> LQProj_forward(t), buffer |-> Buffer_forward(t)]
      BY <2>2 DEF lq_forward
    <3>2. t \in Nat \ {0}
      BY LqAssumption
    <3>3. LqWhole'
      BY <3>1, <3>2 DEF LqWhole
    <3> QED
      BY <3>1, <3>3 DEF LqInv
  <2>3. CASE stream_first
    BY <2>3, FirstPieceKeeps
  <2>4. CASE stream_next
    BY <2>4, NextPieceKeeps
  <2>5. CASE stream_stale
    BY <2>5 DEF stream_stale, LqInv, LqStream, LqWhole
  <2>6. CASE UNCHANGED lqvars
    BY <2>6 DEF lqvars, LqInv, LqStream, LqWhole
  <2> QED
    BY <2>1, <2>2, <2>3, <2>4, <2>5, <2>6 DEF LqNext
<1> QED
  BY <1>1, <1>2, PTL DEF LqSpec

\* A clip that is given to stream_forward() piece by piece comes out as from
\* forward(): Buffer_LQ4kProj of models/utils.py, for clips of any length and
\* however streams and clips follow each other.
THEOREM StreamIsForward == LqSpec => []StreamMatchesForward
<1>1. LqInv => StreamMatchesForward
  BY DEF LqInv, LqStream, StreamMatchesForward
<1> QED
  BY <1>1, LqInvariant, PTL

\* What a projection is made of.
LEMMA FramesOfProjection ==
  ASSUME NEW k \in Nat \ {0}
  PROVE  ToSet(ProjectionOf(k)) = IF k = 1 THEN {0} ELSE (4 * k - 7) .. (4 * k - 4)
<1> DEFINE s == FourOf(k)
           e(j) == IF k = 1 THEN 0 ELSE 4 * k - 8 + j
<1>1. s \in Seq(Frames) /\ Len(s) = 4
  BY FourFrames
<1>2. ToSet(ProjectionOf(k)) = ToSet(s[1]) \cup ToSet(s[2]) \cup ToSet(s[3]) \cup ToSet(s[4])
  BY <1>1, OneProjection DEF ProjectionOf
<1>3. \A j \in 1 .. 4 : s[j] = <<e(j)>>
  BY DEF FourOf
<1>4. \A v : ToSet(<<v>>) = {v}
  BY DEF ToSet
<1>5. /\ ToSet(s[1]) = {e(1)} /\ ToSet(s[2]) = {e(2)}
      /\ ToSet(s[3]) = {e(3)} /\ ToSet(s[4]) = {e(4)}
  <2>1. 1 \in 1 .. 4 /\ 2 \in 1 .. 4 /\ 3 \in 1 .. 4 /\ 4 \in 1 .. 4
    OBVIOUS
  <2> HIDE DEF s, e
  <2> QED
    BY <1>3, <1>4, <2>1, Zenon
<1>6. ToSet(ProjectionOf(k)) = {e(1), e(2), e(3), e(4)}
  <2> HIDE DEF s, e
  <2> QED
    BY <1>2, <1>5
<1>7. {e(1), e(2), e(3), e(4)} = IF k = 1 THEN {0} ELSE (4 * k - 7) .. (4 * k - 4)
  OBVIOUS
<1> QED
  BY <1>6, <1>7, Zenon

\* One projection for each latent of a clip, made of its frames: forward() of
\* LQProj and of Buffer_LQ4kProj in models/utils.py, for clips of any length.
THEOREM ProjectionsArePerLatent == LqSpec => []ProjectionPerLatent
<1>1. LqInv => ProjectionPerLatent
  <2> SUFFICES ASSUME LqInv, whole.t > 0
               PROVE  /\ Len(whole.lq) = 1 + (whole.t - 1) \div 4
                      /\ \A k \in DOMAIN whole.lq :
                           ToSet(whole.lq[k]) = IF k = 1 THEN {0} ELSE (4 * k - 7) .. (4 * k - 4)
                      /\ whole.buffer = Tail(whole.lq)
    BY Zenon DEF ProjectionPerLatent
  <2> DEFINE t == whole.t
             n == Iterations(t)
             s == whole.lq
  <2>1. t \in Nat \ {0} /\ s = LQProj_forward(t) /\ whole.buffer = Buffer_forward(t)
    BY DEF LqInv, LqWhole
  <2> HIDE DEF t, s
  <2>2. n \in Nat \ {0} /\ n = 1 + (t - 1) \div 4
    BY <2>1, IterationsOf DEF Iterations
  <2>3. /\ s = [k \in 1 .. n |-> ProjectionOf(k)]
        /\ whole.buffer = [k \in 1 .. (n - 1) |-> ProjectionOf(1 + k)]
    BY <2>1, ForwardOf
  <2> HIDE DEF n
  <2>4. ASSUME NEW k \in 1 .. n
        PROVE  ToSet(s[k]) = IF k = 1 THEN {0} ELSE (4 * k - 7) .. (4 * k - 4)
    <3>1. k \in Nat \ {0} /\ s[k] = ProjectionOf(k)
      BY <2>2, <2>3
    <3> QED
      BY <3>1, FramesOfProjection
  <2>5. Len(s) = n /\ DOMAIN s = 1 .. n
    BY <2>2, <2>3
  <2>6. whole.buffer = Tail(s)
    <3>1. Tail(s) = [k \in 1 .. (Len(s) - 1) |-> s[k + 1]]
      BY <2>2, <2>3
    <3>2. ASSUME NEW k \in 1 .. (n - 1) PROVE s[k + 1] = ProjectionOf(1 + k)
      <4>1. k + 1 \in 1 .. n /\ k + 1 = 1 + k
        BY <2>2
      <4> QED
        BY <2>3, <4>1
    <3> QED
      BY <2>3, <2>5, <3>1, <3>2, Zenon
  <2> QED
    BY <2>2, <2>4, <2>5, <2>6, Zenon DEF s, t
<1> QED
  BY <1>1, LqInvariant, PTL

-----------------------------------------------------------------------------
(***************************************************************************)
(* The layers of a network: how many of a kind there are.                  *)
(***************************************************************************)
Count(s, kinds) == Cardinality({w \in 1 .. Len(s) : s[w][1] \in kinds})

\* Layers of these kinds, in any order.
LayersOf(kinds) == Seq(kinds \X BOOLEAN)

\* A count is a number, and that of nothing is zero.
LEMMA CountType ==
  ASSUME NEW D, NEW s \in Seq(D), NEW kinds
  PROVE  /\ Count(s, kinds) \in Nat
         /\ IsFiniteSet({w \in 1 .. Len(s) : s[w][1] \in kinds})
         /\ (\A w \in 1 .. Len(s) : s[w][1] \notin kinds) => Count(s, kinds) = 0
<1> DEFINE A == {w \in 1 .. Len(s) : s[w][1] \in kinds}
<1>1. IsFiniteSet(1 .. Len(s)) /\ A \in SUBSET (1 .. Len(s))
  BY FS_Interval
<1>2. (\A w \in 1 .. Len(s) : s[w][1] \notin kinds) => A = {}
  OBVIOUS
<1>3. Count(s, kinds) = Cardinality(A)
  BY DEF Count
<1> HIDE DEF A
<1>4. IsFiniteSet(A)
  BY <1>1, FS_Subset
<1>5. Cardinality(A) \in Nat
  BY <1>4, FS_CardinalityType
<1> QED
  BY <1>2, <1>3, <1>4, <1>5, FS_EmptySet DEF A

\* The layers of two networks, one after the other, are those of both.
LEMMA CountOfConcat ==
  ASSUME NEW D, NEW a \in Seq(D), NEW b \in Seq(D), NEW kinds
  PROVE  Count(a \o b, kinds) = Count(a, kinds) + Count(b, kinds)
<1> DEFINE c == a \o b
           A == {w \in 1 .. Len(a) : a[w][1] \in kinds}
           B == {w \in 1 .. Len(b) : b[w][1] \in kinds}
           C == {w \in 1 .. Len(c) : c[w][1] \in kinds}
           E == {Len(a) + w : w \in B}
           f == [w \in B |-> Len(a) + w]
<1>1. c \in Seq(D) /\ IsConcat(c, a, b)
  BY Concat
<1>2. IsFiniteSet(A) /\ IsFiniteSet(B)
  BY CountType
<1> HIDE DEF c
<1>3. Len(a) \in Nat /\ Len(b) \in Nat
  OBVIOUS
<1>4. B \in SUBSET Nat
  OBVIOUS
<1>5. C = A \cup E
  <2> DEFINE n == Len(a)
             m == Len(b)
  <2>1. /\ n \in Nat /\ m \in Nat /\ Len(c) = n + m
        /\ \A k \in 1 .. n : c[k] = a[k]
        /\ \A k \in 1 .. m : c[n + k] = b[k]
    BY <1>1, <1>3 DEF IsConcat
  <2>2. A = {w \in 1 .. n : a[w][1] \in kinds} /\ B = {w \in 1 .. m : b[w][1] \in kinds}
    OBVIOUS
  <2>3. E = {n + w : w \in B} /\ C = {w \in 1 .. Len(c) : c[w][1] \in kinds}
    OBVIOUS
  <2> HIDE DEF n, m, A, B, C, E
  <2>4. ASSUME NEW w \in C PROVE w \in A \cup E
    <3>1. w \in 1 .. (n + m) /\ c[w][1] \in kinds
      BY <2>1, <2>3, Zenon
    <3>2. CASE w <= n
      BY <2>1, <2>2, <3>1, <3>2
    <3>3. CASE ~ (w <= n)
      <4>1. w - n \in 1 .. m /\ n + (w - n) = w
        BY <2>1, <3>1, <3>3
      <4>2. b[w - n][1] \in kinds
        BY <2>1, <3>1, <4>1
      <4> QED
        BY <2>2, <2>3, <4>1, <4>2
    <3> QED
      BY <3>2, <3>3
  <2>5. ASSUME NEW w \in A PROVE w \in C
    BY <2>1, <2>2, <2>3
  <2>6. ASSUME NEW w \in E PROVE w \in C
    <3>1. PICK k \in B : w = n + k
      BY <2>3
    <3>2. k \in 1 .. m /\ b[k][1] \in kinds
      BY <2>2
    <3>3. n + k \in 1 .. (n + m)
      BY <2>1, <3>2
    <3> QED
      BY <2>1, <2>3, <3>1, <3>2, <3>3
  <2> QED
    BY <2>4, <2>5, <2>6
<1>6. A \cap E = {}
  BY <1>3, <1>4
<1>7. ExistsBijection(B, E)
  <2>1. f \in [B -> E]
    OBVIOUS
  <2>2. \A v \in B, w \in B : f[v] = f[w] => v = w
    BY <1>3, <1>4
  <2>3. \A t \in E : \E w \in B : f[w] = t
    OBVIOUS
  <2>4. DOMAIN f = B
    OBVIOUS
  <2> HIDE DEF f, E, B
  <2>5. f \in Bijection(B, E)
    BY <2>1, <2>2, <2>3, <2>4 DEF Bijection, Injection, Surjection, IsInjective
  <2> QED
    BY <2>5 DEF ExistsBijection
<1>8. Count(c, kinds) = Cardinality(C) /\ Count(a, kinds) = Cardinality(A)
        /\ Count(b, kinds) = Cardinality(B)
  BY DEF Count
<1> HIDE DEF A, B, C, E, f
<1>9. IsFiniteSet(E) /\ Cardinality(E) = Cardinality(B)
  BY <1>2, <1>7, FS_Bijection
<1>10. Cardinality(A \cup E) = Cardinality(A) + Cardinality(E) - Cardinality(A \cap E)
  BY <1>2, <1>9, FS_Union
<1>11. Cardinality({}) = 0 /\ Cardinality(A) \in Nat /\ Cardinality(B) \in Nat
  BY <1>2, FS_EmptySet, FS_CardinalityType
<1>12. Cardinality(C) = Cardinality(A) + Cardinality(B) - 0
  BY <1>5, <1>6, <1>9, <1>10, <1>11, Zenon
<1>13. Cardinality(A) + Cardinality(B) - 0 = Cardinality(A) + Cardinality(B)
  BY <1>11
<1> QED
  BY <1>8, <1>12, <1>13, Zenon DEF c

\* One layer is of these kinds or not.
LEMMA CountOfOne ==
  ASSUME NEW kind, NEW end, NEW kinds
  PROVE  Count(<<<<kind, end>>>>, kinds) = IF kind \in kinds THEN 1 ELSE 0
<1> DEFINE s == <<<<kind, end>>>>
           A == {w \in 1 .. Len(s) : s[w][1] \in kinds}
<1>1. Len(s) = 1 /\ s[1] = <<kind, end>> /\ s[1][1] = kind
  OBVIOUS
<1>2. A = IF kind \in kinds THEN {1} ELSE {}
  <2>1. A = {w \in {1} : s[w][1] \in kinds}
    BY <1>1
  <2>2. s[1][1] = kind
    BY <1>1
  <2> HIDE DEF s
  <2> QED
    BY <2>1, <2>2
<1>3. Count(s, kinds) = Cardinality(A)
  BY DEF Count
<1> HIDE DEF A
<1> QED
  BY <1>2, <1>3, FS_EmptySet, FS_Singleton DEF s

\* One more number, or not.
LEMMA OneMoreNumber ==
  ASSUME NEW P, NEW n \in Nat
  PROVE  Cardinality(P \cap (1 .. (n + 1)))
           = Cardinality(P \cap (1 .. n)) + IF n + 1 \in P THEN 1 ELSE 0
<1> DEFINE a == P \cap (1 .. n)
           b == P \cap (1 .. (n + 1))
<1>1. IsFiniteSet(1 .. n) /\ a \in SUBSET (1 .. n)
  BY FS_Interval
<1>2. n + 1 \notin a /\ b = IF n + 1 \in P THEN a \cup {n + 1} ELSE a
  OBVIOUS
<1> HIDE DEF a, b
<1>3. IsFiniteSet(a)
  BY <1>1, FS_Subset
<1>4. Cardinality(a) \in Nat
  BY <1>3, FS_CardinalityType
<1>5. Cardinality(a \cup {n + 1}) = Cardinality(a) + 1
  BY <1>2, <1>3, FS_AddElement
<1>6. Cardinality(b) = Cardinality(a) + IF n + 1 \in P THEN 1 ELSE 0
  BY <1>2, <1>4, <1>5
<1> QED
  BY <1>6 DEF a, b

\* Networks of which those numbered in P have one layer of these kinds, and the
\* others none.
LEMMA CountOfJoined ==
  ASSUME NEW D, NEW seqs \in Seq(Seq(D)), NEW kinds, NEW P,
         \A k \in 1 .. Len(seqs) : Count(seqs[k], kinds) = IF k \in P THEN 1 ELSE 0
  PROVE  Count(FlattenSeq(seqs), kinds) = Cardinality(P \cap (1 .. Len(seqs)))
<1> DEFINE T(n) == Count(Joined(seqs, n), kinds) = Cardinality(P \cap (1 .. n))
           S == {n \in Nat : n <= Len(seqs) => T(n)}
<1>1. 0 \in S
  <2>1. Joined(seqs, 0) = <<>>
    BY FlattenSteps
  <2> DEFINE e == <<>>
  <2>2. e \in Seq(D) /\ \A w \in 1 .. Len(e) : e[w][1] \notin kinds
    OBVIOUS
  <2> HIDE DEF e
  <2>3. Count(e, kinds) = 0
    BY <2>2, CountType
  <2>4. P \cap (1 .. 0) = {}
    OBVIOUS
  <2>5. T(0)
    BY <2>1, <2>3, <2>4, FS_EmptySet DEF e
  <2> QED
    BY <2>5
<1>2. ASSUME NEW n \in S PROVE n + 1 \in S
  <2>1. SUFFICES ASSUME n + 1 <= Len(seqs) PROVE T(n + 1)
    OBVIOUS
  <2>2. n \in Nat /\ n \in 0 .. (Len(seqs) - 1) /\ n + 1 \in 1 .. Len(seqs) /\ T(n)
    BY <2>1
  <2>3. Joined(seqs, n) \in Seq(D) /\ Joined(seqs, n + 1) = Joined(seqs, n) \o seqs[n + 1]
    BY <2>2, FlattenSteps
  <2>4. seqs[n + 1] \in Seq(D)
    BY <2>2
  <2>5. Count(Joined(seqs, n + 1), kinds)
          = Count(Joined(seqs, n), kinds) + Count(seqs[n + 1], kinds)
    <3> DEFINE a == Joined(seqs, n)
               b == seqs[n + 1]
    <3>1. a \in Seq(D) /\ b \in Seq(D)
      BY <2>3, <2>4
    <3> HIDE DEF a, b
    <3>2. Count(a \o b, kinds) = Count(a, kinds) + Count(b, kinds)
      BY <3>1, CountOfConcat
    <3> QED
      BY <2>3, <3>2, Zenon DEF a, b
  <2>6. Count(seqs[n + 1], kinds) = IF n + 1 \in P THEN 1 ELSE 0
    BY <2>2
  <2>7. Cardinality(P \cap (1 .. (n + 1)))
          = Cardinality(P \cap (1 .. n)) + IF n + 1 \in P THEN 1 ELSE 0
    BY <2>2, OneMoreNumber
  <2> QED
    BY <2>2, <2>5, <2>6, <2>7, Zenon
<1> HIDE DEF S
<1>3. S = Nat
  <2>1. S \in SUBSET Nat
    BY DEF S
  <2> QED
    BY <1>1, <1>2, <2>1, SetInduction
<1>4. Len(seqs) \in S
  BY <1>3
<1>5. T(Len(seqs))
  BY <1>4 DEF S
<1> QED
  BY <1>5, FlattenSteps

\* Layers that change how many frames there are.
TimeLayers == {"down3d", "up3d"}
EncoderLayers == {"conv", "attn", "down2d", "down3d"}
DecoderLayers == {"conv", "attn", "up2d", "up3d"}

\* Layers of some kinds are layers of more kinds, and of none of the others.
LEMMA LayersOfMore ==
  ASSUME NEW ks, NEW ls, ks \subseteq ls, NEW s \in LayersOf(ks)
  PROVE  s \in LayersOf(ls)
<1>1. ks \X BOOLEAN \subseteq ls \X BOOLEAN
  OBVIOUS
<1> DEFINE D == ks \X BOOLEAN
           E == ls \X BOOLEAN
<1>2. s \in Seq(D) /\ D \subseteq E
  BY <1>1 DEF LayersOf
<1> HIDE DEF D, E
<1>3. s \in Seq(E)
  BY <1>2
<1> QED
  BY <1>3 DEF LayersOf, E

\* A network of other kinds of layers has none of these.
LEMMA LayersOfOthers ==
  ASSUME NEW ks, NEW kinds, ks \cap kinds = {}, NEW s \in LayersOf(ks)
  PROVE  Count(s, kinds) = 0
<1> DEFINE D == ks \X BOOLEAN
<1>1. s \in Seq(D)
  BY DEF LayersOf
<1>2. ASSUME NEW w \in 1 .. Len(s) PROVE s[w][1] \notin kinds
  <2>1. s[w] \in D
    <3> HIDE DEF D
    <3> QED
      BY <1>1, ElementOfSeq
  <2>2. s[w][1] \in ks
    BY <2>1
  <2> QED
    BY <2>2
<1> HIDE DEF D
<1> QED
  BY <1>1, <1>2, CountType

\* Networks one after the other.
LEMMA BothNetworks ==
  ASSUME NEW ks, NEW a \in LayersOf(ks), NEW b \in LayersOf(ks)
  PROVE  /\ a \o b \in LayersOf(ks)
         /\ \A kinds : Count(a \o b, kinds) = Count(a, kinds) + Count(b, kinds)
<1> DEFINE D == ks \X BOOLEAN
<1>1. a \in Seq(D) /\ b \in Seq(D)
  BY DEF LayersOf
<1> HIDE DEF D
<1>2. a \o b \in Seq(D)
  BY <1>1
<1>3. \A kinds : Count(a \o b, kinds) = Count(a, kinds) + Count(b, kinds)
  BY <1>1, CountOfConcat
<1> QED
  BY <1>2, <1>3 DEF LayersOf, D

\* Residual blocks have two convolutions each, and nothing else.
LEMMA BlocksOfConvs ==
  ASSUME NEW n \in Nat
  PROVE  ResidualBlocks(n) \in LayersOf({"conv"})
<1> DEFINE D == {"conv"} \X BOOLEAN
           seqs == [k \in 1 .. n |-> ResidualBlock]
<1>1. <<"conv", FALSE>> \in D /\ <<"conv", TRUE>> \in D
  OBVIOUS
<1> HIDE DEF D
<1>2. ResidualBlock \in Seq(D)
  BY <1>1 DEF ResidualBlock
<1>3. seqs \in Seq(Seq(D))
  BY <1>2
<1> HIDE DEF seqs
<1>4. FlattenSeq(seqs) \in Seq(D)
  BY <1>3, FlattenSteps
<1> QED
  BY <1>4, Zenon DEF ResidualBlocks, LayersOf, D, seqs

\* A stage: residual blocks, and all but the last stage end in another layer.
StageOf(n, kind, last) == ResidualBlocks(n) \o IF last THEN <<>> ELSE Layer(kind)

\* A stage has a layer that changes times when it ends in one, and no other.
LEMMA StageLayers ==
  ASSUME NEW n \in Nat, NEW ks, "conv" \in ks, NEW kind \in ks, NEW last \in BOOLEAN,
         NEW kinds, "conv" \notin kinds
  PROVE  /\ StageOf(n, kind, last) \in LayersOf(ks)
         /\ Count(StageOf(n, kind, last), kinds) = IF ~ last /\ kind \in kinds THEN 1 ELSE 0
<1> DEFINE a == ResidualBlocks(n)
           b == IF last THEN <<>> ELSE Layer(kind)
           e == <<>>
<1>1. a \in LayersOf({"conv"}) /\ {"conv"} \subseteq ks /\ {"conv"} \cap kinds = {}
  BY BlocksOfConvs
<1>2. e \in LayersOf({}) /\ {} \subseteq ks /\ {} \cap kinds = {}
  BY DEF LayersOf
<1>3. Layer(kind) \in LayersOf(ks)
  <2> DEFINE D == ks \X BOOLEAN
  <2>1. <<kind, TRUE>> \in D
    OBVIOUS
  <2> HIDE DEF D
  <2>2. <<<<kind, TRUE>>>> \in Seq(D)
    BY <2>1
  <2> QED
    BY <2>2, Zenon DEF Layer, LayersOf, D
<1>4. Count(Layer(kind), kinds) = IF kind \in kinds THEN 1 ELSE 0
  BY CountOfOne, Zenon DEF Layer
<1>5. b = IF last THEN e ELSE Layer(kind)
  OBVIOUS
<1>6. StageOf(n, kind, last) = a \o b
  BY Zenon DEF StageOf
<1> HIDE DEF a, b, e
<1>7. a \in LayersOf(ks) /\ Count(a, kinds) = 0
  BY <1>1, LayersOfMore, LayersOfOthers
<1>8. e \in LayersOf(ks) /\ Count(e, kinds) = 0
  BY <1>2, LayersOfMore, LayersOfOthers
<1>9. b \in LayersOf(ks) /\ Count(b, kinds) = IF ~ last /\ kind \in kinds THEN 1 ELSE 0
  BY <1>3, <1>4, <1>5, <1>8
<1>10. a \o b \in LayersOf(ks) /\ Count(a \o b, kinds) = Count(a, kinds) + Count(b, kinds)
  BY <1>7, <1>9, BothNetworks
<1> QED
  BY <1>6, <1>7, <1>9, <1>10

\* All stages.
Stages(n, kindOf) ==
  FlattenSeq([k \in 1 .. Levels |-> StageOf(n, kindOf[k], k = Levels)])

\* The stages that end in a layer of these kinds.
StagesWith(kindOf, kinds) == {k \in 1 .. Levels : k # Levels /\ kindOf[k] \in kinds}

\* All stages have as many such layers as there are stages that end in one.
LEMMA StagesLayers ==
  ASSUME NEW n \in Nat, NEW ks, "conv" \in ks, NEW kindOf \in [1 .. Levels -> ks],
         NEW kinds, "conv" \notin kinds
  PROVE  /\ Stages(n, kindOf) \in LayersOf(ks)
         /\ Count(Stages(n, kindOf), kinds) = Cardinality(StagesWith(kindOf, kinds))
<1> DEFINE D == ks \X BOOLEAN
           seqs == [k \in 1 .. Levels |-> StageOf(n, kindOf[k], k = Levels)]
           P == {k \in 1 .. Levels : k # Levels /\ kindOf[k] \in kinds}
<1>1. Levels \in Nat
  BY VaeAssumption
<1>2. ASSUME NEW k \in 1 .. Levels
      PROVE  /\ StageOf(n, kindOf[k], k = Levels) \in LayersOf(ks)
             /\ Count(StageOf(n, kindOf[k], k = Levels), kinds)
                  = IF k # Levels /\ kindOf[k] \in kinds THEN 1 ELSE 0
  <2> DEFINE kind == kindOf[k]
             last == k = Levels
  <2>1. kind \in ks /\ last \in BOOLEAN
    OBVIOUS
  <2> HIDE DEF kind, last
  <2>2. /\ StageOf(n, kind, last) \in LayersOf(ks)
        /\ Count(StageOf(n, kind, last), kinds) = IF ~ last /\ kind \in kinds THEN 1 ELSE 0
    BY <2>1, StageLayers
  <2> QED
    BY <2>2, Zenon DEF kind, last
<1>3. LayersOf(ks) = Seq(D)
  BY DEF LayersOf
<1> HIDE DEF D
<1>4. seqs \in Seq(Seq(D)) /\ Len(seqs) = Levels
  BY <1>1, <1>2, <1>3
<1>5. \A k \in 1 .. Levels : Count(seqs[k], kinds) = IF k \in P THEN 1 ELSE 0
  <2>1. \A k \in 1 .. Levels : seqs[k] = StageOf(n, kindOf[k], k = Levels)
    BY Zenon
  <2>2. \A k \in 1 .. Levels : k \in P <=> k # Levels /\ kindOf[k] \in kinds
    BY Zenon
  <2> HIDE DEF seqs, P
  <2> QED
    BY <1>2, <2>1, <2>2, Zenon
<1>6. P \cap (1 .. Levels) = P
  OBVIOUS
<1>7. Stages(n, kindOf) = FlattenSeq(seqs)
  BY Zenon DEF Stages
<1> HIDE DEF seqs, P
<1>8. FlattenSeq(seqs) \in Seq(D)
  BY <1>4, FlattenSteps
<1>9. Count(FlattenSeq(seqs), kinds) = Cardinality(P \cap (1 .. Len(seqs)))
  BY <1>4, <1>5, CountOfJoined
<1> QED
  BY <1>3, <1>4, <1>6, <1>7, <1>8, <1>9, Zenon DEF P, StagesWith

\* As many layers change the number of frames as TimeDown has levels, one for
\* each.
LEMMA TimeLayersAreTwo ==
  ASSUME NEW P \in SUBSET Nat, NEW f \in [P -> TimeDown],
         \A k \in P, l \in P : f[k] = f[l] => k = l,
         \A d \in TimeDown : \E k \in P : f[k] = d
  PROVE  Cardinality(P) = 2
<1>1. IsFiniteSet(TimeDown)
  <2>1. IsFiniteSet(0 .. (Levels - 2)) /\ TimeDown \in SUBSET (0 .. (Levels - 2))
    BY VaeAssumption, FS_Interval
  <2> QED
    BY <2>1, FS_Subset
<1>2. f \in Injection(P, TimeDown) /\ f \in Surjection(P, TimeDown)
  BY DEF Injection, Surjection, IsInjective
<1>3. Cardinality(P) = Cardinality(TimeDown)
  BY <1>1, <1>2, FS_Injection
<1> QED
  BY <1>3, CondAssumption

\* The middle of a network, and its first and last layer, leave times as they are.
LEMMA MiddleLayers ==
  ASSUME NEW ks, "conv" \in ks, "attn" \in ks
  PROVE  /\ Middle \in LayersOf(ks) /\ Count(Middle, TimeLayers) = 0
         /\ Layer("conv") \in LayersOf(ks) /\ Count(Layer("conv"), TimeLayers) = 0
         /\ <<<<"conv", FALSE>>>> \in LayersOf(ks)
         /\ Count(<<<<"conv", FALSE>>>>, TimeLayers) = 0
<1> DEFINE ls == {"conv", "attn"}
           D == ls \X BOOLEAN
           a == ResidualBlock
           b == Layer("attn")
           c == Layer("conv")
           d == <<<<"conv", FALSE>>>>
<1>1. <<"conv", FALSE>> \in D /\ <<"conv", TRUE>> \in D /\ <<"attn", TRUE>> \in D
  OBVIOUS
<1>2. LayersOf(ls) = Seq(D) /\ ls \subseteq ks /\ ls \cap TimeLayers = {}
  BY DEF LayersOf, TimeLayers
<1>3. Middle = (a \o b) \o a
  BY DEF Middle
<1> HIDE DEF D
<1>4. a \in Seq(D) /\ b \in Seq(D) /\ c \in Seq(D) /\ d \in Seq(D)
  BY <1>1 DEF ResidualBlock, Layer
<1> HIDE DEF ls, a, b, c, d
<1>5. Middle \in Seq(D)
  BY <1>3, <1>4
<1>6. \A s \in LayersOf(ls) : s \in LayersOf(ks) /\ Count(s, TimeLayers) = 0
  BY <1>2, LayersOfMore, LayersOfOthers
<1>7. Middle \in LayersOf(ls) /\ c \in LayersOf(ls) /\ d \in LayersOf(ls)
  BY <1>2, <1>4, <1>5
<1> QED
  BY <1>6, <1>7, Zenon DEF c, d

\* The encoder halves the number of frames twice and never doubles it.
LEMMA EncoderCounts ==
  Encoder3d \in LayersOf(EncoderLayers) /\ Count(Encoder3d, TimeLayers) = 2
<1> DEFINE ks == EncoderLayers
           kindOf == [k \in 1 .. Levels |-> IF k - 1 \in TimeDown THEN "down3d" ELSE "down2d"]
           s == Stages(ResBlocks, kindOf)
           c == Layer("conv")
           d == <<<<"conv", FALSE>>>>
           P == StagesWith(kindOf, TimeLayers)
           f == [k \in P |-> k - 1]
<1>1. /\ Levels \in Nat /\ ResBlocks \in Nat
      /\ \A l \in TimeDown : l \in 0 .. (Levels - 2)
  BY VaeAssumption
<1>2. /\ "conv" \in ks /\ "attn" \in ks /\ "conv" \notin TimeLayers
      /\ kindOf \in [1 .. Levels -> ks]
  BY DEF EncoderLayers, TimeLayers
<1>3. Encoder3d = ((c \o s) \o Middle) \o d
  <2> DEFINE stage(k) == ResidualBlocks(ResBlocks)
                           \o IF k = Levels THEN <<>>
                              ELSE Layer(IF k - 1 \in TimeDown THEN "down3d" ELSE "down2d")
  <2>1. \A k \in 1 .. Levels : StageOf(ResBlocks, kindOf[k], k = Levels) = stage(k)
    BY Zenon DEF StageOf
  <2>2. Encoder3d = ((c \o FlattenSeq([k \in 1 .. Levels |-> stage(k)])) \o Middle) \o d
    BY Zenon DEF Encoder3d
  <2> HIDE DEF stage, kindOf
  <2> QED
    BY <2>1, <2>2, Zenon DEF Stages
<1>4. \A k \in 1 .. Levels : kindOf[k] \in TimeLayers <=> k - 1 \in TimeDown
  BY DEF TimeLayers
<1>5. P = {k \in 1 .. Levels : k # Levels /\ k - 1 \in TimeDown}
  BY <1>4 DEF StagesWith
<1> HIDE DEF ks, kindOf, c, d
<1>6. s \in LayersOf(ks) /\ Count(s, TimeLayers) = Cardinality(P)
  BY <1>1, <1>2, StagesLayers
<1> HIDE DEF s
<1>7. Cardinality(P) = 2
  <2>1. P \in SUBSET Nat /\ f \in [P -> TimeDown]
    BY <1>1, <1>5
  <2>2. \A k \in P, l \in P : f[k] = f[l] => k = l
    BY <1>1, <1>5
  <2>3. ASSUME NEW l \in TimeDown PROVE \E k \in P : f[k] = l
    <3>1. l + 1 \in 1 .. Levels /\ l + 1 # Levels /\ (l + 1) - 1 = l
      BY <1>1
    <3>2. l + 1 \in P
      BY <1>5, <3>1
    <3>3. f[l + 1] = l
      BY <3>1, <3>2
    <3> QED
      BY <3>2, <3>3
  <2> HIDE DEF P, f
  <2> QED
    BY <2>1, <2>2, <2>3, TimeLayersAreTwo
<1>8. /\ Middle \in LayersOf(ks) /\ Count(Middle, TimeLayers) = 0
      /\ c \in LayersOf(ks) /\ Count(c, TimeLayers) = 0
      /\ d \in LayersOf(ks) /\ Count(d, TimeLayers) = 0
  BY <1>2, MiddleLayers DEF c, d
<1> DEFINE cs == c \o s
<1>9. cs \in LayersOf(ks) /\ Count(cs, TimeLayers) = Count(c, TimeLayers) + Count(s, TimeLayers)
  BY <1>6, <1>8, BothNetworks
<1> HIDE DEF cs
<1> DEFINE csm == cs \o Middle
<1>10. csm \in LayersOf(ks)
         /\ Count(csm, TimeLayers) = Count(cs, TimeLayers) + Count(Middle, TimeLayers)
  BY <1>8, <1>9, BothNetworks
<1> HIDE DEF csm
<1>11. csm \o d \in LayersOf(ks)
         /\ Count(csm \o d, TimeLayers) = Count(csm, TimeLayers) + Count(d, TimeLayers)
  BY <1>8, <1>10, BothNetworks
<1>12. Encoder3d = csm \o d
  BY <1>3 DEF cs, csm
<1>13. Count(csm, TimeLayers) = 2
  BY <1>6, <1>7, <1>8, <1>9, <1>10
<1> QED
  BY <1>8, <1>11, <1>12, <1>13 DEF ks

\* The decoder doubles the number of frames twice and never halves it.
LEMMA DecoderCounts ==
  Decoder3d \in LayersOf(DecoderLayers) /\ Count(Decoder3d, TimeLayers) = 2
<1> DEFINE ks == DecoderLayers
           kindOf == [k \in 1 .. Levels |-> IF Levels - 1 - k \in TimeDown THEN "up3d" ELSE "up2d"]
           s == Stages(ResBlocks + 1, kindOf)
           c == Layer("conv")
           d == <<<<"conv", FALSE>>>>
           P == StagesWith(kindOf, TimeLayers)
           f == [k \in P |-> Levels - 1 - k]
<1>1. /\ Levels \in Nat /\ ResBlocks + 1 \in Nat
      /\ \A l \in TimeDown : l \in 0 .. (Levels - 2)
  BY VaeAssumption
<1>2. /\ "conv" \in ks /\ "attn" \in ks /\ "conv" \notin TimeLayers
      /\ kindOf \in [1 .. Levels -> ks]
  BY DEF DecoderLayers, TimeLayers
<1>3. Decoder3d = ((c \o Middle) \o s) \o d
  <2> DEFINE stage(k) == ResidualBlocks(ResBlocks + 1)
                           \o IF k = Levels THEN <<>>
                              ELSE Layer(IF Levels - 1 - k \in TimeDown THEN "up3d" ELSE "up2d")
  <2>1. \A k \in 1 .. Levels : StageOf(ResBlocks + 1, kindOf[k], k = Levels) = stage(k)
    BY Zenon DEF StageOf
  <2>2. Decoder3d = ((c \o Middle) \o FlattenSeq([k \in 1 .. Levels |-> stage(k)])) \o d
    BY Zenon DEF Decoder3d
  <2> HIDE DEF stage, kindOf
  <2> QED
    BY <2>1, <2>2, Zenon DEF Stages
<1>4. \A k \in 1 .. Levels : kindOf[k] \in TimeLayers <=> Levels - 1 - k \in TimeDown
  BY DEF TimeLayers
<1>5. P = {k \in 1 .. Levels : k # Levels /\ Levels - 1 - k \in TimeDown}
  BY <1>4 DEF StagesWith
<1> HIDE DEF ks, kindOf, c, d
<1>6. s \in LayersOf(ks) /\ Count(s, TimeLayers) = Cardinality(P)
  BY <1>1, <1>2, StagesLayers
<1> HIDE DEF s
<1>7. Cardinality(P) = 2
  <2>1. P \in SUBSET Nat /\ f \in [P -> TimeDown]
    BY <1>1, <1>5
  <2>2. \A k \in P, l \in P : f[k] = f[l] => k = l
    BY <1>1, <1>5
  <2>3. ASSUME NEW l \in TimeDown PROVE \E k \in P : f[k] = l
    <3> DEFINE k == Levels - 1 - l
    <3>1. k \in 1 .. Levels /\ k # Levels /\ Levels - 1 - k = l
      BY <1>1
    <3>2. k \in P
      BY <1>5, <3>1
    <3>3. f[k] = l
      BY <3>1, <3>2
    <3> QED
      BY <3>2, <3>3
  <2> HIDE DEF P, f
  <2> QED
    BY <2>1, <2>2, <2>3, TimeLayersAreTwo
<1>8. /\ Middle \in LayersOf(ks) /\ Count(Middle, TimeLayers) = 0
      /\ c \in LayersOf(ks) /\ Count(c, TimeLayers) = 0
      /\ d \in LayersOf(ks) /\ Count(d, TimeLayers) = 0
  BY <1>2, MiddleLayers DEF c, d
<1> DEFINE cm == c \o Middle
<1>9. cm \in LayersOf(ks) /\ Count(cm, TimeLayers) = Count(c, TimeLayers) + Count(Middle, TimeLayers)
  BY <1>8, BothNetworks
<1> HIDE DEF cm
<1> DEFINE cms == cm \o s
<1>10. cms \in LayersOf(ks)
         /\ Count(cms, TimeLayers) = Count(cm, TimeLayers) + Count(s, TimeLayers)
  BY <1>6, <1>9, BothNetworks
<1> HIDE DEF cms
<1>11. cms \o d \in LayersOf(ks)
         /\ Count(cms \o d, TimeLayers) = Count(cms, TimeLayers) + Count(d, TimeLayers)
  BY <1>8, <1>10, BothNetworks
<1>12. Decoder3d = cms \o d
  BY <1>3 DEF cm, cms
<1>13. Count(cms, TimeLayers) = 2
  BY <1>6, <1>7, <1>8, <1>9, <1>10
<1> QED
  BY <1>8, <1>11, <1>12, <1>13 DEF ks

-----------------------------------------------------------------------------
\* The layers before a layer: none before the first, one more or not before the
\* next, all of them after the last.
LEMMA BeforeSteps ==
  ASSUME NEW D, NEW net \in Seq(D), NEW kinds
  PROVE  /\ Before(net, 1, kinds) = 0
         /\ Before(net, Len(net) + 1, kinds) = Count(net, kinds)
         /\ \A v \in 1 .. Len(net) :
              Before(net, v + 1, kinds)
                = Before(net, v, kinds) + IF net[v][1] \in kinds THEN 1 ELSE 0
         /\ \A v, w \in 1 .. (Len(net) + 1) :
              /\ Before(net, v, kinds) \in Nat
              /\ v <= w => Before(net, v, kinds) <= Before(net, w, kinds)
<1> DEFINE n == Len(net)
           P == {w \in 1 .. n : net[w][1] \in kinds}
<1>1. n \in Nat
  OBVIOUS
<1>2. ASSUME NEW v \in 1 .. (n + 1)
      PROVE  Before(net, v, kinds) = Cardinality(P \cap (1 .. (v - 1)))
  <2>1. {w \in 1 .. (v - 1) : net[w][1] \in kinds} = P \cap (1 .. (v - 1))
    <3> HIDE DEF n
    <3>1. \A w \in 1 .. (v - 1) : w \in 1 .. n
      BY <1>1
    <3> QED
      BY <3>1
  <2> QED
    BY <2>1, Zenon DEF Before
<1>3. Count(net, kinds) = Cardinality(P)
  BY DEF Count
<1>4. \A v \in 1 .. n : v \in P <=> net[v][1] \in kinds
  OBVIOUS
<1>5. P \cap (1 .. 0) = {} /\ P \cap (1 .. n) = P
  OBVIOUS
<1> HIDE DEF n, P
<1>6. Before(net, 1, kinds) = 0
  <2>1. 1 \in 1 .. (n + 1) /\ 1 - 1 = 0
    BY <1>1
  <2> QED
    BY <1>2, <1>5, <2>1, FS_EmptySet
<1>7. Before(net, n + 1, kinds) = Count(net, kinds)
  <2>1. n + 1 \in 1 .. (n + 1) /\ (n + 1) - 1 = n
    BY <1>1
  <2> QED
    BY <1>2, <1>3, <1>5, <2>1
<1>8. ASSUME NEW v \in 1 .. n
      PROVE  Before(net, v + 1, kinds)
               = Before(net, v, kinds) + IF net[v][1] \in kinds THEN 1 ELSE 0
  <2> DEFINE m == v - 1
  <2>1. /\ m \in Nat /\ v = m + 1 /\ (v + 1) - 1 = m + 1
        /\ v \in 1 .. (n + 1) /\ v + 1 \in 1 .. (n + 1)
    BY <1>1
  <2>2. Before(net, v, kinds) = Cardinality(P \cap (1 .. m))
    BY <1>2, <2>1
  <2>3. Before(net, v + 1, kinds) = Cardinality(P \cap (1 .. (m + 1)))
    BY <1>2, <2>1
  <2> HIDE DEF m
  <2>4. Cardinality(P \cap (1 .. (m + 1)))
          = Cardinality(P \cap (1 .. m)) + IF m + 1 \in P THEN 1 ELSE 0
    BY <2>1, OneMoreNumber
  <2> QED
    BY <1>4, <2>1, <2>2, <2>3, <2>4, Zenon
<1>9. ASSUME NEW v \in 1 .. (n + 1), NEW w \in 1 .. (n + 1)
      PROVE  /\ Before(net, v, kinds) \in Nat
             /\ v <= w => Before(net, v, kinds) <= Before(net, w, kinds)
  <2> DEFINE a == P \cap (1 .. (v - 1))
             b == P \cap (1 .. (w - 1))
  <2>1. \A k \in 1 .. (n + 1) : IsFiniteSet(P \cap (1 .. (k - 1)))
    <3>1. \A k \in 1 .. (n + 1) : k - 1 \in Int
      BY <1>1
    <3>2. \A k \in Int : IsFiniteSet(1 .. k)
      BY FS_Interval
    <3>3. \A k \in Int : IsFiniteSet(P \cap (1 .. k))
      BY <3>2, FS_Intersection
    <3> QED
      BY <3>1, <3>3
  <2>2. v <= w => a \in SUBSET b
    BY <1>1
  <2>3. Before(net, v, kinds) = Cardinality(a) /\ Before(net, w, kinds) = Cardinality(b)
    BY <1>2
  <2>4. IsFiniteSet(a) /\ IsFiniteSet(b)
    BY <2>1
  <2> HIDE DEF a, b
  <2>5. Cardinality(a) \in Nat /\ (v <= w => Cardinality(a) <= Cardinality(b))
    BY <2>2, <2>4, FS_CardinalityType, FS_Subset
  <2> QED
    BY <2>3, <2>5
<1> QED
  BY <1>6, <1>7, <1>8, <1>9 DEF n

\* How many frames of a piece a layer is given, but of the first piece, which is
\* one frame throughout.
RateAfter(kind, r) ==
  IF kind = "up3d" THEN 2 * r ELSE IF kind = "down3d" THEN r \div 2 ELSE r

Changed(op, v) == Before(Network(op), v, TimeLayers)

RateAt(op, v) ==
  IF op = "encode" THEN IF Changed(op, v) = 0 THEN 4 ELSE IF Changed(op, v) = 1 THEN 2 ELSE 1
                   ELSE IF Changed(op, v) = 0 THEN 1 ELSE IF Changed(op, v) = 1 THEN 2 ELSE 4

Operations == {"encode", "decode"}
Kinds == EncoderLayers \cup DecoderLayers

\* The encoder is given four frames a piece and makes one; the decoder is given
\* one and makes four.
LEMMA Rates ==
  ASSUME NEW op \in Operations
  PROVE  /\ Network(op) \in LayersOf(Kinds) /\ Len(Network(op)) \in Nat \ {0}
         /\ RateAt(op, 1) = IF op = "encode" THEN 4 ELSE 1
         /\ RateAt(op, Len(Network(op)) + 1) = IF op = "encode" THEN 1 ELSE 4
         /\ \A v \in 1 .. Len(Network(op)) :
              /\ Network(op)[v][1] \in Kinds /\ RateAt(op, v) \in {1, 2, 4}
              /\ Network(op)[v][1] = "down3d" => RateAt(op, v) # 1
              /\ RateAt(op, v + 1) = RateAfter(Network(op)[v][1], RateAt(op, v))
<1> DEFINE net == Network(op)
           ks == IF op = "encode" THEN EncoderLayers ELSE DecoderLayers
           D == ks \X BOOLEAN
           n == Len(net)
           t(v) == Before(net, v, TimeLayers)
<1>1. net \in LayersOf(ks) /\ Count(net, TimeLayers) = 2 /\ ks \subseteq Kinds
  BY EncoderCounts, DecoderCounts DEF Network, Operations, Kinds
<1>2. net \in LayersOf(Kinds)
  <2> HIDE DEF net, ks
  <2> QED
    BY <1>1, LayersOfMore
<1>3. net \in Seq(D)
  BY <1>1, Zenon DEF LayersOf
<1>4. ks \subseteq (IF op = "encode" THEN {"conv", "attn", "down2d", "down3d"}
                                     ELSE {"conv", "attn", "up2d", "up3d"})
  BY DEF EncoderLayers, DecoderLayers
<1>5. \A v : RateAt(op, v) =
        IF op = "encode" THEN IF t(v) = 0 THEN 4 ELSE IF t(v) = 1 THEN 2 ELSE 1
                         ELSE IF t(v) = 0 THEN 1 ELSE IF t(v) = 1 THEN 2 ELSE 4
  BY Zenon DEF RateAt, Changed
<1> HIDE DEF net
<1>6. n \in Nat
  BY <1>3
<1>7. ASSUME NEW v \in 1 .. n PROVE net[v][1] \in ks
  <2>1. net[v] \in D
    <3> HIDE DEF D
    <3> QED
      BY <1>3, ElementOfSeq
  <2> HIDE DEF ks
  <2> QED
    BY <2>1
<1> HIDE DEF ks, D
<1>8. /\ t(1) = 0 /\ t(n + 1) = 2
      /\ \A v \in 1 .. n : t(v + 1) = t(v) + IF net[v][1] \in TimeLayers THEN 1 ELSE 0
      /\ \A v \in 1 .. (n + 1), w \in 1 .. (n + 1) : t(v) \in Nat /\ (v <= w => t(v) <= t(w))
  BY <1>1, <1>3, BeforeSteps
<1> HIDE DEF t
<1>9. n # 0
  BY <1>8
<1>10. ASSUME NEW v \in 1 .. n
       PROVE  /\ net[v][1] \in Kinds /\ RateAt(op, v) \in {1, 2, 4}
              /\ net[v][1] = "down3d" => RateAt(op, v) # 1
              /\ RateAt(op, v + 1) = RateAfter(net[v][1], RateAt(op, v))
  <2> DEFINE kind == net[v][1]
  <2>1. v \in 1 .. (n + 1) /\ v + 1 \in 1 .. (n + 1) /\ n + 1 \in 1 .. (n + 1) /\ v + 1 <= n + 1
    BY <1>6
  <2>2. t(v) \in Nat /\ t(v + 1) \in Nat /\ t(v + 1) <= 2
    BY <1>8, <2>1
  <2>3. t(v + 1) = t(v) + IF kind \in TimeLayers THEN 1 ELSE 0
    BY <1>8
  <2>4. kind \in ks
    BY <1>7
  <2> HIDE DEF kind
  <2>5. CASE op = "encode"
    <3>1. kind \in {"conv", "attn", "down2d", "down3d"}
      BY <1>4, <2>4, <2>5
    <3> QED
      BY <1>1, <1>5, <2>2, <2>3, <2>4, <2>5, <3>1 DEF RateAfter, TimeLayers, kind
  <2>6. CASE op # "encode"
    <3>1. kind \in {"conv", "attn", "up2d", "up3d"}
      BY <1>4, <2>4, <2>6
    <3> QED
      BY <1>1, <1>5, <2>2, <2>3, <2>4, <2>6, <3>1 DEF RateAfter, TimeLayers, kind
  <2> QED
    BY <2>5, <2>6
<1>11. RateAt(op, 1) = (IF op = "encode" THEN 4 ELSE 1)
         /\ RateAt(op, n + 1) = IF op = "encode" THEN 1 ELSE 4
  BY <1>5, <1>8
<1> QED
  BY <1>2, <1>6, <1>9, <1>10, <1>11 DEF net

-----------------------------------------------------------------------------
(***************************************************************************)
(* What a layer makes of one piece of a clip, and what it keeps of it.     *)
(***************************************************************************)
\* Consecutive frames.
FramesFrom(n, len) == [m \in 1 .. len |-> n + m - 1]

\* Consecutive frames are a sequence of the given length.
LEMMA FramesFromSeq ==
  ASSUME NEW n \in Int, NEW len \in Nat
  PROVE  /\ FramesFrom(n, len) \in Seq(Int) /\ Len(FramesFrom(n, len)) = len
         /\ DOMAIN FramesFrom(n, len) = 1 .. len
         /\ \A m \in 1 .. len : FramesFrom(n, len)[m] = n + m - 1
  BY DEF FramesFrom

\* One frame and another.
LEMMA OneAndOne ==
  ASSUME NEW D, NEW a \in D, NEW b \in D
  PROVE  <<a>> \o <<b>> = <<a, b>>
<1> DEFINE p == <<a>>
           q == <<b>>
           t == <<a, b>>
<1>1. p \in Seq(D) /\ q \in Seq(D) /\ t \in Seq(D)
  OBVIOUS
<1>2. Len(p) = 1 /\ Len(q) = 1 /\ Len(t) = 2 /\ p[1] = a /\ q[1] = b /\ t[1] = a /\ t[2] = b
  OBVIOUS
<1> HIDE DEF p, q, t
<1>3. IsConcat(t, p, q)
  BY <1>2 DEF IsConcat
<1>4. p \o q = t
  BY <1>1, <1>3, ConcatIs
<1> QED
  BY <1>4, Zenon DEF p, q, t

\* A convolution that was given two frames before.
ConvAfter(a, b, s) == [m \in 1 .. Len(s) |-> SubSeq(<<a, b>> \o s, m, m + 2)]

\* What is missing of two frames of cache is zero.
LEMMA ConvIsAfter ==
  ASSUME NEW s \in Seq(Int)
  PROVE  /\ CausalConv3d(s, None) = ConvAfter(Zero, Zero, s)
         /\ \A a \in Int : <<a>> # None => CausalConv3d(s, <<a>>) = ConvAfter(Zero, a, s)
         /\ \A a, b \in Int : <<a, b>> # None => CausalConv3d(s, <<a, b>>) = ConvAfter(a, b, s)
<1>1. Zeros(2) = <<Zero, Zero>> /\ Zeros(1) = <<Zero>> /\ Zeros(0) = <<>>
  BY DEF Zeros, Zero
<1>2. Zeros(CacheT - Len(<<>>)) \o <<>> \o s = <<Zero, Zero>> \o s
  <2>1. Len(<<>>) = 0 /\ CacheT - 0 = 2
    BY DEF CacheT
  <2>2. <<Zero, Zero>> \o <<>> = <<Zero, Zero>>
    BY DEF Zero
  <2> QED
    BY <1>1, <2>1, <2>2
<1>3. ASSUME NEW a \in Int
      PROVE  Zeros(CacheT - Len(<<a>>)) \o <<a>> \o s = <<Zero, a>> \o s
  <2>1. Len(<<a>>) = 1 /\ CacheT - 1 = 1
    BY DEF CacheT
  <2>2. <<Zero>> \o <<a>> = <<Zero, a>>
    <3>1. Zero \in Int
      BY DEF Zero
    <3> QED
      BY <3>1, OneAndOne
  <2> QED
    BY <1>1, <2>1, <2>2
<1>4. ASSUME NEW a \in Int, NEW b \in Int
      PROVE  Zeros(CacheT - Len(<<a, b>>)) \o <<a, b>> \o s = <<a, b>> \o s
  <2>1. Len(<<a, b>>) = 2 /\ CacheT - 2 = 0
    BY DEF CacheT
  <2>2. <<>> \o <<a, b>> = <<a, b>>
    OBVIOUS
  <2> QED
    BY <1>1, <2>1, <2>2
<1>5. CausalConv3d(s, None) = ConvAfter(Zero, Zero, s)
  BY <1>2, Zenon DEF CausalConv3d, ConvAfter
<1>6. ASSUME NEW a \in Int, <<a>> # None PROVE CausalConv3d(s, <<a>>) = ConvAfter(Zero, a, s)
  BY <1>3, <1>6, Zenon DEF CausalConv3d, ConvAfter
<1>7. ASSUME NEW a \in Int, NEW b \in Int, <<a, b>> # None
      PROVE  CausalConv3d(s, <<a, b>>) = ConvAfter(a, b, s)
  BY <1>4, <1>7, Zenon DEF CausalConv3d, ConvAfter
<1> QED
  BY <1>5, <1>6, <1>7

\* What frames of the whole clip are made of.
CausalFrom(n, len, first) == [m \in 1 .. len |-> CausalTaps(n + m - 1, first)]

\* If the two frames are those before the piece, with zeros for those before the
\* clip, the convolution is that of the whole clip.
LEMMA ConvReads ==
  ASSUME NEW n \in Int, NEW len \in Nat, NEW first \in Int, first <= n,
         NEW a \in Int, a = IF n - 2 < first THEN Zero ELSE n - 2,
         NEW b \in Int, b = IF n - 1 < first THEN Zero ELSE n - 1
  PROVE  ConvAfter(a, b, FramesFrom(n, len)) = CausalFrom(n, len, first)
<1> DEFINE s == FramesFrom(n, len)
           q == <<a, b>> \o s
<1>1. s \in Seq(Int) /\ Len(s) = len /\ \A m \in 1 .. len : s[m] = n + m - 1
  BY FramesFromSeq
<1> HIDE DEF s
<1>2. q \in Seq(Int) /\ Len(q) = len + 2
  BY <1>1
<1>3. \A j \in 1 .. (len + 2) : q[j] = IF n - 3 + j < first THEN Zero ELSE n - 3 + j
  <2>1. q[1] = a /\ q[2] = b
    BY <1>1
  <2>2. \A j \in 3 .. (len + 2) : q[j] = s[j - 2] /\ j - 2 \in 1 .. len
    BY <1>1
  <2> HIDE DEF q
  <2> QED
    BY <1>1, <2>1, <2>2
<1> HIDE DEF q
<1>4. ASSUME NEW m \in 1 .. len PROVE SubSeq(q, m, m + 2) = CausalTaps(n + m - 1, first)
  <2> DEFINE t == CausalTaps(n + m - 1, first)
  <2>1. t \in Seq(Int) /\ Len(t) = 3
    BY DEF CausalTaps, Zero
  <2>2. \A d \in 1 .. 3 : t[d] = q[m + d - 1]
    <3>1. \A d \in 1 .. 3 : m + d - 1 \in 1 .. (len + 2)
                              /\ n - 3 + (m + d - 1) = (n + m - 1) - 3 + d
      OBVIOUS
    <3>2. \A d \in 1 .. 3 : t[d] = IF (n + m - 1) - 3 + d < first THEN Zero ELSE (n + m - 1) - 3 + d
      BY DEF CausalTaps
    <3> HIDE DEF t
    <3> QED
      BY <1>3, <3>1, <3>2
  <2> HIDE DEF t
  <2>3. m \in Nat \ {0} /\ m + 2 \in Nat /\ m <= (m + 2) + 1 /\ m + 2 <= Len(q)
          /\ Len(t) = (m + 2) - m + 1 /\ \A d \in 1 .. Len(t) : t[d] = q[m + d - 1]
    BY <1>2, <2>1, <2>2
  <2> QED
    BY <1>2, <2>1, <2>3, SubSeqIs DEF t
<1>5. ConvAfter(a, b, s) = [m \in 1 .. len |-> SubSeq(q, m, m + 2)]
  BY <1>1, Zenon DEF ConvAfter, q
<1> QED
  BY <1>4, <1>5, Zenon DEF s, CausalFrom

\* The last frames of a piece.
LEMMA KeptFrames ==
  ASSUME NEW n \in Int, NEW len \in Nat \ {0}, NEW held, NEW filler \in Int
  PROVE  /\ LastOf(FramesFrom(n, len), 1) = <<n + len - 1>>
         /\ len > 1 => KeepForNext(FramesFrom(n, len), held, filler) = <<n + len - 2, n + len - 1>>
         /\ len = 1 => KeepForNext(FramesFrom(n, len), held, filler)
                         = IF held # None THEN <<filler, n>> ELSE <<n>>
<1> DEFINE s == FramesFrom(n, len)
<1>1. s \in Seq(Int) /\ Len(s) = len /\ \A m \in 1 .. len : s[m] = n + m - 1
  BY FramesFromSeq
<1> HIDE DEF s
<1>2. LastOf(s, 1) = <<n + len - 1>>
  <2> DEFINE t == <<n + len - 1>>
  <2>1. t \in Seq(Int) /\ Len(t) = 1 /\ t[1] = n + len - 1
    OBVIOUS
  <2>2. (IF len > 1 THEN len - 1 + 1 ELSE 1) = len
    OBVIOUS
  <2>3. s[len] = n + len - 1
    BY <1>1
  <2> HIDE DEF t
  <2>4. SubSeq(s, len, len) = t
    <3>1. len <= len + 1 /\ Len(t) = len - len + 1 /\ \A k \in 1 .. Len(t) : t[k] = s[len + k - 1]
      BY <2>1, <2>3
    <3> QED
      BY <1>1, <2>1, <3>1, SubSeqIs
  <2> QED
    BY <1>1, <2>2, <2>4, Zenon DEF LastOf, t
<1>3. ASSUME len > 1 PROVE KeepForNext(s, held, filler) = <<n + len - 2, n + len - 1>>
  <2> DEFINE t == <<n + len - 2, n + len - 1>>
  <2>1. t \in Seq(Int) /\ Len(t) = 2 /\ t[1] = n + len - 2 /\ t[2] = n + len - 1
    OBVIOUS
  <2>2. (IF len > 2 THEN len - 2 + 1 ELSE 1) = len - 1
    BY <1>3
  <2>3. s[len - 1] = n + len - 2 /\ s[len] = n + len - 1
    BY <1>1, <1>3
  <2> HIDE DEF t
  <2>4. SubSeq(s, len - 1, len) = t
    <3> DEFINE p == len - 1
    <3>1. p \in Nat \ {0} /\ p <= len + 1 /\ Len(t) = len - p + 1 /\ p + 2 - 1 = len /\ p + 1 - 1 = p
      BY <1>3, <2>1
    <3>2. s[p] = n + len - 2
      BY <2>3
    <3> HIDE DEF p
    <3>3. \A k \in 1 .. 2 : t[k] = s[p + k - 1]
      <4>1. t[1] = s[p + 1 - 1] /\ t[2] = s[p + 2 - 1]
        BY <2>1, <2>3, <3>1, <3>2
      <4>2. \A k \in 1 .. 2 : k = 1 \/ k = 2
        OBVIOUS
      <4> QED
        BY <4>1, <4>2, Zenon
    <3>4. \A k \in 1 .. Len(t) : t[k] = s[p + k - 1]
      BY <2>1, <3>3, Zenon
    <3>5. len <= Len(s) /\ Len(t) = len - p + 1 /\ len \in Nat
      BY <1>1, <3>1
    <3>6. SubSeq(s, p, len) = t
      BY <1>1, <2>1, <3>1, <3>4, <3>5, SubSeqIs
    <3> QED
      BY <3>6, Zenon DEF p
  <2>5. LastOf(s, CacheT) = t
    BY <1>1, <2>2, <2>4, Zenon DEF LastOf, CacheT
  <2>6. ~ (Len(t) < CacheT)
    BY <2>1 DEF CacheT
  <2> QED
    BY <2>5, <2>6, Zenon DEF KeepForNext, t
<1>4. ASSUME len = 1
      PROVE  KeepForNext(s, held, filler) = IF held # None THEN <<filler, n>> ELSE <<n>>
  <2> DEFINE t == <<n>>
  <2>1. t \in Seq(Int) /\ Len(t) = 1 /\ t[1] = n
    OBVIOUS
  <2>2. <<filler>> \o t = <<filler, n>>
    BY OneAndOne
  <2>3. s[1] = n
    BY <1>1, <1>4
  <2> HIDE DEF t
  <2>4. SubSeq(s, 1, 1) = t
    BY <1>1, <1>4, <2>1, <2>3, SubSeqIs
  <2>5. (IF len > 2 THEN len - 2 + 1 ELSE 1) = 1
    BY <1>4
  <2>6. LastOf(s, CacheT) = t
    BY <1>1, <1>4, <2>4, <2>5, Zenon DEF LastOf, CacheT
  <2>7. Len(t) < CacheT
    BY <2>1 DEF CacheT
  <2> QED
    BY <2>2, <2>6, <2>7, Zenon DEF KeepForNext, t
<1> QED
  BY <1>2, <1>3, <1>4 DEF s

\* Frames that a layer is given r at a time, but the first alone: how many there
\* were before piece p, how many piece p has, and which.
Given(r, p) == IF p = 0 THEN 0 ELSE 1 + r * (p - 1)
Width(r, p) == IF p = 0 THEN 1 ELSE r
PieceAt(r, p) == FramesFrom(Given(r, p), Width(r, p))

\* What a layer keeps of the first p pieces.
LastTwo(n, first) == <<IF n - 2 < first THEN Zero ELSE n - 2, n - 1>>

CacheAt(kind, r, p) ==
  IF p = 0 \/ kind \notin Cached THEN None
  ELSE IF kind = "down3d" THEN <<Given(r, p) - 1>>
  ELSE IF p = 1 THEN IF kind = "up3d" THEN Rep ELSE <<0>>
  ELSE LastTwo(Given(r, p), IF kind = "up3d" THEN 1 ELSE 0)

\* What it makes of piece p, and keeps then.
Whole(kind, r, p) == [m \in 1 .. Width(r, p) |-> WholeClip(kind, Given(r, p) + m - 1)]

Reads(kind, r, p, done) ==
  done = [taps |-> Whole(kind, RateAfter(kind, r), p), cache |-> CacheAt(kind, r, p + 1)]

\* The numbers of frames.
LEMMA GivenFrames ==
  ASSUME NEW r \in {1, 2, 4}, NEW p \in Nat
  PROVE  /\ Given(r, p) \in Nat /\ Width(r, p) \in Nat \ {0}
         /\ Given(r, p + 1) = Given(r, p) + Width(r, p)
         /\ p > 0 => Given(r, p) >= 1 /\ Width(r, p) = r
         /\ p > 1 => Given(r, p) >= 2
         /\ p = 0 => Given(r, p) = 0 /\ Width(r, p) = 1
         /\ p = 1 => Given(r, p) = 1
<1>1. CASE r = 1
  BY <1>1 DEF Given, Width
<1>2. CASE r = 2
  BY <1>2 DEF Given, Width
<1>3. CASE r = 4
  BY <1>3 DEF Given, Width
<1> QED
  BY <1>1, <1>2, <1>3

\* The pieces before, once time has been doubled or halved.
LEMMA GivenChanged ==
  ASSUME NEW r \in {1, 2, 4}, NEW p \in Nat \ {0}
  PROVE  /\ Given(2 * r, p) = 2 * Given(r, p) - 1
         /\ r # 1 => 2 * Given(r \div 2, p) = Given(r, p) + 1
<1>1. CASE r = 1
  BY <1>1 DEF Given
<1>2. CASE r = 2
  <2>1. 2 * r = 4 /\ r \div 2 = 1
    BY <1>2
  <2> QED
    BY <1>2, <2>1 DEF Given
<1>3. CASE r = 4
  <2>1. 2 * r = 8 /\ r \div 2 = 2
    BY <1>3
  <2> QED
    BY <1>3, <2>1 DEF Given
<1> QED
  BY <1>1, <1>2, <1>3

\* A convolution.
LEMMA ConvWorks ==
  ASSUME NEW r \in {1, 2, 4}, NEW p \in Nat
  PROVE  Reads("conv", r, p, ConvLayer(PieceAt(r, p), CacheAt("conv", r, p)))
<1> DEFINE n == Given(r, p)
           w == Width(r, p)
           s == FramesFrom(n, w)
           held == CacheAt("conv", r, p)
           filler == IF held = None THEN Zero ELSE Last(held)
           a == IF n - 2 < 0 THEN Zero ELSE n - 2
           b == IF n - 1 < 0 THEN Zero ELSE n - 1
<1>1. /\ n \in Nat /\ w \in Nat \ {0} /\ Given(r, p + 1) = n + w
      /\ (p = 0 => n = 0 /\ w = 1) /\ (p = 1 => n = 1) /\ (p > 1 => n >= 2)
  BY GivenFrames
<1>2. /\ CacheAt("conv", r, p) = IF p = 0 THEN None ELSE IF p = 1 THEN <<0>> ELSE LastTwo(n, 0)
      /\ CacheAt("conv", r, p + 1) = IF p = 0 THEN <<0>> ELSE LastTwo(n + w, 0)
  <2>1. p + 1 # 0 /\ (p + 1 = 1 <=> p = 0)
    OBVIOUS
  <2>2. "conv" \in Cached /\ "conv" # "down3d" /\ "conv" # "up3d"
    BY DEF Cached
  <2> HIDE DEF n, w
  <2> QED
    BY <1>1, <2>1, <2>2, Zenon DEF CacheAt, n
<1> HIDE DEF n, w
<1>3. a \in Int /\ b \in Int
  BY <1>1 DEF Zero
<1>4. s \in Seq(Int)
  BY <1>1, FramesFromSeq
<1>5. /\ CausalConv3d(s, held) = ConvAfter(a, b, s)
      /\ filler \in Int /\ (p > 0 => filler = n - 1) /\ (held = None <=> p = 0)
  <2>1. CASE p = 0
    <3>1. a = Zero /\ b = Zero /\ held = None /\ filler = Zero /\ Zero \in Int
      BY <1>1, <1>2, <2>1 DEF Zero
    <3> HIDE DEF s, a, b, held, filler
    <3> QED
      BY <1>4, <2>1, <3>1, ConvIsAfter
  <2>2. CASE p = 1
    <3>1. a = Zero /\ b = 0 /\ held = <<0>>
      BY <1>1, <1>2, <2>2
    <3>2. <<0>> # None
      <4>1. <<0>> \in Seq(Int)
        OBVIOUS
      <4> QED
        BY <4>1, CacheAssumption, Zenon
    <3>3. filler = 0
      <4>1. Last(<<0>>) = 0
        BY DEF Last
      <4> QED
        BY <3>1, <3>2, <4>1, Zenon
    <3> HIDE DEF s, a, b, held, filler
    <3> QED
      BY <1>1, <1>4, <2>2, <3>1, <3>2, <3>3, ConvIsAfter
  <2>3. CASE p > 1
    <3>1. a = n - 2 /\ b = n - 1 /\ held = <<a, b>>
      BY <1>1, <1>2, <2>3 DEF LastTwo
    <3>2. <<a, b>> # None
      <4>1. <<a, b>> \in Seq(Int)
        BY <1>3
      <4> QED
        BY <4>1, CacheAssumption, Zenon
    <3>3. filler = b
      <4>1. Last(<<a, b>>) = b
        BY DEF Last
      <4> QED
        BY <3>1, <3>2, <4>1, Zenon
    <3> HIDE DEF s, a, b, held, filler
    <3>4. CausalConv3d(s, <<a, b>>) = ConvAfter(a, b, s)
      BY <1>3, <1>4, <3>2, ConvIsAfter
    <3> QED
      BY <1>1, <1>3, <2>3, <3>1, <3>2, <3>3, <3>4
  <2> QED
    BY <2>1, <2>2, <2>3
<1>6. ConvAfter(a, b, s) = CausalFrom(n, w, 0)
  <2>1. 0 \in Int /\ 0 <= n /\ n \in Int /\ w \in Nat
    BY <1>1
  <2>2. a = (IF n - 2 < 0 THEN Zero ELSE n - 2) /\ b = IF n - 1 < 0 THEN Zero ELSE n - 1
    OBVIOUS
  <2> HIDE DEF a, b
  <2> QED
    BY <1>3, <2>1, <2>2, ConvReads
<1>7. \A k : WholeClip("conv", k) = CausalTaps(k, 0)
  BY DEF WholeClip
<1>8. KeepForNext(s, held, filler) = CacheAt("conv", r, p + 1)
  <2> HIDE DEF held, filler
  <2>1. /\ w > 1 => KeepForNext(s, held, filler) = <<n + w - 2, n + w - 1>>
        /\ w = 1 => KeepForNext(s, held, filler) = IF held # None THEN <<filler, n>> ELSE <<n>>
    BY <1>1, <1>5, KeptFrames
  <2> HIDE DEF s
  <2>2. CASE p = 0
    BY <1>1, <1>2, <1>5, <2>1, <2>2
  <2>3. CASE p > 0 /\ w = 1
    <3>1. LastTwo(n + w, 0) = <<n - 1, n>>
      BY <1>1, <2>3 DEF LastTwo
    <3> QED
      BY <1>1, <1>2, <1>5, <2>1, <2>3, <3>1
  <2>4. CASE p > 0 /\ w > 1
    <3>1. LastTwo(n + w, 0) = <<n + w - 2, n + w - 1>>
      BY <1>1, <2>4 DEF LastTwo
    <3> QED
      BY <1>1, <1>2, <2>1, <2>4, <3>1
  <2> QED
    BY <1>1, <2>2, <2>3, <2>4
<1>9. RateAfter("conv", r) = r
  BY DEF RateAfter
<1>10. Whole("conv", r, p) = CausalFrom(n, w, 0)
  BY <1>7, Zenon DEF Whole, CausalFrom, n, w
<1>11. ConvLayer(s, held) = [taps |-> CausalConv3d(s, held), cache |-> KeepForNext(s, held, filler)]
  BY Zenon DEF ConvLayer
<1> QED
  BY <1>5, <1>6, <1>8, <1>9, <1>10, <1>11, Zenon DEF Reads, PieceAt, n, w

\* A layer that keeps frames apart.
FramesApart(n, len) == [m \in 1 .. len |-> <<n + m - 1>>]

\* A layer without a kernel in time reads each frame on its own.
LEMMA KeptApart ==
  ASSUME NEW n \in Int, NEW len \in Nat
  PROVE  [m \in 1 .. Len(FramesFrom(n, len)) |-> <<FramesFrom(n, len)[m]>>] = FramesApart(n, len)
<1> DEFINE s == FramesFrom(n, len)
<1>1. Len(s) = len /\ \A m \in 1 .. len : s[m] = n + m - 1
  BY FramesFromSeq
<1> HIDE DEF s
<1>2. [m \in 1 .. Len(s) |-> <<s[m]>>] = [m \in 1 .. len |-> <<n + m - 1>>]
  BY <1>1, Zenon
<1> QED
  BY <1>2, Zenon DEF s, FramesApart

\* A layer that keeps no cache reads of a piece what it reads of the whole clip.
LEMMA OthersWork ==
  ASSUME NEW kind, kind \notin Cached, NEW r \in {1, 2, 4}, NEW p \in Nat
  PROVE  Reads(kind, r, p, [taps |-> [m \in 1 .. Len(PieceAt(r, p)) |-> <<PieceAt(r, p)[m]>>],
                            cache |-> CacheAt(kind, r, p)])
<1>1. Given(r, p) \in Int /\ Width(r, p) \in Nat
  <2>1. Given(r, p) \in Nat /\ Width(r, p) \in Nat \ {0}
    BY GivenFrames
  <2> QED
    BY <2>1
<1>2. [m \in 1 .. Len(PieceAt(r, p)) |-> <<PieceAt(r, p)[m]>>]
        = FramesApart(Given(r, p), Width(r, p))
  BY <1>1, KeptApart, Zenon DEF PieceAt
<1>3. kind # "conv" /\ kind # "up3d" /\ kind # "down3d"
  BY DEF Cached
<1>4. \A k : WholeClip(kind, k) = <<k>>
  BY <1>3 DEF WholeClip
<1>5. RateAfter(kind, r) = r
  BY <1>3 DEF RateAfter
<1>6. Whole(kind, r, p) = FramesApart(Given(r, p), Width(r, p))
  BY <1>4, Zenon DEF Whole, FramesApart
<1>7. CacheAt(kind, r, p) = None /\ CacheAt(kind, r, p + 1) = None
  BY Zenon DEF CacheAt
<1> QED
  BY <1>2, <1>5, <1>6, <1>7, Zenon DEF Reads

\* The first piece passes the layers that change the number of frames.
LEMMA FirstPasses ==
  ASSUME NEW r, NEW q, NEW kind \in TimeLayers
  PROVE  /\ PieceAt(r, 0) = FramesFrom(0, 1)
         /\ [m \in 1 .. Len(PieceAt(r, 0)) |-> <<PieceAt(r, 0)[m]>>] = Whole(kind, q, 0)
         /\ CacheAt(kind, r, 0) = None
<1>1. PieceAt(r, 0) = FramesFrom(0, 1)
  BY Zenon DEF PieceAt, Given, Width
<1>2. [m \in 1 .. Len(PieceAt(r, 0)) |-> <<PieceAt(r, 0)[m]>>] = FramesApart(0, 1)
  <2>1. 0 \in Int /\ 1 \in Nat
    OBVIOUS
  <2> QED
    BY <1>1, <2>1, KeptApart, Zenon
<1>3. \A m \in 1 .. 1 : WholeClip(kind, 0 + m - 1) = <<0 + m - 1>>
  <2>1. \A m \in 1 .. 1 : ~ (0 + m - 1 > 0)
    OBVIOUS
  <2>2. kind # "conv"
    BY DEF TimeLayers
  <2> QED
    BY <2>1, <2>2 DEF WholeClip
<1>4. Whole(kind, q, 0) = FramesApart(0, 1)
  BY <1>3, Zenon DEF Whole, FramesApart, Given, Width
<1>5. CacheAt(kind, r, 0) = None
  BY Zenon DEF CacheAt
<1> QED
  BY <1>1, <1>2, <1>4, <1>5, Zenon

\* An up-sampling layer.
LEMMA UpWorks ==
  ASSUME NEW r \in {1, 2, 4}, NEW p \in Nat
  PROVE  Reads("up3d", r, p, Upsample3d(PieceAt(r, p), CacheAt("up3d", r, p)))
<1> DEFINE n == Given(r, p)
           w == Width(r, p)
           s == PieceAt(r, p)
           held == CacheAt("up3d", r, p)
           a == IF n - 2 < 1 THEN Zero ELSE n - 2
           b == IF n - 1 < 1 THEN Zero ELSE n - 1
           conv == CausalConv3d(s, IF held = Rep THEN None ELSE held)
           filler == IF held = Rep THEN Zero ELSE Last(held)
<1>1. /\ n \in Nat /\ w \in Nat \ {0} /\ Given(r, p + 1) = n + w
      /\ (p = 1 => n = 1) /\ (p > 1 => n >= 2) /\ (p > 0 => w = r)
  BY GivenFrames
<1>2. RateAfter("up3d", r) = 2 * r
  BY DEF RateAfter
<1>3. "up3d" \in Cached /\ "up3d" # "down3d" /\ "up3d" \in TimeLayers
  BY DEF Cached, TimeLayers
<1>4. CASE p = 0
  <2>1. CacheAt("up3d", r, p + 1) = Rep
    <3>1. p + 1 = 1 /\ p + 1 # 0
      BY <1>4
    <3> QED
      BY <1>3, <3>1, Zenon DEF CacheAt
  <2>2. /\ held = None
        /\ [m \in 1 .. Len(s) |-> <<s[m]>>] = Whole("up3d", RateAfter("up3d", r), p)
    BY <1>3, <1>4, FirstPasses, Zenon
  <2>3. Upsample3d(s, held) = [taps |-> [m \in 1 .. Len(s) |-> <<s[m]>>], cache |-> Rep]
    BY <2>2, Zenon DEF Upsample3d
  <2> QED
    BY <2>1, <2>2, <2>3, Zenon DEF Reads
<1>5. CASE p > 0
  <2>1. /\ held = IF p = 1 THEN Rep ELSE LastTwo(n, 1)
        /\ CacheAt("up3d", r, p + 1) = LastTwo(n + w, 1)
    <3>1. p # 0 /\ p + 1 # 0 /\ p + 1 # 1
      BY <1>5
    <3> HIDE DEF n, w
    <3> QED
      BY <1>1, <1>3, <3>1, Zenon DEF CacheAt, n
  <2>2. s = FramesFrom(n, w)
    BY Zenon DEF PieceAt
  <2>3. 2 * r \in Nat /\ Given(2 * r, p) = 2 * n - 1 /\ Width(2 * r, p) = 2 * w
    <3>1. Given(2 * r, p) = 2 * n - 1
      BY <1>5, GivenChanged
    <3>2. Width(2 * r, p) = 2 * r
      BY <1>5 DEF Width
    <3> HIDE DEF n, w
    <3> QED
      BY <1>1, <1>5, <3>1, <3>2
  <2> HIDE DEF n, w, s
  <2>4. a \in Int /\ b \in Int
    BY <1>1 DEF Zero
  <2>5. s \in Seq(Int) /\ Len(s) = w
    BY <1>1, <2>2, FramesFromSeq
  <2>6. conv = ConvAfter(a, b, s) /\ filler \in Int /\ filler = b /\ held # None
    <3>1. CASE p = 1
      <4>1. a = Zero /\ b = Zero /\ held = Rep /\ Zero \in Int
        BY <1>1, <2>1, <3>1 DEF Zero
      <4>2. conv = CausalConv3d(s, None) /\ filler = Zero
        BY <4>1, Zenon
      <4> HIDE DEF conv, filler, held, a, b
      <4>3. CausalConv3d(s, None) = ConvAfter(Zero, Zero, s)
        BY <2>5, ConvIsAfter
      <4> QED
        BY <4>1, <4>2, <4>3, CacheAssumption, Zenon
    <3>2. CASE p > 1
      <4>1. b = n - 1 /\ held = <<a, b>>
        BY <1>1, <2>1, <3>2 DEF LastTwo
      <4>2. <<a, b>> # None /\ <<a, b>> # Rep
        <5>1. <<a, b>> \in Seq(Int)
          BY <2>4
        <5> QED
          BY <5>1, CacheAssumption, Zenon
      <4>3. Last(<<a, b>>) = b
        BY DEF Last
      <4>4. conv = CausalConv3d(s, <<a, b>>) /\ filler = b
        BY <4>1, <4>2, <4>3, Zenon
      <4> HIDE DEF conv, filler, held, a, b
      <4>5. CausalConv3d(s, <<a, b>>) = ConvAfter(a, b, s)
        BY <2>4, <2>5, <4>2, ConvIsAfter
      <4> QED
        BY <2>4, <4>1, <4>2, <4>4, <4>5, Zenon
    <3> QED
      BY <1>5, <3>1, <3>2
  <2>7. conv = CausalFrom(n, w, 1)
    <3>1. 1 \in Int /\ 1 <= n /\ n \in Int /\ w \in Nat
      BY <1>1, <1>5
    <3>2. a = (IF n - 2 < 1 THEN Zero ELSE n - 2) /\ b = IF n - 1 < 1 THEN Zero ELSE n - 1
      OBVIOUS
    <3> HIDE DEF a, b
    <3>3. ConvAfter(a, b, s) = CausalFrom(n, w, 1)
      BY <2>2, <2>4, <3>1, <3>2, ConvReads
    <3> QED
      BY <2>6, <3>3, Zenon
  <2>8. /\ KeepForNext(s, held, filler) = LastTwo(n + w, 1)
    <3>1. b = IF n - 1 < 1 THEN Zero ELSE n - 1
      OBVIOUS
    <3> HIDE DEF held, filler, b
    <3>2. /\ w > 1 => KeepForNext(s, held, filler) = <<n + w - 2, n + w - 1>>
          /\ w = 1 => KeepForNext(s, held, filler) = <<filler, n>>
      BY <1>1, <2>2, <2>6, KeptFrames
    <3>3. 1 <= n
      BY <1>1, <1>5
    <3>4. CASE w = 1
      <4>1. LastTwo(n + w, 1) = <<b, n>>
        BY <1>1, <3>1, <3>3, <3>4 DEF LastTwo
      <4> QED
        BY <2>6, <3>2, <3>4, <4>1
    <3>5. CASE w > 1
      <4>1. LastTwo(n + w, 1) = <<n + w - 2, n + w - 1>>
        BY <1>1, <3>3, <3>5 DEF LastTwo
      <4> QED
        BY <3>2, <3>5, <4>1
    <3> QED
      BY <1>1, <3>4, <3>5
  <2>9. [m \in 1 .. (2 * Len(s)) |-> conv[(m + 1) \div 2]] = Whole("up3d", 2 * r, p)
    <3>1. ASSUME NEW m \in 1 .. (2 * w)
          PROVE  conv[(m + 1) \div 2] = WholeClip("up3d", (2 * n - 1) + m - 1)
      <4> DEFINE h == (m + 1) \div 2
                 k == (2 * n - 1) + m - 1
      <4>1. h \in 1 .. w /\ k > 0 /\ (k + 1) \div 2 = n + h - 1
        BY <1>1, <1>5
      <4> HIDE DEF h, k
      <4>2. WholeClip("up3d", k) = CausalTaps((k + 1) \div 2, 1)
        BY <4>1 DEF WholeClip
      <4>3. conv[h] = CausalTaps(n + h - 1, 1)
        <5> HIDE DEF conv
        <5> QED
          BY <2>7, <4>1, Zenon DEF CausalFrom
      <4> QED
        BY <4>1, <4>2, <4>3, Zenon DEF h, k
    <3>2. Whole("up3d", 2 * r, p) = [m \in 1 .. (2 * w) |-> WholeClip("up3d", (2 * n - 1) + m - 1)]
      BY <2>3, Zenon DEF Whole
    <3> HIDE DEF conv
    <3> QED
      BY <2>5, <3>1, <3>2, Zenon
  <2>10. Upsample3d(s, held)
           = [taps |-> [m \in 1 .. (2 * Len(s)) |-> conv[(m + 1) \div 2]],
              cache |-> KeepForNext(s, held, filler)]
    BY <2>6, Zenon DEF Upsample3d
  <2> QED
    BY <1>2, <2>1, <2>8, <2>9, <2>10, Zenon DEF Reads, s
<1> QED
  BY <1>4, <1>5

\* A down-sampling layer.
LEMMA DownWorks ==
  ASSUME NEW r \in {2, 4}, NEW p \in Nat
  PROVE  Reads("down3d", r, p, Downsample3d(PieceAt(r, p), CacheAt("down3d", r, p)))
<1> DEFINE n == Given(r, p)
           w == Width(r, p)
           s == PieceAt(r, p)
           held == CacheAt("down3d", r, p)
           joined == <<Last(held)>> \o s
           half == r \div 2
<1>1. r \in {1, 2, 4}
  OBVIOUS
<1>2. /\ n \in Nat /\ w \in Nat \ {0} /\ Given(r, p + 1) = n + w
      /\ (p = 0 => n = 0 /\ w = 1) /\ (p > 0 => n >= 1 /\ w = r)
  BY <1>1, GivenFrames
<1>3. RateAfter("down3d", r) = half
  BY DEF RateAfter
<1>4. "down3d" \in Cached /\ "down3d" \in TimeLayers
  BY DEF Cached, TimeLayers
<1>5. CacheAt("down3d", r, p + 1) = <<n + w - 1>>
  <2>1. p + 1 # 0
    OBVIOUS
  <2>2. CacheAt("down3d", r, p + 1) = <<Given(r, p + 1) - 1>>
    BY <1>4, <2>1, Zenon DEF CacheAt
  <2>3. Given(r, p + 1) - 1 = n + w - 1
    BY <1>2
  <2> QED
    BY <2>2, <2>3, Zenon
<1>6. s = FramesFrom(n, w)
  BY Zenon DEF PieceAt
<1>7. CASE p = 0
  <2>1. /\ held = None
        /\ [m \in 1 .. Len(s) |-> <<s[m]>>] = Whole("down3d", RateAfter("down3d", r), p)
    BY <1>4, <1>7, FirstPasses, Zenon
  <2>2. Downsample3d(s, held) = [taps |-> [m \in 1 .. Len(s) |-> <<s[m]>>], cache |-> s]
    BY <2>1, Zenon DEF Downsample3d
  <2>3. s = <<n + w - 1>>
    <3>1. FramesFrom(0, 1) = <<0>>
      BY DEF FramesFrom
    <3>2. n = 0 /\ w = 1 /\ n + w - 1 = 0
      BY <1>2, <1>7
    <3> HIDE DEF n, w
    <3> QED
      BY <1>6, <3>1, <3>2, Zenon
  <2> QED
    BY <1>5, <2>1, <2>2, <2>3, Zenon DEF Reads
<1>8. CASE p > 0
  <2>1. held = <<n - 1>> /\ held # None
    <3>1. p # 0
      BY <1>8
    <3>2. held = <<n - 1>>
      BY <1>4, <3>1, Zenon DEF CacheAt
    <3>3. <<n - 1>> \in Seq(Int)
      BY <1>2
    <3> QED
      BY <3>2, <3>3, CacheAssumption, Zenon
  <2>2. half \in Nat \ {0} /\ 2 * half = w /\ 2 * Given(half, p) = n + 1
    <3>1. r # 1 /\ p \in Nat \ {0}
      BY <1>8
    <3>2. 2 * Given(half, p) = n + 1
      BY <1>1, <3>1, GivenChanged
    <3> HIDE DEF n, w
    <3> QED
      BY <1>2, <1>8, <3>2
  <2>3. Width(half, p) = half
    BY <1>8 DEF Width
  <2> HIDE DEF n, w, s, half
  <2> DEFINE g == Given(half, p)
  <2>4. g \in Nat
    BY <1>8, <2>2 DEF Given
  <2>5. joined = FramesFrom(n - 1, w + 1)
    <3> DEFINE c == <<n - 1>>
               t == FramesFrom(n - 1, w + 1)
    <3>1. c \in Seq(Int) /\ Len(c) = 1 /\ c[1] = n - 1 /\ Last(c) = n - 1
      BY <1>2 DEF Last
    <3>2. n - 1 \in Int /\ w + 1 \in Nat /\ n \in Int /\ w \in Nat
      BY <1>2
    <3>3. t \in Seq(Int) /\ Len(t) = w + 1 /\ \A m \in 1 .. (w + 1) : t[m] = (n - 1) + m - 1
      BY <3>2, FramesFromSeq
    <3>4. s \in Seq(Int) /\ Len(s) = w /\ \A m \in 1 .. w : s[m] = n + m - 1
      BY <1>6, <3>2, FramesFromSeq
    <3>5. joined = c \o s
      BY <2>1, <3>1, Zenon
    <3> HIDE DEF c, t
    <3>6. IsConcat(t, c, s)
      <4>1. \A k \in 1 .. 1 : t[k] = c[k]
        <5>1. t[1] = c[1]
          BY <3>1, <3>2, <3>3
        <5>2. \A k \in 1 .. 1 : k = 1
          OBVIOUS
        <5> QED
          BY <5>1, <5>2, Zenon
      <4>2. \A k \in 1 .. w : t[1 + k] = s[k]
        BY <3>2, <3>3, <3>4
      <4> QED
        BY <3>1, <3>2, <3>3, <3>4, <4>1, <4>2 DEF IsConcat
    <3>7. c \o s = t
      BY <3>1, <3>3, <3>4, <3>6, ConcatIs
    <3> QED
      BY <3>5, <3>7, Zenon DEF t
  <2> HIDE DEF joined
  <2>6. /\ joined \in Seq(Int) /\ Len(joined) = w + 1
        /\ \A m \in 1 .. (w + 1) : joined[m] = (n - 1) + m - 1
    <3>1. n - 1 \in Int /\ w + 1 \in Nat
      BY <1>2
    <3> QED
      BY <2>5, <3>1, FramesFromSeq
  <2>7. (Len(joined) - 1) \div 2 = half
    BY <1>2, <2>2, <2>6
  <2>8. ASSUME NEW m \in 1 .. half
        PROVE  SubSeq(joined, 2 * m - 1, 2 * m + 1) = WholeClip("down3d", g + m - 1)
    <3> DEFINE i1 == 2 * m - 1
               i3 == 2 * m + 1
               k == g + m - 1
               t == <<2 * k - 2, 2 * k - 1, 2 * k>>
    <3>1. k > 0 /\ k \in Nat /\ 2 * k = n + 2 * m - 1
      BY <1>2, <1>8, <2>2, <2>4
    <3>2. WholeClip("down3d", k) = t
      <4> HIDE DEF k
      <4> QED
        BY <3>1 DEF WholeClip
    <3>3. i1 \in Nat \ {0} /\ i3 \in Nat /\ i1 <= i3 + 1 /\ i3 <= Len(joined) /\ i3 - i1 + 1 = 3
      BY <1>2, <2>2, <2>6
    <3>4. /\ joined[i1 + 1 - 1] = 2 * k - 2 /\ joined[i1 + 2 - 1] = 2 * k - 1
          /\ joined[i1 + 3 - 1] = 2 * k
      <4>1. i1 \in 1 .. (w + 1) /\ i1 + 1 \in 1 .. (w + 1) /\ i1 + 2 \in 1 .. (w + 1)
        BY <1>2, <2>2
      <4>2. i1 + 1 - 1 = i1 /\ i1 + 2 - 1 = i1 + 1 /\ i1 + 3 - 1 = i1 + 2
        OBVIOUS
      <4>3. /\ joined[i1] = (n - 1) + i1 - 1 /\ joined[i1 + 1] = (n - 1) + (i1 + 1) - 1
            /\ joined[i1 + 2] = (n - 1) + (i1 + 2) - 1
        BY <2>6, <4>1
      <4>4. (n - 1) + i1 - 1 = 2 * k - 2 /\ (n - 1) + (i1 + 1) - 1 = 2 * k - 1
              /\ (n - 1) + (i1 + 2) - 1 = 2 * k
        BY <1>2, <3>1
      <4> HIDE DEF k, i1
      <4> QED
        BY <4>2, <4>3, <4>4, Zenon
    <3>5. t \in Seq(Int) /\ Len(t) = 3 /\ t[1] = 2 * k - 2 /\ t[2] = 2 * k - 1 /\ t[3] = 2 * k
      <4> HIDE DEF k
      <4> QED
        BY <3>1
    <3> HIDE DEF t, i1, i3, k
    <3>6. \A d \in 1 .. 3 : t[d] = joined[i1 + d - 1]
      <4>1. \A d \in 1 .. 3 : d = 1 \/ d = 2 \/ d = 3
        OBVIOUS
      <4> QED
        BY <3>4, <3>5, <4>1, Zenon
    <3>7. \A d \in 1 .. Len(t) : t[d] = joined[i1 + d - 1]
      BY <3>5, <3>6, Zenon
    <3>8. SubSeq(joined, i1, i3) = t
      <4>1. Len(t) = i3 - i1 + 1
        BY <3>3, <3>5
      <4> QED
        BY <2>6, <3>3, <3>5, <3>7, <4>1, SubSeqIs
    <3> QED
      BY <3>2, <3>8, Zenon DEF i1, i3, k
  <2>9. [m \in 1 .. ((Len(joined) - 1) \div 2) |-> SubSeq(joined, 2 * m - 1, 2 * m + 1)]
          = Whole("down3d", half, p)
    BY <2>3, <2>7, <2>8, Zenon DEF Whole
  <2>10. LastOf(s, 1) = <<n + w - 1>>
    <3>1. n \in Int
      BY <1>2
    <3> QED
      BY <1>2, <1>6, <3>1, KeptFrames
  <2>11. Downsample3d(s, held)
           = [taps |-> [m \in 1 .. ((Len(joined) - 1) \div 2) |->
                          SubSeq(joined, 2 * m - 1, 2 * m + 1)],
              cache |-> LastOf(s, 1)]
    BY <2>1, Zenon DEF Downsample3d, joined
  <2> QED
    BY <1>3, <1>5, <2>9, <2>10, <2>11, Zenon DEF Reads, s
<1> QED
  BY <1>7, <1>8

\* Every layer makes of a piece what it would make if it saw the whole clip.
LEMMA LayerWorks ==
  ASSUME NEW kind \in Kinds, NEW r \in {1, 2, 4}, kind = "down3d" => r # 1, NEW p \in Nat
  PROVE  Reads(kind, r, p, Apply(kind, PieceAt(r, p), CacheAt(kind, r, p)))
<1>1. CASE kind = "conv"
  BY <1>1, ConvWorks, Zenon DEF Apply
<1>2. CASE kind = "up3d"
  <2>1. kind # "conv"
    BY <1>2
  <2> QED
    BY <1>2, <2>1, UpWorks DEF Apply
<1>3. CASE kind = "down3d"
  <2>1. r \in {2, 4}
    BY <1>3
  <2> QED
    BY <1>3, <2>1, DownWorks DEF Apply
<1>4. CASE kind \notin Cached
  <2>1. kind # "conv" /\ kind # "up3d" /\ kind # "down3d"
    BY <1>4 DEF Cached
  <2> QED
    BY <1>4, <2>1, OthersWork DEF Apply
<1> QED
  BY <1>1, <1>2, <1>3, <1>4 DEF Cached

-----------------------------------------------------------------------------
\* The inductive invariant of the autoencoder.  Between two layers of a call,
\* each layer has made what it makes of whole pieces, and holds what it keeps of
\* them: of i + 1 pieces before layer u, and of i from there on.
Done(v) == IF v < u THEN i + 1 ELSE i

Progress ==
  /\ call.op \in Operations /\ call.n \in Nat \ {0}
  /\ i \in 0 .. Pieces(call.op, call.n) /\ u \in 0 .. Len(Network(call.op))
  /\ u > 0 => /\ i < Pieces(call.op, call.n)
              /\ idx = Before(Network(call.op), u, Cached)
              /\ x = PieceAt(RateAt(call.op, u), i)
  /\ made = [v \in 1 .. Len(Network(call.op)) |-> Given(RateAt(call.op, v + 1), Done(v))]

CachesKept ==
  /\ DOMAIN map = Operations
  /\ DOMAIN map[call.op] = 0 .. (count_conv3d(Network(call.op)) - 1)
  /\ \A v \in 1 .. Len(Network(call.op)) :
       Network(call.op)[v][1] \in Cached =>
         map[call.op][Before(Network(call.op), v, Cached)]
           = CacheAt(Network(call.op)[v][1], RateAt(call.op, v), Done(v))

TapsRead ==
  \A m \in 1 .. Len(taps) :
    taps[m] = WholeClip(Network(call.op)[LastLayer][1], made[LastLayer] - Len(taps) + m - 1)

\* The features of the conditioning, when it was encoded, are of some pieces.
HasLists(a) ==
  /\ a = [form |-> a.form, raised |-> a.raised, lists |-> a.lists]
  /\ ~ a.raised => /\ Len(a.lists) \in Nat \ {0}
                   /\ a.lists = [k \in 1 .. Len(a.lists) |-> a.lists[k]]

ClipInv ==
  /\ call = None => u = 0 /\ taps = <<>>
  /\ call = None /\ add_feats # None => HasLists(add_feats)
  /\ call # None => /\ Progress /\ CachesKept
                    /\ taps # <<>> => TapsRead
                    /\ call.cond # None => HasLists(add_feats)

\* The length of a list.
LEMMA LengthOf ==
  ASSUME NEW n \in Nat, NEW f, f = [k \in 1 .. n |-> f[k]]
  PROVE  Len(f) = n /\ DOMAIN f = 1 .. n
<1> DEFINE S == {f[k] : k \in 1 .. n}
<1>1. [k \in 1 .. n |-> f[k]] \in [1 .. n -> S]
  OBVIOUS
<1>2. f \in [1 .. n -> S]
  BY <1>1, Zenon
<1> HIDE DEF S
<1> QED
  BY <1>2

\* The slots of a list of caches: one for each layer that is cached.
LEMMA Slots ==
  ASSUME NEW op \in Operations, NEW v \in 1 .. Len(Network(op)),
         NEW w \in 1 .. Len(Network(op)), Network(op)[v][1] \in Cached
  PROVE  /\ Before(Network(op), v, Cached) \in 0 .. (count_conv3d(Network(op)) - 1)
         /\ Before(Network(op), v + 1, Cached) = Before(Network(op), v, Cached) + 1
         /\ Network(op)[w][1] \in Cached /\ v # w =>
              Before(Network(op), v, Cached) # Before(Network(op), w, Cached)
<1> DEFINE net == Network(op)
           D == Kinds \X BOOLEAN
           n == Len(net)
           b(k) == Before(net, k, Cached)
<1>1. net \in Seq(D)
  <2>1. net \in LayersOf(Kinds)
    BY Rates
  <2> QED
    BY <2>1, Zenon DEF LayersOf
<1>2. count_conv3d(net) = b(n + 1)
  BY Zenon DEF count_conv3d
<1> HIDE DEF net, D
<1>3. n \in Nat
  BY <1>1
<1>4. /\ \A k \in 1 .. n : b(k + 1) = b(k) + IF net[k][1] \in Cached THEN 1 ELSE 0
      /\ \A k \in 1 .. (n + 1), l \in 1 .. (n + 1) : b(k) \in Nat /\ (k <= l => b(k) <= b(l))
  BY <1>1, BeforeSteps
<1>5. v \in 1 .. n /\ w \in 1 .. n /\ net[v][1] \in Cached
  BY DEF net
<1> HIDE DEF n, b
<1>6. /\ v \in 1 .. (n + 1) /\ v + 1 \in 1 .. (n + 1) /\ w \in 1 .. (n + 1)
      /\ w + 1 \in 1 .. (n + 1) /\ n + 1 \in 1 .. (n + 1) /\ v + 1 <= n + 1
      /\ v < w => v + 1 <= w
      /\ w < v => w + 1 <= v
      /\ v < w \/ v = w \/ w < v
  BY <1>3, <1>5
<1>7. /\ b(v) \in Nat /\ b(w) \in Nat /\ b(v + 1) = b(v) + 1 /\ b(v + 1) <= b(n + 1)
      /\ b(n + 1) \in Nat
      /\ net[w][1] \in Cached => b(w + 1) = b(w) + 1
      /\ v < w => b(v + 1) <= b(w)
      /\ w < v => b(w + 1) <= b(v)
  BY <1>4, <1>5, <1>6
<1>8. b(v) \in 0 .. (b(n + 1) - 1) /\ (net[w][1] \in Cached /\ v # w => b(v) # b(w))
  BY <1>6, <1>7
<1> QED
  BY <1>2, <1>7, <1>8, Zenon DEF net, b

\* The rate after the last layer is one of the three, too.
LEMMA RateType ==
  ASSUME NEW op, NEW v
  PROVE  RateAt(op, v) \in {1, 2, 4}
  BY Zenon DEF RateAt

\* The pieces of a clip.
LEMMA PieceIsPieceAt ==
  ASSUME NEW op \in Operations, NEW n \in Nat \ {0}
  PROVE  /\ Pieces(op, n) \in Nat \ {0}
         /\ \A k \in 0 .. (Pieces(op, n) - 1) : Piece(op, k, n) = PieceAt(RateAt(op, 1), k)
<1>1. Pieces(op, n) \in Nat \ {0}
  BY DEF Pieces
<1>2. ASSUME NEW k \in 0 .. (Pieces(op, n) - 1) PROVE Piece(op, k, n) = PieceAt(RateAt(op, 1), k)
  <2>1. k \in Nat
    BY <1>1
  <2>2. FramesFrom(0, 1) = <<0>>
    BY DEF FramesFrom
  <2>3. CASE op = "encode"
    <3>1. RateAt(op, 1) = 4
      BY <2>3, Rates
    <3>2. CASE k = 0
      BY <2>2, <2>3, <3>2, Zenon DEF Piece, FramesOf, PieceAt, Given, Width
    <3>3. CASE k # 0
      <4> DEFINE upto == IF 1 + 4 * k < n THEN 1 + 4 * k ELSE n
      <4>1. upto = 1 + 4 * k
        BY <1>1, <2>1, <2>3, <3>3 DEF Pieces
      <4>2. FramesOf(k, n) = [m \in 1 .. (upto - (1 + 4 * (k - 1))) |-> 4 * (k - 1) + m]
        BY <3>3, Zenon DEF FramesOf
      <4> HIDE DEF upto
      <4>3. upto - (1 + 4 * (k - 1)) = 4
        BY <2>1, <4>1
      <4>4. Given(4, k) = 1 + 4 * (k - 1) /\ Width(4, k) = 4
        BY <3>3 DEF Given, Width
      <4>5. \A m \in 1 .. 4 : 4 * (k - 1) + m = (1 + 4 * (k - 1)) + m - 1
        BY <2>1
      <4>6. FramesOf(k, n) = FramesFrom(1 + 4 * (k - 1), 4)
        BY <4>2, <4>3, <4>5, Zenon DEF FramesFrom
      <4> QED
        BY <2>3, <3>1, <4>4, <4>6, Zenon DEF Piece, PieceAt
    <3> QED
      BY <3>2, <3>3
  <2>4. CASE op # "encode"
    <3>1. RateAt(op, 1) = 1
      BY <2>4, Rates
    <3>2. Given(1, k) = k /\ Width(1, k) = 1
      BY <2>1 DEF Given, Width
    <3>3. FramesFrom(k, 1) = <<k>>
      <4>1. \A m \in 1 .. 1 : k + m - 1 = k
        BY <2>1
      <4>2. [m \in 1 .. 1 |-> k + m - 1] = [m \in 1 .. 1 |-> k]
        BY <4>1, Zenon
      <4>3. [m \in 1 .. 1 |-> k] = <<k>>
        OBVIOUS
      <4> QED
        BY <4>2, <4>3, Zenon DEF FramesFrom
    <3> QED
      BY <2>4, <3>1, <3>2, <3>3, Zenon DEF Piece, PieceAt
  <2> QED
    BY <2>3, <2>4
<1> QED
  BY <1>1, <1>2

\* A call begins with every layer before the first piece, and nothing kept.
LEMMA BeginKeeps ==
  ASSUME ClipInv, NEW op \in Operations, NEW n \in Nat \ {0}, NEW cond,
         cond # None => HasLists(add_feats), Begin(op, n, cond)
  PROVE  ClipInv'
<1>1. /\ call = None /\ call' = [op |-> op, n |-> n, cond |-> cond]
      /\ map' = [o \in {"encode", "decode"} |-> Spaces(o)]
      /\ i' = 0 /\ u' = 0 /\ made' = [v \in 1 .. Len(Network(op)) |-> 0]
      /\ taps' = <<>> /\ add_feats' = add_feats
  BY DEF Begin, clear_cache
<1>2. call'.op = op /\ call'.n = n /\ call'.cond = cond
  BY <1>1
<1> DEFINE L == Len(Network(op))
<1>3. L \in Nat \ {0} /\ Pieces(op, n) \in Nat \ {0}
  BY Rates, PieceIsPieceAt
<1>4. \A v \in 1 .. L : Done(v)' = 0
  BY <1>1 DEF Done
<1>5. Progress'
  <2>1. \A r : Given(r, 0) = 0
    BY DEF Given
  <2>2. made' = [v \in 1 .. L |-> Given(RateAt(op, v + 1), Done(v)')]
    BY <1>1, <1>4, <2>1, Zenon
  <2>3. i' \in 0 .. Pieces(op, n) /\ u' \in 0 .. L /\ ~ (u' > 0)
    BY <1>1, <1>3
  <2> HIDE DEF L
  <2>4. /\ call'.op \in Operations /\ call'.n \in Nat \ {0}
        /\ i' \in 0 .. Pieces(call'.op, call'.n) /\ u' \in 0 .. Len(Network(call'.op))
        /\ made' = [v \in 1 .. Len(Network(call'.op)) |-> Given(RateAt(call'.op, v + 1), Done(v)')]
    BY <1>2, <2>2, <2>3, Zenon DEF L
  <2> QED
    BY <2>3, <2>4, Zenon DEF Progress
<1>6. CachesKept'
  <2>1. DOMAIN map' = Operations /\ map'[op] = Spaces(op)
    BY <1>1, Zenon DEF Operations
  <2>2. DOMAIN Spaces(op) = 0 .. (count_conv3d(Network(op)) - 1)
    BY Zenon DEF Spaces
  <2>3. ASSUME NEW v \in 1 .. L, Network(op)[v][1] \in Cached
        PROVE  map'[op][Before(Network(op), v, Cached)]
                 = CacheAt(Network(op)[v][1], RateAt(op, v), Done(v)')
    <3>1. Before(Network(op), v, Cached) \in 0 .. (count_conv3d(Network(op)) - 1)
      BY <2>3, Slots
    <3>2. Spaces(op)[Before(Network(op), v, Cached)] = None
      BY <3>1, Zenon DEF Spaces
    <3>3. CacheAt(Network(op)[v][1], RateAt(op, v), 0) = None
      BY Zenon DEF CacheAt
    <3> QED
      BY <1>4, <2>1, <3>2, <3>3, Zenon
  <2> QED
    BY <1>2, <2>1, <2>2, <2>3, Zenon DEF CachesKept
<1>7. cond # None => HasLists(add_feats)'
  BY <1>1, Zenon DEF HasLists
<1>8. add_feats' # None => HasLists(add_feats)'
  BY <1>1, Zenon DEF ClipInv, HasLists
<1> QED
  BY <1>1, <1>2, <1>5, <1>6, <1>7, <1>8, Zenon DEF ClipInv

\* A piece goes in.
LEMMA NextPieceKeepsInv ==
  ASSUME ClipInv, NextPiece
  PROVE  ClipInv'
<1>1. /\ call # None /\ u = 0 /\ i < Pieces(call.op, call.n)
      /\ x' = Piece(call.op, i, call.n) /\ u' = 1 /\ idx' = 0 /\ taps' = <<>>
      /\ call' = call /\ i' = i /\ map' = map /\ add_feats' = add_feats /\ made' = made
  BY DEF NextPiece
<1>2. Progress /\ CachesKept /\ (call.cond # None => HasLists(add_feats))
  BY <1>1, Zenon DEF ClipInv
<1> DEFINE op == call.op
           L == Len(Network(op))
<1>3. op \in Operations /\ call.n \in Nat \ {0} /\ i \in 0 .. Pieces(op, call.n)
  BY <1>2 DEF Progress
<1>4. L \in Nat \ {0} /\ Pieces(op, call.n) \in Nat \ {0}
  BY <1>3, Rates, PieceIsPieceAt
<1>5. i \in 0 .. (Pieces(op, call.n) - 1) /\ u' \in 0 .. L
  BY <1>1, <1>3, <1>4
<1>6. x' = PieceAt(RateAt(op, 1), i)
  BY <1>1, <1>3, <1>5, PieceIsPieceAt
<1>7. Before(Network(op), 1, Cached) = 0
  <2>1. Network(op) \in Seq(Kinds \X BOOLEAN)
    BY <1>3, Rates, Zenon DEF LayersOf
  <2> QED
    BY <2>1, BeforeSteps
<1>8. \A v \in 1 .. L : Done(v)' = Done(v)
  BY <1>1 DEF Done
<1>9. Progress'
  <2>1. made' = [v \in 1 .. L |-> Given(RateAt(op, v + 1), Done(v)')]
    BY <1>1, <1>2, <1>8, Zenon DEF Progress
  <2>2. i' \in 0 .. Pieces(op, call.n) /\ i' < Pieces(op, call.n)
    BY <1>1, <1>3
  <2>3. idx' = Before(Network(op), u', Cached) /\ x' = PieceAt(RateAt(op, u'), i')
    BY <1>1, <1>6, <1>7, Zenon
  <2> HIDE DEF op
  <2>4. call'.op = op /\ call'.n = call.n
    BY <1>1 DEF op
  <2> QED
    BY <1>3, <1>5, <2>1, <2>2, <2>3, <2>4, Zenon DEF Progress
<1>10. CachesKept'
  <2> HIDE DEF op
  <2>1. call'.op = op
    BY <1>1 DEF op
  <2>2. /\ DOMAIN map = Operations
        /\ DOMAIN map[op] = 0 .. (count_conv3d(Network(op)) - 1)
        /\ \A v \in 1 .. L :
             Network(op)[v][1] \in Cached =>
               map[op][Before(Network(op), v, Cached)]
                 = CacheAt(Network(op)[v][1], RateAt(op, v), Done(v))
    BY <1>2, Zenon DEF CachesKept, op
  <2> QED
    BY <1>1, <1>8, <2>1, <2>2, Zenon DEF CachesKept
<1>11. call.cond # None => HasLists(add_feats)'
  BY <1>1, <1>2, Zenon DEF HasLists
<1> QED
  BY <1>1, <1>9, <1>10, <1>11, Zenon DEF ClipInv

\* A layer works: it reads what the layer before made, and what it kept itself.
LEMMA StepKeeps ==
  ASSUME call # None, Progress, CachesKept, Step
  PROVE  /\ (Progress /\ CachesKept /\ TapsRead)'
         /\ LET w == Width(RateAt(call.op, u + 1), i)
            IN  Len(taps') = w /\ DOMAIN taps' = 1 .. w /\ Len(x') = w
<1> DEFINE op == call.op
           net == Network(op)
           L == Len(net)
           kind == net[u][1]
           r == RateAt(op, u)
           q == RateAt(op, u + 1)
           slot(v) == Before(net, v, Cached)
           held == IF kind \in Cached THEN map[op][idx] ELSE None
           done == Apply(kind, x, held)
           new == [m \in 1 .. Len(done.taps) |-> made[u] + m - 1]
           w == Width(q, i)
           g == Given(q, i)
<1>1. /\ u > 0 /\ call' = call
      /\ taps' = done.taps
      /\ made' = [made EXCEPT ![u] = @ + Len(new)]
      /\ IF kind \in Cached
         THEN map' = [map EXCEPT ![op][idx] = done.cache] /\ idx' = idx + 1
         ELSE map' = map /\ idx' = idx
      /\ x' = new
      /\ IF u = L THEN u' = 0 /\ i' = i + 1 ELSE u' = u + 1 /\ i' = i
  BY Zenon DEF Step
<1>2. /\ op \in Operations /\ call.n \in Nat \ {0}
      /\ i \in 0 .. Pieces(op, call.n) /\ u \in 0 .. L
      /\ i < Pieces(op, call.n) /\ idx = slot(u) /\ x = PieceAt(r, i)
      /\ made = [v \in 1 .. L |-> Given(RateAt(op, v + 1), Done(v))]
  BY <1>1, Zenon DEF Progress
<1>3. /\ DOMAIN map = Operations
      /\ DOMAIN map[op] = 0 .. (count_conv3d(net) - 1)
      /\ \A v \in 1 .. L : net[v][1] \in Cached =>
           map[op][slot(v)] = CacheAt(net[v][1], RateAt(op, v), Done(v))
  BY Zenon DEF CachesKept
<1>4. call'.op = op /\ call'.n = call.n
  BY <1>1
<1>5. L \in Nat \ {0} /\ Pieces(op, call.n) \in Nat \ {0}
  BY <1>2, Rates, PieceIsPieceAt
<1>6. i \in Nat /\ u \in 1 .. L /\ i + 1 \in 0 .. Pieces(op, call.n)
  <2> HIDE DEF L, op
  <2> QED
    BY <1>1, <1>2, <1>5
<1>7. /\ kind \in Kinds /\ r \in {1, 2, 4} /\ (kind = "down3d" => r # 1)
      /\ q = RateAfter(kind, r) /\ q \in {1, 2, 4}
  BY <1>2, <1>6, Rates, RateType
<1>8. Done(u) = i
  BY <1>6 DEF Done
<1>9. held = CacheAt(kind, r, i)
  <2>1. CASE kind \in Cached
    BY <1>2, <1>3, <1>6, <1>8, <2>1, Zenon
  <2>2. CASE kind \notin Cached
    BY <2>2, Zenon DEF CacheAt
  <2> QED
    BY <2>1, <2>2
<1>10. Reads(kind, r, i, done)
  <2> HIDE DEF kind, r, held
  <2> QED
    BY <1>2, <1>6, <1>7, <1>9, LayerWorks
<1>11. done.taps = Whole(kind, q, i) /\ done.cache = CacheAt(kind, r, i + 1)
  <2>1. done = [taps |-> Whole(kind, q, i), cache |-> CacheAt(kind, r, i + 1)]
    BY <1>7, <1>10, Zenon DEF Reads
  <2> HIDE DEF done, kind, q, r
  <2> QED
    BY <2>1
<1>12. /\ g \in Nat /\ w \in Nat \ {0} /\ Given(q, i + 1) = g + w
  <2> HIDE DEF q
  <2> QED
    BY <1>6, <1>7, GivenFrames
<1>13. Len(done.taps) = w
  <2> DEFINE t == Whole(kind, q, i)
  <2>1. t = [m \in 1 .. w |-> WholeClip(kind, g + m - 1)]
    BY Zenon DEF Whole
  <2> HIDE DEF w, g, t
  <2>2. t = [m \in 1 .. w |-> t[m]]
    BY <2>1, Zenon
  <2> QED
    BY <1>11, <1>12, <2>2, LengthOf DEF t
<1>14. made[u] = g
  <2> HIDE DEF L, op
  <2> QED
    BY <1>2, <1>6, <1>8, Zenon
<1>15. new = PieceAt(q, i) /\ Len(new) = w
  <2>1. new = FramesFrom(g, w)
    BY <1>13, <1>14, Zenon DEF FramesFrom
  <2>2. g \in Int /\ w \in Nat
    BY <1>12
  <2>3. Len(FramesFrom(g, w)) = w
    <3> HIDE DEF g, w
    <3> QED
      BY <2>2, FramesFromSeq
  <2> QED
    BY <2>1, <2>3, Zenon DEF PieceAt
<1> HIDE DEF new, done, held
<1>16. \A v \in 1 .. L : Done(v)' = IF v = u THEN i + 1 ELSE Done(v)
  <2> HIDE DEF L, op
  <2> QED
    BY <1>1, <1>5, <1>6 DEF Done
<1>17. made' = [v \in 1 .. L |-> Given(RateAt(op, v + 1), Done(v)')]
  <2>1. made'[u] = Given(q, i + 1)
    <3>1. u \in DOMAIN made
      BY <1>2, <1>6, Zenon
    <3>2. made'[u] = made[u] + Len(new)
      BY <1>1, <3>1, Zenon
    <3> QED
      BY <1>12, <1>14, <1>15, <3>2, Zenon
  <2>2. ASSUME NEW v \in 1 .. L PROVE made'[v] = Given(RateAt(op, v + 1), Done(v)')
    <3>1. CASE v = u
      BY <1>16, <2>1, <3>1, Zenon
    <3>2. CASE v # u
      <4>1. made'[v] = made[v]
        BY <1>1, <1>2, <3>2, Zenon
      <4> QED
        BY <1>2, <1>16, <3>2, <4>1, Zenon
    <3> QED
      BY <3>1, <3>2
  <2>3. made' = [v \in 1 .. L |-> made'[v]]
    <3> HIDE DEF L
    <3> QED
      BY <1>1, <1>2
  <2> QED
    BY <2>2, <2>3, Zenon
<1>18. u' > 0 => u' = u + 1 /\ i' = i /\ u + 1 \in 1 .. L
  <2> HIDE DEF L
  <2> QED
    BY <1>1, <1>5, <1>6
<1>19. slot(u + 1) = slot(u) + IF kind \in Cached THEN 1 ELSE 0
  <2>1. net \in Seq(Kinds \X BOOLEAN)
    BY <1>2, Rates, Zenon DEF LayersOf
  <2> HIDE DEF net
  <2> QED
    BY <1>6, <2>1, BeforeSteps
<1>20. idx' = slot(u + 1)
  <2>1. slot(u) \in Nat
    <3>1. net \in Seq(Kinds \X BOOLEAN) /\ u \in 1 .. (L + 1)
      <4>1. net \in Seq(Kinds \X BOOLEAN)
        BY <1>2, Rates, Zenon DEF LayersOf
      <4> HIDE DEF L
      <4> QED
        BY <1>5, <1>6, <4>1
    <3> HIDE DEF net
    <3> QED
      BY <3>1, BeforeSteps
  <2> HIDE DEF slot, kind
  <2> QED
    BY <1>1, <1>2, <1>19, <2>1
<1>21. Progress'
  <2>1. i' \in 0 .. Pieces(op, call.n) /\ u' \in 0 .. L
    <3> HIDE DEF L, op
    <3> QED
      BY <1>1, <1>2, <1>5, <1>6
  <2>2. u' > 0 => /\ i' < Pieces(op, call.n)
                  /\ idx' = slot(u')
                  /\ x' = PieceAt(RateAt(op, u'), i')
    BY <1>1, <1>2, <1>15, <1>18, <1>20, Zenon
  <2> HIDE DEF op
  <2> QED
    BY <1>2, <1>4, <1>17, <2>1, <2>2, Zenon DEF Progress
<1>22. CachesKept'
  <2>1. /\ DOMAIN map' = Operations
        /\ DOMAIN map'[op] = 0 .. (count_conv3d(net) - 1)
        /\ kind \in Cached =>
             /\ map'[op][idx] = done.cache
             /\ \A k \in 0 .. (count_conv3d(net) - 1) : k # idx => map'[op][k] = map[op][k]
    <3>1. CASE kind \in Cached
      <4>1. map' = [map EXCEPT ![op][idx] = done.cache]
        BY <1>1, <3>1, Zenon
      <4>2. op \in DOMAIN map
        BY <1>2, <1>3, Zenon
      <4>3. idx \in DOMAIN map[op]
        BY <1>2, <1>3, <1>6, <3>1, Slots
      <4>4. map'[op] = [map[op] EXCEPT ![idx] = done.cache] /\ DOMAIN map' = DOMAIN map
        BY <4>1, <4>2, Zenon
      <4> HIDE DEF op, net, kind
      <4> QED
        BY <1>3, <4>3, <4>4, Zenon
    <3>2. CASE kind \notin Cached
      BY <1>1, <1>3, <3>2, Zenon
    <3> QED
      BY <3>1, <3>2
  <2>2. ASSUME NEW v \in 1 .. L, net[v][1] \in Cached
        PROVE  map'[op][slot(v)] = CacheAt(net[v][1], RateAt(op, v), Done(v)')
    <3>1. CASE v = u
      BY <1>2, <1>11, <1>16, <2>1, <2>2, <3>1, Zenon
    <3>2. CASE v # u
      <4>1. map'[op][slot(v)] = map[op][slot(v)]
        <5>1. CASE kind \in Cached
          <6>1. slot(v) \in 0 .. (count_conv3d(net) - 1) /\ slot(v) # slot(u)
            BY <1>2, <1>6, <2>2, <3>2, <5>1, Slots
          <6> QED
            BY <1>2, <2>1, <5>1, <6>1, Zenon
        <5>2. CASE kind \notin Cached
          BY <1>1, <5>2, Zenon
        <5> QED
          BY <5>1, <5>2
      <4> QED
        BY <1>3, <1>16, <2>2, <3>2, <4>1, Zenon
    <3> QED
      BY <3>1, <3>2
  <2> HIDE DEF op
  <2> QED
    BY <1>4, <2>1, <2>2, Zenon DEF CachesKept
<1>23. TapsRead'
  <2>1. LastLayer' = u
    <3>1. LastLayer' = IF u' > 0 THEN u' - 1 ELSE L
      BY <1>4, Zenon DEF LastLayer
    <3> HIDE DEF L
    <3> QED
      BY <1>1, <1>5, <1>6, <3>1
  <2>2. taps' = Whole(kind, q, i) /\ Len(taps') = w
    BY <1>1, <1>11, <1>13, Zenon
  <2>3. made'[u] - Len(taps') = g
    <3>1. made'[u] = g + w
      BY <1>6, <1>12, <1>16, <1>17, Zenon
    <3> HIDE DEF g, w
    <3> QED
      BY <1>12, <2>2, <3>1
  <2>4. \A m \in 1 .. w : taps'[m] = WholeClip(kind, g + m - 1)
    BY <2>2, Zenon DEF Whole
  <2>5. \A m \in 1 .. Len(taps') :
          taps'[m] = WholeClip(kind, made'[u] - Len(taps') + m - 1)
    BY <2>2, <2>3, <2>4, Zenon
  <2> QED
    BY <1>4, <2>1, <2>5, Zenon DEF TapsRead
<1>24. Len(taps') = w /\ DOMAIN taps' = 1 .. w /\ Len(x') = w
  <2>1. taps' = Whole(kind, q, i) /\ Len(taps') = w
    BY <1>1, <1>11, <1>13, Zenon
  <2>2. DOMAIN taps' = 1 .. w
    BY <2>1, Zenon DEF Whole
  <2> QED
    BY <1>1, <1>15, <2>1, <2>2, Zenon
<1> QED
  BY <1>21, <1>22, <1>23, <1>24, Zenon

\* The conditioning is encoded between two calls.
LEMMA EncodeCondKeeps ==
  ASSUME ClipInv, NEW form, NEW lists, NEW raises, EncodeCond(form, lists, raises),
         Len(lists) \in Nat \ {0}, lists = [k \in 1 .. Len(lists) |-> lists[k]]
  PROVE  ClipInv'
<1>1. /\ call = None /\ call' = call /\ u' = u /\ taps' = taps
      /\ add_feats' = [form |-> form, raised |-> raises,
                       lists |-> IF raises THEN <<>> ELSE lists]
  BY DEF EncodeCond
<1>2. u = 0 /\ taps = <<>>
  BY <1>1 DEF ClipInv
<1>3. HasLists(add_feats)'
  <2>1. /\ add_feats'.form = form /\ add_feats'.raised = raises
        /\ add_feats'.lists = IF raises THEN <<>> ELSE lists
    BY <1>1
  <2> QED
    BY <1>1, <2>1, Zenon DEF HasLists
<1> QED
  BY <1>1, <1>2, <1>3, Zenon DEF ClipInv

\* A feature less in a list leaves as many lists.
LEMMA AddFeatureKeeps ==
  ASSUME HasLists(add_feats), AddFeature
  PROVE  HasLists(add_feats)'
<1> DEFINE f == add_feats
           n == Len(f.lists)
<1>1. PICK e : \/ add_feats' = f
               \/ add_feats' = [f EXCEPT !.lists[i + 1] = e]
  BY Zenon DEF AddFeature
<1>2. CASE add_feats' = f
  BY <1>2, Zenon DEF HasLists
<1>3. CASE add_feats' = [f EXCEPT !.lists[i + 1] = e]
  <2> DEFINE l == [f.lists EXCEPT ![i + 1] = e]
  <2>1. f = [form |-> f.form, raised |-> f.raised, lists |-> f.lists]
    BY Zenon DEF HasLists
  <2>2. add_feats' = [form |-> f.form, raised |-> f.raised, lists |-> l]
    BY <1>3, <2>1
  <2>3. add_feats'.form = f.form /\ add_feats'.raised = f.raised /\ add_feats'.lists = l
    BY <2>2
  <2>4. ASSUME ~ f.raised
        PROVE  Len(l) \in Nat \ {0} /\ l = [k \in 1 .. Len(l) |-> l[k]]
    <3>1. n \in Nat \ {0} /\ f.lists = [k \in 1 .. n |-> f.lists[k]]
      BY <2>4, Zenon DEF HasLists
    <3>2. l = [k \in 1 .. n |-> l[k]]
      <4>1. DOMAIN f.lists = 1 .. n
        BY <3>1, Zenon
      <4> HIDE DEF n, f
      <4> QED
        BY <4>1
    <3> HIDE DEF l, n
    <3>3. Len(l) = n
      BY <3>1, <3>2, LengthOf
    <3> QED
      BY <3>1, <3>2, <3>3, Zenon
  <2> HIDE DEF l, f
  <2> QED
    BY <2>2, <2>3, <2>4, Zenon DEF HasLists
<1> QED
  BY <1>1, <1>2, <1>3

\* The invariant holds of every step.
LEMMA ClipInvStep ==
  ClipInv /\ [CondNext /\ UNCHANGED zero_convs]_<<vars, zero_convs>> => ClipInv'
<1> SUFFICES ASSUME ClipInv, [CondNext /\ UNCHANGED zero_convs]_<<vars, zero_convs>>
             PROVE  ClipInv'
  OBVIOUS
<1>1. CASE UNCHANGED <<vars, zero_convs>>
  <2>1. /\ call' = call /\ i' = i /\ u' = u /\ x' = x /\ map' = map /\ idx' = idx
        /\ add_feats' = add_feats /\ made' = made /\ taps' = taps
    BY <1>1 DEF vars
  <2> QED
    BY <2>1 DEF ClipInv, Progress, CachesKept, TapsRead, HasLists, Done, LastLayer
<1>2. CASE encode
  <2>1. PICK t \in 1 .. (4 * MaxChunks) : Begin("encode", t, None)
    BY <1>2 DEF encode
  <2>2. t \in Nat \ {0} /\ "encode" \in Operations
    BY VaeAssumption DEF Operations
  <2> QED
    BY <2>1, <2>2, BeginKeeps
<1>3. CASE decode
  <2>1. PICK t \in 1 .. MaxChunks : Begin("decode", t, None)
    BY <1>3 DEF decode
  <2>2. t \in Nat \ {0} /\ "decode" \in Operations
    BY VaeAssumption DEF Operations
  <2> QED
    BY <2>1, <2>2, BeginKeeps
<1>4. CASE NextPiece
  BY <1>4, NextPieceKeepsInv
<1>5. CASE Step /\ (Unconditioned \/ AddFeature)
  <2>1. call # None /\ call' = call
    BY <1>5, Zenon DEF Step
  <2>2. Progress /\ CachesKept /\ (call.cond # None => HasLists(add_feats))
    BY <2>1, Zenon DEF ClipInv
  <2>3. (Progress /\ CachesKept /\ TapsRead)'
    BY <1>5, <2>1, <2>2, StepKeeps
  <2>4. call.cond # None => HasLists(add_feats)'
    <3>1. CASE Unconditioned
      BY <3>1, Zenon DEF Unconditioned
    <3>2. CASE AddFeature
      BY <2>2, <3>2, AddFeatureKeeps
    <3> QED
      BY <1>5, <3>1, <3>2
  <2> QED
    BY <2>1, <2>3, <2>4, Zenon DEF ClipInv
<1>6. CASE Return
  <2>1. call' = None /\ u' = u /\ taps' = <<>> /\ add_feats' = None /\ u = 0
    BY <1>6 DEF Return
  <2> QED
    BY <2>1, Zenon DEF ClipInv
<1>7. CASE Raise
  <2>1. call' = None /\ u' = 0 /\ taps' = <<>> /\ add_feats' = None
    BY <1>7 DEF Raise
  <2> QED
    BY <2>1, Zenon DEF ClipInv
<1>8. ASSUME NEW t \in CondLengths
      PROVE  Pieces("encode", t) \in Nat \ {0}
  <2>1. t \in Nat \ {0}
    BY VaeAssumption DEF CondLengths
  <2> QED
    BY <2>1, PieceIsPieceAt DEF Operations
<1>9. CASE encode_cond_v1
  <2>1. PICK t \in CondLengths :
          EncodeCond("v1", [k \in 1 .. Pieces("encode", t) |-> FeaturesV1(FramesOf(k - 1, t))], FALSE)
    BY <1>9, Zenon DEF encode_cond_v1
  <2> DEFINE n == Pieces("encode", t)
             l == [k \in 1 .. n |-> FeaturesV1(FramesOf(k - 1, t))]
  <2>2. n \in Nat \ {0} /\ EncodeCond("v1", l, FALSE)
    BY <1>8, <2>1
  <2> HIDE DEF n
  <2>3. l = [k \in 1 .. n |-> l[k]]
    BY Zenon
  <2> HIDE DEF l
  <2>4. Len(l) = n
    BY <2>2, <2>3, LengthOf
  <2> QED
    BY <2>2, <2>3, <2>4, EncodeCondKeeps, Zenon
<1>10. CASE encode_cond_v2
  <2>1. PICK t \in CondLengths :
          EncodeCond("v2", [k \in 1 .. Pieces("encode", t) |-> FeaturesV2(FramesOf(k - 1, t))],
                     ~ ZeroConvsFit)
    BY <1>10, Zenon DEF encode_cond_v2
  <2> DEFINE n == Pieces("encode", t)
             l == [k \in 1 .. n |-> FeaturesV2(FramesOf(k - 1, t))]
             b == ~ ZeroConvsFit
  <2>2. n \in Nat \ {0} /\ EncodeCond("v2", l, b)
    BY <1>8, <2>1
  <2> HIDE DEF n, b
  <2>3. l = [k \in 1 .. n |-> l[k]]
    BY Zenon
  <2> HIDE DEF l
  <2>4. Len(l) = n
    BY <2>2, <2>3, LengthOf
  <2> QED
    BY <2>2, <2>3, <2>4, EncodeCondKeeps, Zenon
<1>11. ASSUME NEW form, DecodeWith(form) PROVE ClipInv'
  <2>1. /\ add_feats # None /\ ~ add_feats.raised
        /\ Begin("decode", Len(add_feats.lists), form)
    BY <1>11, Zenon DEF DecodeWith
  <2>2. call = None
    BY <2>1, Zenon DEF Begin
  <2>3. HasLists(add_feats)
    BY <2>1, <2>2, Zenon DEF ClipInv
  <2>4. Len(add_feats.lists) \in Nat \ {0} /\ "decode" \in Operations
    BY <2>1, <2>3, Zenon DEF HasLists, Operations
  <2> QED
    BY <2>1, <2>3, <2>4, BeginKeeps
<1> QED
  BY <1>1, <1>2, <1>3, <1>4, <1>5, <1>6, <1>7, <1>9, <1>10, <1>11
     DEF CondNext, Next, decode_v1, decode_v2

\* The caches, the counters and the tensors of the autoencoder agree at every
\* layer of every call: the inductive invariant.
THEOREM ClipInvariant == CondSpec => []ClipInv
<1>1. CondInit => ClipInv
  BY DEF CondInit, Init, ClipInv
<1> QED
  BY <1>1, ClipInvStep, PTL DEF CondSpec

\* Cutting a clip into pieces is invisible, for every autoencoder that halves time
\* twice, every length of a clip and every history of calls, failed ones too.
THEOREM ClipIsReadWhole == CondSpec => []ReadsWholeClip
<1>1. ClipInv => ReadsWholeClip
  <2> SUFFICES ASSUME ClipInv PROVE ReadsWholeClip
    OBVIOUS
  <2>1. taps # <<>> => call # None /\ TapsRead
    BY Zenon DEF ClipInv
  <2>2. ASSUME call # None, u = 0, i = Pieces(call.op, call.n)
        PROVE  made[Len(made)] = IF call.op = "encode" THEN 1 + (call.n - 1) \div 4
                                                       ELSE 1 + 4 * (call.n - 1)
    <3> DEFINE op == call.op
               n == call.n
               L == Len(Network(op))
               r == RateAt(op, L + 1)
    <3>1. Progress
      BY <2>2, Zenon DEF ClipInv
    <3>2. op \in Operations /\ n \in Nat \ {0}
            /\ made = [v \in 1 .. L |-> Given(RateAt(op, v + 1), Done(v))]
      BY <3>1, Zenon DEF Progress
    <3>3. L \in Nat \ {0} /\ r = (IF op = "encode" THEN 1 ELSE 4)
            /\ Pieces(op, n) \in Nat \ {0}
      BY <3>2, Rates, PieceIsPieceAt
    <3> HIDE DEF L, op, r, n
    <3>4. Done(L) = i
      BY <2>2, <3>3 DEF Done
    <3>5. L \in 1 .. L
      BY <3>3
    <3>6. Len(made) = L
      <4>1. made = [v \in 1 .. L |-> made[v]]
        BY <3>2, Zenon
      <4> QED
        BY <3>3, <4>1, LengthOf
    <3>7. made[L] = Given(r, i)
      BY <3>2, <3>4, <3>5, Zenon DEF r
    <3>8. i = Pieces(op, n)
      BY <2>2 DEF op, n
    <3>9. Given(r, i) = IF op = "encode" THEN 1 + (n - 1) \div 4 ELSE 1 + 4 * (n - 1)
      <4>1. CASE op = "encode"
        <5> DEFINE p == (n - 1) \div 4
        <5>1. i = 1 + p /\ p \in Nat /\ r = 1
          BY <3>2, <3>3, <3>8, <4>1 DEF Pieces
        <5> HIDE DEF p
        <5>2. Given(r, i) = 1 + p
          BY <5>1 DEF Given
        <5> QED
          BY <4>1, <5>2 DEF p
      <4>2. CASE op # "encode"
        <5>1. i = n /\ r = 4
          BY <3>3, <3>8, <4>2 DEF Pieces
        <5> QED
          BY <3>2, <4>2, <5>1 DEF Given
      <4> QED
        BY <4>1, <4>2
    <3> QED
      BY <3>6, <3>7, <3>9, Zenon DEF op, n
  <2> QED
    BY <2>1, <2>2, Zenon DEF ReadsWholeClip, TapsRead
<1> QED
  BY <1>1, ClipInvariant, PTL

-----------------------------------------------------------------------------
(* The features of conditioning *)

\* Where the elements of sequences that are put together are, when all but the
\* last have one length.
InPlaceOf(flat, seqs, n, len) ==
  \A k \in 1 .. n : \A j \in 1 .. Len(seqs[k]) : flat[(k - 1) * len + j] = seqs[k][j]

\* Sequences of one length but for the last, put together.
LEMMA FlattenEqual ==
  ASSUME NEW D, NEW seqs \in Seq(Seq(D)), NEW len \in Nat, Len(seqs) # 0,
         \A k \in 1 .. (Len(seqs) - 1) : Len(seqs[k]) = len
  PROVE  /\ FlattenSeq(seqs) \in Seq(D)
         /\ Len(FlattenSeq(seqs)) = (Len(seqs) - 1) * len + Len(seqs[Len(seqs)])
         /\ InPlaceOf(FlattenSeq(seqs), seqs, Len(seqs), len)
<1> DEFINE n == Len(seqs)
           T(m) == /\ Joined(seqs, m) \in Seq(D)
                   /\ m < n => Len(Joined(seqs, m)) = m * len
                   /\ InPlaceOf(Joined(seqs, m), seqs, m, len)
           S == {m \in Nat : m <= n => T(m)}
<1>1. n \in Nat \ {0} /\ \A k \in 1 .. n : seqs[k] \in Seq(D)
  OBVIOUS
<1>2. 0 \in S
  <2>1. Joined(seqs, 0) = <<>> /\ 0 * len = 0
    BY FlattenSteps
  <2> DEFINE e == <<>>
  <2>2. e \in Seq(D) /\ Len(e) = 0
    OBVIOUS
  <2>3. InPlaceOf(e, seqs, 0, len)
    BY DEF InPlaceOf
  <2> QED
    BY <2>1, <2>2, <2>3
<1>3. ASSUME NEW m \in S PROVE m + 1 \in S
  <2>1. SUFFICES ASSUME m + 1 <= n PROVE T(m + 1)
    OBVIOUS
  <2> DEFINE a == Joined(seqs, m)
             b == seqs[m + 1]
             c == Joined(seqs, m + 1)
             p == m * len
  <2>2. m \in 0 .. (n - 1) /\ m + 1 \in 1 .. n /\ m \in Nat
    BY <1>1, <2>1
  <2>3. a \in Seq(D) /\ Len(a) = p /\ InPlaceOf(a, seqs, m, len)
    BY <2>2
  <2>4. b \in Seq(D) /\ c = a \o b
    BY <1>1, <2>2, FlattenSteps
  <2>5. m + 1 < n => Len(b) = len
    BY <2>2
  <2> HIDE DEF a, b, c
  <2>6. c \in Seq(D) /\ IsConcat(c, a, b)
    BY <2>3, <2>4, Concat
  <2>7. p \in Nat /\ (m + 1) * len = p + len
    BY <2>2
  <2>8. m + 1 < n => Len(c) = (m + 1) * len
    <3> HIDE DEF p
    <3> QED
      BY <2>3, <2>5, <2>6, <2>7 DEF IsConcat
  <2>9. ASSUME NEW k \in 1 .. (m + 1), NEW j \in 1 .. Len(seqs[k])
        PROVE  c[(k - 1) * len + j] = seqs[k][j]
    <3>1. CASE k = m + 1
      <4>1. (k - 1) * len + j = Len(a) + j /\ j \in 1 .. Len(b)
        BY <2>2, <2>3, <3>1 DEF b
      <4>2. c[Len(a) + j] = b[j]
        BY <2>6, <4>1, Zenon DEF IsConcat
      <4> QED
        BY <3>1, <4>1, <4>2, Zenon DEF b
    <3>2. CASE k # m + 1
      <4> DEFINE q == (k - 1) * len
      <4>1. k \in 1 .. m /\ k \in 1 .. (n - 1)
        BY <2>2, <3>2
      <4>2. Len(seqs[k]) = len
        BY <4>1
      <4>3. q \in Nat /\ q + len <= p
        <5>1. k \in Nat /\ m \in Nat /\ k <= m
          BY <2>2, <4>1
        <5>2. q + len = k * len
          BY <5>1
        <5>3. (m - k) \in Nat /\ p = k * len + (m - k) * len
          BY <5>1
        <5>4. (m - k) * len \in Nat /\ k * len \in Nat /\ q \in Nat
          BY <4>1, <5>1, <5>3
        <5> DEFINE y == k * len
                   z == (m - k) * len
        <5>5. q + len = y /\ p = y + z /\ z \in Nat /\ y \in Nat /\ q \in Nat
          BY <5>2, <5>3, <5>4
        <5> HIDE DEF q, p, y, z
        <5> QED
          BY <5>5
      <4> HIDE DEF q, p
      <4>4. q + j \in 1 .. Len(a)
        BY <2>3, <2>7, <4>2, <4>3
      <4>5. c[q + j] = a[q + j]
        BY <2>6, <4>4, Zenon DEF IsConcat
      <4>6. a[q + j] = seqs[k][j]
        BY <2>3, <4>1, Zenon DEF InPlaceOf, q
      <4> QED
        BY <4>5, <4>6 DEF q
    <3> QED
      BY <3>1, <3>2
  <2>10. InPlaceOf(c, seqs, m + 1, len)
    BY <2>9, Zenon DEF InPlaceOf
  <2> QED
    BY <2>6, <2>8, <2>10 DEF c
<1> HIDE DEF S
<1>4. S = Nat
  <2>1. S \in SUBSET Nat
    BY DEF S
  <2> QED
    BY <1>2, <1>3, <2>1, SetInduction
<1>5. T(n)
  <2>1. n \in S
    BY <1>1, <1>4
  <2> QED
    BY <1>1, <2>1 DEF S
<1>6. Joined(seqs, n) = FlattenSeq(seqs)
  BY FlattenSteps
<1>7. Len(FlattenSeq(seqs)) = (n - 1) * len + Len(seqs[n])
  <2> DEFINE m == n - 1
             a == Joined(seqs, m)
             b == seqs[n]
  <2>1. m \in Nat /\ m \in 0 .. (n - 1) /\ m + 1 = n /\ m < n
    BY <1>1
  <2>2. m \in S
    BY <1>4, <2>1
  <2>3. T(m)
    <3> HIDE DEF T, m
    <3> QED
      BY <1>1, <2>1, <2>2 DEF S
  <2>4. a \in Seq(D) /\ Len(a) = m * len
    <3>1. m < n
      BY <2>1
    <3> HIDE DEF m, n
    <3> QED
      BY <2>3, <3>1
  <2>5. b \in Seq(D) /\ Joined(seqs, n) = a \o b
    <3>1. b \in Seq(D)
      BY <1>1
    <3>2. m + 1 = n /\ m \in 0 .. (Len(seqs) - 1)
      BY <2>1
    <3> HIDE DEF m
    <3>3. Joined(seqs, m + 1) = Joined(seqs, m) \o seqs[m + 1]
      BY <3>2, FlattenSteps
    <3> QED
      BY <3>1, <3>2, <3>3, Zenon
  <2> HIDE DEF a, b
  <2>6. IsConcat(a \o b, a, b)
    BY <2>4, <2>5, Concat
  <2>7. Len(a \o b) = Len(a) + Len(b)
    BY <2>6, Zenon DEF IsConcat
  <2> QED
    BY <1>6, <2>4, <2>5, <2>7, Zenon DEF b
<1> QED
  BY <1>5, <1>6, <1>7, Zenon

\* Residual blocks: every second layer ends a module.
LEMMA BlocksAt ==
  ASSUME NEW n \in Nat \ {0}
  PROVE  /\ ResidualBlocks(n) \in LayersOf({"conv"}) /\ Len(ResidualBlocks(n)) = 2 * n
         /\ \A j \in 1 .. (2 * n) : ResidualBlocks(n)[j] = <<"conv", j % 2 = 0>>
<1> DEFINE D == {"conv"} \X BOOLEAN
           seqs == [k \in 1 .. n |-> ResidualBlock]
           s == FlattenSeq(seqs)
           off == <<"conv", FALSE>>
           on == <<"conv", TRUE>>
<1>1. off \in D /\ on \in D
  OBVIOUS
<1>2. ResidualBlock = <<off, on>>
  BY DEF ResidualBlock
<1>3. s = ResidualBlocks(n)
  BY Zenon DEF ResidualBlocks
<1> HIDE DEF D, off, on
<1>4. /\ ResidualBlock \in Seq(D) /\ Len(ResidualBlock) = 2
      /\ ResidualBlock[1] = off /\ ResidualBlock[2] = on
  BY <1>1, <1>2
<1>5. seqs \in Seq(Seq(D)) /\ Len(seqs) = n /\ \A k \in 1 .. n : seqs[k] = ResidualBlock
  BY <1>4
<1> HIDE DEF seqs
<1>6. n \in 1 .. n /\ Len(seqs) # 0 /\ \A k \in 1 .. (Len(seqs) - 1) : Len(seqs[k]) = 2
  BY <1>4, <1>5
<1>7. /\ s \in Seq(D) /\ Len(s) = (n - 1) * 2 + Len(seqs[n])
      /\ InPlaceOf(s, seqs, n, 2)
  BY <1>5, <1>6, FlattenEqual
<1> HIDE DEF s
<1>10. \A k \in 1 .. n : Len(seqs[k]) = 2
  BY <1>4, <1>5, Zenon
<1>8. Len(s) = 2 * n
  <2>1. Len(seqs[n]) = 2
    BY <1>6, <1>10, Zenon
  <2>2. Len(s) = (n - 1) * 2 + 2
    BY <1>7, <2>1, Zenon
  <2> QED
    BY <2>2
<1>9. ASSUME NEW j \in 1 .. (2 * n) PROVE s[j] = <<"conv", j % 2 = 0>>
  <2> DEFINE k == (j + 1) \div 2
             l == j - 2 * (k - 1)
  <2>1. k \in 1 .. n /\ l \in {1, 2} /\ (k - 1) * 2 + l = j /\ (j % 2 = 0 <=> l = 2)
    OBVIOUS
  <2> HIDE DEF k, l
  <2>2. l \in 1 .. Len(seqs[k])
    BY <1>10, <2>1
  <2>3. s[(k - 1) * 2 + l] = ResidualBlock[l]
    <3>1. \A p \in 1 .. n : \A q \in 1 .. Len(seqs[p]) : s[(p - 1) * 2 + q] = seqs[p][q]
      BY <1>7, Zenon DEF InPlaceOf
    <3>2. s[(k - 1) * 2 + l] = seqs[k][l]
      BY <2>1, <2>2, <3>1, Zenon
    <3> QED
      BY <1>5, <2>1, <3>2, Zenon
  <2>4. s[j] = ResidualBlock[l]
    BY <2>1, <2>3, Zenon
  <2>5. CASE l = 1
    <3>1. (j % 2 = 0) = FALSE
      BY <2>1, <2>5
    <3> QED
      BY <1>4, <2>4, <2>5, <3>1, Zenon DEF off
  <2>6. CASE l = 2
    <3>1. (j % 2 = 0) = TRUE
      BY <2>1, <2>6
    <3> QED
      BY <1>4, <2>4, <2>6, <3>1, Zenon DEF on
  <2> QED
    BY <2>1, <2>5, <2>6
<1> QED
  BY <1>3, <1>7, <1>8, <1>9, Zenon DEF LayersOf, D, s

\* A stage: its blocks, and the layer it ends in.
LEMMA StageAt ==
  ASSUME NEW n \in Nat \ {0}, NEW kind \in Kinds, NEW last \in BOOLEAN
  PROVE  /\ StageOf(n, kind, last) \in LayersOf(Kinds)
         /\ Len(StageOf(n, kind, last)) = 2 * n + IF last THEN 0 ELSE 1
         /\ \A j \in 1 .. (2 * n) : StageOf(n, kind, last)[j] = <<"conv", j % 2 = 0>>
         /\ ~ last => StageOf(n, kind, last)[2 * n + 1] = <<kind, TRUE>>
<1> DEFINE D == Kinds \X BOOLEAN
           a == ResidualBlocks(n)
           c == Layer(kind)
           e == <<>>
           b == IF last THEN e ELSE c
           s == StageOf(n, kind, last)
<1>1. s = a \o b
  BY Zenon DEF StageOf
<1>2. /\ a \in LayersOf(Kinds) /\ Len(a) = 2 * n
      /\ \A j \in 1 .. (2 * n) : a[j] = <<"conv", j % 2 = 0>>
  <2>1. {"conv"} \subseteq Kinds
    BY DEF Kinds, EncoderLayers
  <2> QED
    BY <2>1, BlocksAt, LayersOfMore
<1>3. c \in Seq(D) /\ Len(c) = 1 /\ c[1] = <<kind, TRUE>>
  <2> DEFINE t == <<kind, TRUE>>
  <2>1. t \in D
    OBVIOUS
  <2> HIDE DEF t, D
  <2>2. <<t>> \in Seq(D) /\ Len(<<t>>) = 1 /\ <<t>>[1] = t
    BY <2>1
  <2> QED
    BY <2>2, Zenon DEF Layer, t
<1>4. e \in Seq(D) /\ Len(e) = 0
  OBVIOUS
<1>5. a \in Seq(D)
  BY <1>2, Zenon DEF LayersOf
<1> HIDE DEF a, c, e, D, s
<1>6. b \in Seq(D) /\ Len(b) = (IF last THEN 0 ELSE 1) /\ (~ last => b[1] = <<kind, TRUE>>)
  BY <1>3, <1>4
<1> HIDE DEF b
<1>7. s \in Seq(D) /\ IsConcat(s, a, b)
  BY <1>1, <1>5, <1>6, Concat
<1>8. /\ Len(s) = Len(a) + Len(b) /\ \A j \in 1 .. Len(a) : s[j] = a[j]
      /\ \A j \in 1 .. Len(b) : s[Len(a) + j] = b[j]
  BY <1>7, Zenon DEF IsConcat
<1>9. ASSUME ~ last PROVE s[2 * n + 1] = <<kind, TRUE>>
  <2>1. 1 \in 1 .. Len(b)
    BY <1>6, <1>9
  <2> QED
    BY <1>2, <1>6, <1>8, <1>9, <2>1, Zenon
<1>10. \A j \in 1 .. (2 * n) : s[j] = <<"conv", j % 2 = 0>>
  BY <1>2, <1>8, Zenon
<1>11. Len(s) = 2 * n + IF last THEN 0 ELSE 1
  BY <1>2, <1>6, <1>8, Zenon
<1>12. s \in LayersOf(Kinds)
  BY <1>7, Zenon DEF LayersOf, D
<1> QED
  BY <1>9, <1>10, <1>11, <1>12, Zenon DEF s

\* One layer is a network, too.
LEMMA OneLayer ==
  ASSUME NEW D, NEW l \in D
  PROVE  <<l>> \in Seq(D) /\ Len(<<l>>) = 1 /\ <<l>>[1] = l
  OBVIOUS

\* The layers of the decoder before its first stage.
DecoderBegins == Layer("conv") \o Middle

\* The six layers before the first stage, and which of them end a module.
LEMMA BeginAt ==
  /\ DecoderBegins \in LayersOf(Kinds) /\ Len(DecoderBegins) = 6
  /\ DecoderBegins[1] = <<"conv", TRUE>>
  /\ DecoderBegins[2] = <<"conv", FALSE>> /\ DecoderBegins[3] = <<"conv", TRUE>>
  /\ DecoderBegins[4] = <<"attn", TRUE>>
  /\ DecoderBegins[5] = <<"conv", FALSE>> /\ DecoderBegins[6] = <<"conv", TRUE>>
<1> DEFINE D == Kinds \X BOOLEAN
           off == <<"conv", FALSE>>
           on == <<"conv", TRUE>>
           at == <<"attn", TRUE>>
           a == ResidualBlock
           b == Layer("attn")
           c == Layer("conv")
           ab == a \o b
           m == ab \o a
           s == c \o m
<1>1. off \in D /\ on \in D /\ at \in D
  BY DEF Kinds, EncoderLayers
<1>2. a = <<off, on>>
  BY DEF ResidualBlock
<1>3. b = <<at>> /\ c = <<on>>
  BY Zenon DEF Layer
<1>4. DecoderBegins = s
  BY DEF DecoderBegins, Middle
<1> HIDE DEF D, off, on, at
<1>5. a \in Seq(D) /\ Len(a) = 2 /\ a[1] = off /\ a[2] = on
  BY <1>1, <1>2
<1>6. b \in Seq(D) /\ Len(b) = 1 /\ b[1] = at /\ c \in Seq(D) /\ Len(c) = 1 /\ c[1] = on
  BY <1>1, <1>3, OneLayer
<1> HIDE DEF a, b, c, ab, m, s
<1>7. ab \in Seq(D) /\ IsConcat(ab, a, b)
  BY <1>5, <1>6, Concat DEF ab
<1>8. Len(ab) = 3 /\ ab[1] = off /\ ab[2] = on /\ ab[3] = at
  <2>1. /\ Len(ab) = Len(a) + Len(b) /\ \A k \in 1 .. Len(a) : ab[k] = a[k]
        /\ \A k \in 1 .. Len(b) : ab[Len(a) + k] = b[k]
    BY <1>7, Zenon DEF IsConcat
  <2>2. /\ Len(ab) = 2 + 1 /\ \A k \in 1 .. 2 : ab[k] = a[k]
        /\ \A k \in 1 .. 1 : ab[2 + k] = b[k]
    BY <1>5, <1>6, <2>1, Zenon
  <2> QED
    BY <1>5, <1>6, <2>2
<1>9. m \in Seq(D) /\ IsConcat(m, ab, a)
  BY <1>5, <1>7, Concat DEF m
<1>10. Len(m) = 5 /\ m[1] = off /\ m[2] = on /\ m[3] = at /\ m[4] = off /\ m[5] = on
  <2>1. /\ Len(m) = Len(ab) + Len(a) /\ \A k \in 1 .. Len(ab) : m[k] = ab[k]
        /\ \A k \in 1 .. Len(a) : m[Len(ab) + k] = a[k]
    BY <1>9, Zenon DEF IsConcat
  <2>2. /\ Len(m) = 3 + 2 /\ \A k \in 1 .. 3 : m[k] = ab[k]
        /\ \A k \in 1 .. 2 : m[3 + k] = a[k]
    BY <1>5, <1>8, <2>1, Zenon
  <2> QED
    BY <1>5, <1>8, <2>2
<1>11. s \in Seq(D) /\ IsConcat(s, c, m)
  BY <1>6, <1>9, Concat DEF s
<1>12. /\ Len(s) = 6 /\ s[1] = on /\ s[2] = off /\ s[3] = on /\ s[4] = at /\ s[5] = off
       /\ s[6] = on
  <2>1. /\ Len(s) = Len(c) + Len(m) /\ \A k \in 1 .. Len(c) : s[k] = c[k]
        /\ \A k \in 1 .. Len(m) : s[Len(c) + k] = m[k]
    BY <1>11, Zenon DEF IsConcat
  <2>2. /\ Len(s) = 1 + 5 /\ \A k \in 1 .. 1 : s[k] = c[k]
        /\ \A k \in 1 .. 5 : s[1 + k] = m[k]
    BY <1>6, <1>10, <2>1, Zenon
  <2> QED
    BY <1>6, <1>10, <2>2
<1> QED
  BY <1>4, <1>11, <1>12, Zenon DEF LayersOf, D, off, on, at

\* A stage of the decoder, with the layer after the last stage counted to that
\* stage.
StageLen == 2 * ResBlocks + 3
UpOf(k) == IF Levels - 1 - k \in TimeDown THEN "up3d" ELSE "up2d"
LayerAt(k, j) ==
  IF j # StageLen THEN <<"conv", j % 2 = 0>>
  ELSE IF k = Levels THEN <<"conv", FALSE>> ELSE <<UpOf(k), TRUE>>

\* The layers of the decoder, stage by stage.
LEMMA DecoderAt ==
  /\ Decoder3d \in LayersOf(Kinds) /\ Len(Decoder3d) = 6 + Levels * StageLen
  /\ \A v \in 1 .. 6 : Decoder3d[v] = DecoderBegins[v]
  /\ \A k \in 1 .. Levels : \A j \in 1 .. StageLen :
       Decoder3d[6 + ((k - 1) * StageLen + j)] = LayerAt(k, j)
<1> DEFINE D == Kinds \X BOOLEAN
           n == ResBlocks + 1
           seqs == [k \in 1 .. Levels |-> StageOf(n, UpOf(k), k = Levels)]
           b == DecoderBegins
           f == FlattenSeq(seqs)
           bf == b \o f
           off == <<"conv", FALSE>>
           d == <<off>>
           L == Levels
           t == (L - 1) * StageLen
<1>1. Levels \in Nat \ {0} /\ n \in Nat \ {0} /\ StageLen = 2 * n + 1 /\ StageLen \in Nat
  BY VaeAssumption DEF StageLen
<1>2. Decoder3d = bf \o d
  BY Zenon DEF Decoder3d, DecoderBegins, StageOf, UpOf
<1>3. ASSUME NEW k \in 1 .. Levels
      PROVE  /\ seqs[k] \in Seq(D) /\ Len(seqs[k]) = 2 * n + IF k = Levels THEN 0 ELSE 1
             /\ \A j \in 1 .. (2 * n) : seqs[k][j] = <<"conv", j % 2 = 0>>
             /\ k # Levels => seqs[k][2 * n + 1] = <<UpOf(k), TRUE>>
  <2> DEFINE kind == UpOf(k)
             last == k = Levels
  <2>1. kind \in Kinds /\ last \in BOOLEAN
    BY DEF UpOf, Kinds, DecoderLayers
  <2>2. seqs[k] = StageOf(n, kind, last)
    BY Zenon
  <2> HIDE DEF kind, last, n, seqs
  <2>3. /\ seqs[k] \in LayersOf(Kinds) /\ Len(seqs[k]) = 2 * n + IF last THEN 0 ELSE 1
        /\ \A j \in 1 .. (2 * n) : seqs[k][j] = <<"conv", j % 2 = 0>>
        /\ ~ last => seqs[k][2 * n + 1] = <<kind, TRUE>>
    <3> DEFINE g == StageOf(n, kind, last)
    <3>1. /\ g \in LayersOf(Kinds) /\ Len(g) = 2 * n + IF last THEN 0 ELSE 1
          /\ \A j \in 1 .. (2 * n) : g[j] = <<"conv", j % 2 = 0>>
          /\ ~ last => g[2 * n + 1] = <<kind, TRUE>>
      BY <1>1, <2>1, StageAt
    <3> HIDE DEF g
    <3>2. seqs[k] = g
      BY <2>2 DEF g
    <3> QED
      BY <3>1, <3>2, Zenon
  <2> QED
    BY <2>3, Zenon DEF LayersOf, last, kind
<1> HIDE DEF D, n
<1>4. seqs \in Seq(Seq(D)) /\ Len(seqs) = L
  <2> DEFINE E == Seq(D)
  <2>1. \A k \in 1 .. Levels : seqs[k] \in E
    BY <1>3
  <2>2. seqs = [k \in 1 .. Levels |-> seqs[k]]
    BY Zenon
  <2> HIDE DEF E, seqs
  <2>3. seqs \in Seq(E) /\ Len(seqs) = Levels
    BY <1>1, <2>1, <2>2
  <2> QED
    BY <2>3, Zenon DEF E, L
<1> HIDE DEF seqs
<1>5. L \in 1 .. L /\ Len(seqs) # 0 /\ \A k \in 1 .. (Len(seqs) - 1) : Len(seqs[k]) = StageLen
  <2>1. \A k \in 1 .. (L - 1) : k \in 1 .. L /\ k # L
    BY <1>1
  <2>2. \A k \in 1 .. (L - 1) : Len(seqs[k]) = 2 * n + 1
    BY <1>3, <2>1
  <2>3. L \in 1 .. L /\ L # 0
    BY <1>1
  <2> QED
    BY <1>1, <1>4, <2>2, <2>3, Zenon
<1>6. /\ f \in Seq(D) /\ Len(f) = t + Len(seqs[L]) /\ InPlaceOf(f, seqs, L, StageLen)
  BY <1>1, <1>4, <1>5, FlattenEqual
<1>7. b \in Seq(D) /\ Len(b) = 6
  BY BeginAt, Zenon DEF LayersOf, D
<1>8. off \in D
  BY DEF D, Kinds, EncoderLayers
<1> HIDE DEF b, f, bf, off
<1>9. d \in Seq(D) /\ Len(d) = 1 /\ d[1] = off
  BY <1>8, OneLayer
<1> HIDE DEF d, L, t
<1>10. Len(f) = t + 2 * n
  <2>1. L = Levels /\ Len(seqs[L]) = 2 * n + 0
    BY <1>3, <1>5 DEF L
  <2>2. Len(f) = t + (2 * n + 0)
    BY <1>6, <2>1, Zenon
  <2> QED
    BY <1>1, <2>2
<1>11. t \in Nat /\ L * StageLen = t + StageLen /\ L = Levels
  BY <1>1 DEF t, L
<1>12. bf \in Seq(D) /\ IsConcat(bf, b, f)
  BY <1>6, <1>7, Concat DEF bf
<1>13. /\ Len(bf) = Len(b) + Len(f) /\ \A v \in 1 .. Len(b) : bf[v] = b[v]
       /\ \A v \in 1 .. Len(f) : bf[Len(b) + v] = f[v]
  BY <1>12, Zenon DEF IsConcat
<1>14. Decoder3d \in Seq(D) /\ IsConcat(Decoder3d, bf, d)
  BY <1>2, <1>9, <1>12, Concat
<1>15. /\ Len(Decoder3d) = Len(bf) + Len(d) /\ \A v \in 1 .. Len(bf) : Decoder3d[v] = bf[v]
       /\ \A v \in 1 .. Len(d) : Decoder3d[Len(bf) + v] = d[v]
  BY <1>14, Zenon DEF IsConcat
<1>16. Len(bf) = 6 + (t + 2 * n)
  BY <1>7, <1>10, <1>13, Zenon
<1>17. Len(Decoder3d) = 6 + Levels * StageLen
  <2>1. Len(Decoder3d) = (6 + (t + 2 * n)) + 1
    BY <1>9, <1>15, <1>16, Zenon
  <2>2. Len(Decoder3d) = 6 + (t + StageLen)
    BY <1>1, <1>11, <2>1
  <2> QED
    BY <1>11, <2>2, Zenon
<1>18. \A v \in 1 .. 6 : Decoder3d[v] = b[v]
  <2>1. \A v \in 1 .. 6 : v \in 1 .. (6 + (t + 2 * n))
    BY <1>1, <1>11
  <2> QED
    BY <1>7, <1>13, <1>15, <1>16, <2>1, Zenon
<1>19. ASSUME NEW k \in 1 .. Levels, NEW j \in 1 .. StageLen
       PROVE  Decoder3d[6 + ((k - 1) * StageLen + j)] = LayerAt(k, j)
  <2> DEFINE p == (k - 1) * StageLen
  <2>1. CASE k = Levels /\ j = StageLen
    <3>1. p = t
      BY <2>1, Zenon DEF t, L
    <3> HIDE DEF p
    <3>2. 6 + (p + j) = Len(bf) + 1 /\ 1 \in 1 .. 1
      BY <1>1, <1>11, <1>16, <2>1, <3>1
    <3>3. Decoder3d[6 + (p + j)] = off
      BY <1>9, <1>15, <3>2, Zenon
    <3> QED
      BY <2>1, <3>3, Zenon DEF LayerAt, off, p
  <2>2. CASE ~ (k = Levels /\ j = StageLen)
    <3>1. j \in 1 .. Len(seqs[k])
      <4>1. Len(seqs[k]) = 2 * n + IF k = Levels THEN 0 ELSE 1
        BY <1>3
      <4> QED
        BY <1>1, <2>2, <4>1
    <3>2. f[p + j] = seqs[k][j]
      BY <1>6, <1>11, <3>1, Zenon DEF InPlaceOf
    <3>3. seqs[k][j] = LayerAt(k, j)
      <4>1. CASE j = StageLen
        <5>1. k # Levels /\ j = 2 * n + 1
          BY <1>1, <2>2, <4>1
        <5> QED
          BY <1>3, <4>1, <5>1, Zenon DEF LayerAt
      <4>2. CASE j # StageLen
        <5>1. j \in 1 .. (2 * n)
          BY <1>1, <4>2
        <5> QED
          BY <1>3, <4>2, <5>1, Zenon DEF LayerAt
      <4> QED
        BY <4>1, <4>2
    <3>4. p \in Nat /\ (k # Levels => p + StageLen <= t) /\ (k = Levels => p = t)
      <4>1. k \in Nat \ {0} /\ k <= Levels
        BY <1>1
      <4>2. p + StageLen = k * StageLen /\ p \in Nat
        BY <1>1, <4>1
      <4>3. k = Levels => p = t
        BY Zenon DEF t, L
      <4>4. ASSUME k # Levels PROVE k * StageLen <= t
        <5> DEFINE e == (Levels - 1) - k
        <5>1. e \in Nat /\ Levels - 1 = k + e
          BY <1>1, <4>1, <4>4
        <5> HIDE DEF e
        <5>2. t = k * StageLen + e * StageLen
          BY <1>1, <4>1, <5>1 DEF t, L
        <5> DEFINE y == k * StageLen
                   z == e * StageLen
        <5>3. z \in Nat /\ y \in Nat /\ t = y + z
          BY <1>1, <4>1, <5>1, <5>2
        <5> HIDE DEF y, z
        <5> QED
          BY <5>3 DEF y
      <4> HIDE DEF p
      <4> QED
        BY <4>2, <4>3, <4>4
    <3> HIDE DEF p
    <3>5. p + j \in 1 .. (t + 2 * n) /\ 6 + (p + j) \in 1 .. (6 + (t + 2 * n))
      BY <1>1, <1>11, <2>2, <3>4
    <3>6. Decoder3d[6 + (p + j)] = f[p + j]
      BY <1>7, <1>10, <1>13, <1>15, <1>16, <3>5, Zenon
    <3> QED
      BY <3>2, <3>3, <3>6, Zenon DEF p
  <2> QED
    BY <2>1, <2>2
<1>20. Decoder3d \in LayersOf(Kinds)
  BY <1>14, Zenon DEF LayersOf, D
<1> QED
  BY <1>17, <1>18, <1>19, <1>20, Zenon DEF b

\* The ends of modules up to a layer.
LEMMA EndsSteps ==
  ASSUME NEW D, NEW net \in Seq(D)
  PROVE  /\ EndsUpTo(net, 0) = 0
         /\ \A v \in 1 .. Len(net) :
              EndsUpTo(net, v) = EndsUpTo(net, v - 1) + IF net[v][2] THEN 1 ELSE 0
         /\ \A v, w \in 0 .. Len(net) :
              /\ EndsUpTo(net, v) \in Nat
              /\ v <= w => EndsUpTo(net, v) <= EndsUpTo(net, w)
<1> DEFINE n == Len(net)
           P == {w \in 1 .. n : net[w][2]}
<1>1. n \in Nat
  OBVIOUS
<1>2. ASSUME NEW v \in 0 .. n PROVE EndsUpTo(net, v) = Cardinality(P \cap (1 .. v))
  <2>1. {w \in 1 .. v : net[w][2]} = P \cap (1 .. v)
    <3> HIDE DEF n
    <3>1. \A w \in 1 .. v : w \in 1 .. n
      BY <1>1
    <3> QED
      BY <3>1
  <2> QED
    BY <2>1, Zenon DEF EndsUpTo
<1>3. \A v \in 1 .. n : v \in P <=> net[v][2]
  OBVIOUS
<1> HIDE DEF n, P
<1>4. EndsUpTo(net, 0) = 0
  <2>1. 0 \in 0 .. n /\ P \cap (1 .. 0) = {}
    BY <1>1
  <2> QED
    BY <1>2, <2>1, FS_EmptySet
<1>5. ASSUME NEW v \in 1 .. n
      PROVE  EndsUpTo(net, v) = EndsUpTo(net, v - 1) + IF net[v][2] THEN 1 ELSE 0
  <2> DEFINE m == v - 1
  <2>1. m \in Nat /\ v = m + 1 /\ m \in 0 .. n /\ v \in 0 .. n
    BY <1>1
  <2>2. EndsUpTo(net, m) = Cardinality(P \cap (1 .. m))
    BY <1>2, <2>1
  <2>3. EndsUpTo(net, v) = Cardinality(P \cap (1 .. (m + 1)))
    BY <1>2, <2>1
  <2> HIDE DEF m
  <2>4. Cardinality(P \cap (1 .. (m + 1)))
          = Cardinality(P \cap (1 .. m)) + IF m + 1 \in P THEN 1 ELSE 0
    BY <2>1, OneMoreNumber
  <2> QED
    BY <1>3, <2>1, <2>2, <2>3, <2>4, Zenon DEF m
<1>6. ASSUME NEW v \in 0 .. n, NEW w \in 0 .. n
      PROVE  /\ EndsUpTo(net, v) \in Nat
             /\ v <= w => EndsUpTo(net, v) <= EndsUpTo(net, w)
  <2> DEFINE a == P \cap (1 .. v)
             b == P \cap (1 .. w)
  <2>1. IsFiniteSet(1 .. v) /\ IsFiniteSet(1 .. w)
    BY <1>1, FS_Interval
  <2>2. IsFiniteSet(a) /\ IsFiniteSet(b)
    BY <2>1, FS_Intersection
  <2>3. v <= w => a \in SUBSET b
    BY <1>1
  <2>4. EndsUpTo(net, v) = Cardinality(a) /\ EndsUpTo(net, w) = Cardinality(b)
    BY <1>2
  <2> HIDE DEF a, b
  <2> QED
    BY <2>2, <2>3, <2>4, FS_CardinalityType, FS_Subset
<1> QED
  BY <1>4, <1>5, <1>6 DEF n

\* The levels, from one on, that halve time.
TimeDownFrom(l) == Cardinality({d \in TimeDown : d >= l})

\* Each level adds itself when it halves time, down to both of them.
LEMMA TimeDownSteps ==
  /\ TimeDownFrom(Levels - 1) = 0 /\ TimeDownFrom(0) = 2
  /\ \A l \in Nat : /\ TimeDownFrom(l) \in 0 .. 2
                    /\ TimeDownFrom(l) = TimeDownFrom(l + 1) + IF l \in TimeDown THEN 1 ELSE 0
<1> DEFINE P(l) == {d \in TimeDown : d >= l}
<1>1. TimeDown \subseteq 0 .. (Levels - 2) /\ Levels \in Nat
  BY VaeAssumption
<1>2. IsFiniteSet(TimeDown)
  <2>1. IsFiniteSet(0 .. (Levels - 2)) /\ TimeDown \in SUBSET (0 .. (Levels - 2))
    BY <1>1, FS_Interval
  <2> QED
    BY <2>1, FS_Subset
<1>10. \A d \in TimeDown : d \in Nat /\ d <= Levels - 2
  BY <1>1
<1>3. P(Levels - 1) = {} /\ P(0) = TimeDown
  <2>1. \A d \in TimeDown : ~ (d >= Levels - 1) /\ d >= 0
    BY <1>1, <1>10
  <2> QED
    BY <2>1, Zenon
<1>4. ASSUME NEW l \in Nat
      PROVE  /\ P(l) \in SUBSET TimeDown /\ l \notin P(l + 1)
             /\ P(l) = IF l \in TimeDown THEN P(l + 1) \cup {l} ELSE P(l + 1)
  <2>1. \A d \in TimeDown : d >= l <=> d >= l + 1 \/ d = l
    BY <1>10
  <2>2. ~ (l >= l + 1) /\ l >= l
    OBVIOUS
  <2>3. ASSUME l \in TimeDown PROVE P(l) = P(l + 1) \cup {l}
    BY <2>1, <2>2, <2>3, Zenon
  <2>4. ASSUME l \notin TimeDown PROVE P(l) = P(l + 1)
    BY <2>1, <2>4, Zenon
  <2>5. P(l) \in SUBSET TimeDown /\ l \notin P(l + 1)
    BY <2>2, Zenon
  <2> QED
    BY <2>3, <2>4, <2>5, Zenon
<1>5. \A l : TimeDownFrom(l) = Cardinality(P(l))
  BY DEF TimeDownFrom
<1> HIDE DEF P
<1>6. ASSUME NEW l \in Nat
      PROVE  /\ IsFiniteSet(P(l)) /\ Cardinality(P(l)) \in Nat /\ Cardinality(P(l)) <= 2
  <2>1. IsFiniteSet(P(l)) /\ Cardinality(P(l)) <= Cardinality(TimeDown)
    BY <1>2, <1>4, FS_Subset
  <2> QED
    BY <2>1, FS_CardinalityType, CondAssumption
<1>7. ASSUME NEW l \in Nat
      PROVE  TimeDownFrom(l) = TimeDownFrom(l + 1) + IF l \in TimeDown THEN 1 ELSE 0
  <2>1. l + 1 \in Nat
    OBVIOUS
  <2>2. IsFiniteSet(P(l + 1)) /\ Cardinality(P(l + 1)) \in Nat
    BY <1>6, <2>1, Zenon
  <2>3. Cardinality(P(l + 1) \cup {l}) = Cardinality(P(l + 1)) + 1
    <3> DEFINE y == P(l + 1)
    <3>1. IsFiniteSet(y) /\ l \notin y
      BY <1>4, <2>2, Zenon
    <3> HIDE DEF y
    <3>2. Cardinality(y \cup {l}) = Cardinality(y) + 1
      BY <3>1, FS_AddElement
    <3> QED
      BY <3>2 DEF y
  <2>4. Cardinality(P(l)) = Cardinality(P(l + 1)) + IF l \in TimeDown THEN 1 ELSE 0
    <3>1. CASE l \in TimeDown
      <4>1. P(l) = P(l + 1) \cup {l}
        BY <1>4, <3>1, Zenon
      <4> QED
        BY <2>3, <3>1, <4>1, Zenon
    <3>2. CASE l \notin TimeDown
      <4>1. P(l) = P(l + 1)
        BY <1>4, <3>2, Zenon
      <4> DEFINE y == Cardinality(P(l + 1))
      <4>2. y \in Nat /\ Cardinality(P(l)) = y
        BY <2>2, <4>1, Zenon
      <4> HIDE DEF y
      <4>3. Cardinality(P(l)) = y + IF l \in TimeDown THEN 1 ELSE 0
        BY <3>2, <4>2
      <4> QED
        BY <4>3, Zenon DEF y
    <3> QED
      BY <3>1, <3>2
  <2> QED
    BY <1>5, <2>4, Zenon
<1>8. \A l \in Nat : TimeDownFrom(l) \in 0 .. 2
  BY <1>5, <1>6
<1>9. TimeDownFrom(Levels - 1) = 0 /\ TimeDownFrom(0) = 2
  BY <1>3, <1>5, FS_EmptySet, CondAssumption, Zenon
<1> QED
  BY <1>7, <1>8, <1>9

\* The decoder, counted: before each layer the stages before it are done, with as
\* many modules each, and the modules of its own stage.
ModulesPerStage == ResBlocks + 2

\* Doublings, and ends of modules, before and after each layer of the decoder.
LEMMA DecoderCounted ==
  /\ EndsUpTo(Decoder3d, 0) = 0 /\ EndsUpTo(Decoder3d, 1) = 1 /\ EndsUpTo(Decoder3d, 2) = 1
  /\ EndsUpTo(Decoder3d, 3) = 2 /\ EndsUpTo(Decoder3d, 4) = 3 /\ EndsUpTo(Decoder3d, 5) = 3
  /\ \A v \in 0 .. 6 :
       Before(Decoder3d, v + 1, Doublings) = 0 /\ Before(Decoder3d, v + 1, {"up3d"}) = 0
  /\ \A k \in 1 .. Levels : \A j \in 0 .. (StageLen - 1) :
       LET v == 6 + ((k - 1) * StageLen + j)
       IN  /\ EndsUpTo(Decoder3d, v) = 4 + ((k - 1) * ModulesPerStage + j \div 2)
           /\ Before(Decoder3d, v + 1, Doublings) = k - 1
           /\ Before(Decoder3d, v + 1, {"up3d"}) = TimeDownFrom(Levels - k)
<1> DEFINE net == Decoder3d
           D == Kinds \X BOOLEAN
           N == Len(net)
           e(v) == EndsUpTo(net, v)
           b(v) == Before(net, v + 1, Doublings)
           t(v) == Before(net, v + 1, {"up3d"})
           C(k, j, v) == /\ e(v) = 4 + ((k - 1) * ModulesPerStage + j \div 2)
                         /\ b(v) = k - 1
                         /\ t(v) = TimeDownFrom(Levels - k)
           T(n) == \A k \in 1 .. Levels : \A j \in 0 .. (StageLen - 1) :
                     n = (k - 1) * StageLen + j => C(k, j, 6 + n)
           S == {n \in Nat : T(n)}
<1>1. /\ Levels \in Nat \ {0} /\ ResBlocks \in Nat /\ StageLen = 2 * ResBlocks + 3
      /\ StageLen \in Nat /\ ModulesPerStage = ResBlocks + 2 /\ ModulesPerStage \in Nat
  BY VaeAssumption DEF StageLen, ModulesPerStage
<1>2. net \in Seq(D) /\ N = 6 + Levels * StageLen
  BY DecoderAt, Zenon DEF LayersOf
<1>3. N \in Nat /\ 6 <= N
  <2>1. Levels * StageLen \in Nat
    BY <1>1
  <2> DEFINE y == Levels * StageLen
  <2> HIDE DEF y, N
  <2> QED
    BY <1>2, <2>1 DEF y
<1> HIDE DEF net, D
<1>4. /\ e(0) = 0
      /\ \A v \in 1 .. N : e(v) = e(v - 1) + IF net[v][2] THEN 1 ELSE 0
      /\ \A v \in 0 .. N : e(v) \in Nat
  BY <1>2, EndsSteps
<1>5. ASSUME NEW kinds
      PROVE  /\ Before(net, 0 + 1, kinds) = 0
             /\ \A v \in 1 .. N :
                  Before(net, v + 1, kinds)
                    = Before(net, (v - 1) + 1, kinds) + IF net[v][1] \in kinds THEN 1 ELSE 0
             /\ \A v \in 0 .. N : Before(net, v + 1, kinds) \in Nat
  <2>1. /\ Before(net, 1, kinds) = 0
        /\ \A v \in 1 .. N :
             Before(net, v + 1, kinds) = Before(net, v, kinds) + IF net[v][1] \in kinds THEN 1 ELSE 0
        /\ \A v \in 1 .. (N + 1) : Before(net, v, kinds) \in Nat
    BY <1>2, BeforeSteps
  <2>2. 0 + 1 = 1 /\ \A v \in 1 .. N : (v - 1) + 1 = v
    BY <1>3
  <2>3. \A v \in 0 .. N : v + 1 \in 1 .. (N + 1)
    BY <1>3
  <2> QED
    BY <2>1, <2>2, <2>3, Zenon
<1>6. /\ b(0) = 0 /\ t(0) = 0
      /\ \A v \in 1 .. N : b(v) = b(v - 1) + IF net[v][1] \in Doublings THEN 1 ELSE 0
      /\ \A v \in 1 .. N : t(v) = t(v - 1) + IF net[v][1] \in {"up3d"} THEN 1 ELSE 0
      /\ \A v \in 0 .. N : b(v) \in Nat /\ t(v) \in Nat
  BY <1>5, Zenon
<1>7. /\ net[1] = <<"conv", TRUE>> /\ net[2] = <<"conv", FALSE>> /\ net[3] = <<"conv", TRUE>>
      /\ net[4] = <<"attn", TRUE>> /\ net[5] = <<"conv", FALSE>> /\ net[6] = <<"conv", TRUE>>
  <2>1. \A v \in {1, 2, 3, 4, 5, 6} : v \in 1 .. 6
    OBVIOUS
  <2> QED
    BY <2>1, BeginAt, DecoderAt, Zenon DEF net
<1> HIDE DEF e, b, t
<1>8. \A v \in 1 .. 6 : v \in 1 .. N /\ v - 1 \in 0 .. N
  BY <1>3
<1>9. /\ e(1) = 1 /\ e(2) = 1 /\ e(3) = 2 /\ e(4) = 3 /\ e(5) = 3 /\ e(6) = 4
  <2>1. \A v \in 1 .. 6 : e(v) = e(v - 1) + IF net[v][2] THEN 1 ELSE 0
    BY <1>4, <1>8, Zenon
  <2>2. /\ net[1][2] = TRUE /\ net[2][2] = FALSE /\ net[3][2] = TRUE /\ net[4][2] = TRUE
        /\ net[5][2] = FALSE /\ net[6][2] = TRUE
    BY <1>7
  <2>3. /\ e(1) = e(1 - 1) + 1 /\ e(2) = e(2 - 1) + 0 /\ e(3) = e(3 - 1) + 1
        /\ e(4) = e(4 - 1) + 1 /\ e(5) = e(5 - 1) + 0 /\ e(6) = e(6 - 1) + 1
    <3>1. \A v \in {1, 2, 3, 4, 5, 6} : v \in 1 .. 6
      OBVIOUS
    <3> QED
      BY <2>1, <2>2, <3>1, Zenon
  <2> QED
    BY <1>4, <2>3
<1>10. \A v \in 0 .. 6 : b(v) = 0 /\ t(v) = 0
  <2>1. \A v \in 1 .. 6 : b(v) = b(v - 1) + 0 /\ t(v) = t(v - 1) + 0
    <3>1. /\ net[1][1] = "conv" /\ net[2][1] = "conv" /\ net[3][1] = "conv"
          /\ net[4][1] = "attn" /\ net[5][1] = "conv" /\ net[6][1] = "conv"
      BY <1>7
    <3>2. \A v \in 1 .. 6 : v \in {1, 2, 3, 4, 5, 6}
      OBVIOUS
    <3>3. \A v \in 1 .. 6 : net[v][1] \in {"conv", "attn"}
      BY <3>1, <3>2
    <3>4. \A kind \in {"conv", "attn"} : kind \notin Doublings /\ kind \notin {"up3d"}
      BY DEF Doublings
    <3> QED
      BY <1>6, <1>8, <3>3, <3>4, Zenon
  <2>2. \A v \in {1, 2, 3, 4, 5, 6} : v \in 1 .. 6
    OBVIOUS
  <2>3. /\ b(1) = b(0) /\ b(2) = b(1) /\ b(3) = b(2) /\ b(4) = b(3) /\ b(5) = b(4)
        /\ b(6) = b(5) /\ t(1) = t(0) /\ t(2) = t(1) /\ t(3) = t(2) /\ t(4) = t(3)
        /\ t(5) = t(4) /\ t(6) = t(5)
    <3>1. \A v \in 1 .. 6 : b(v - 1) \in Nat /\ t(v - 1) \in Nat
      BY <1>6, <1>8, Zenon
    <3>2. \A v \in 1 .. 6 : b(v) = b(v - 1) /\ t(v) = t(v - 1)
      BY <2>1, <3>1
    <3> QED
      BY <3>2
  <2>4. \A v \in 0 .. 6 : v \in {0, 1, 2, 3, 4, 5, 6}
    OBVIOUS
  <2> QED
    BY <1>6, <2>3, <2>4
<1>11. 0 \in S
  <2>1. SUFFICES ASSUME NEW k \in 1 .. Levels, NEW j \in 0 .. (StageLen - 1),
                        0 = (k - 1) * StageLen + j
                 PROVE  C(k, j, 6 + 0)
    OBVIOUS
  <2>2. k = 1 /\ j = 0
    <3>1. CASE k = 1
      BY <1>1, <2>1, <3>1
    <3>2. CASE k # 1
      <4> DEFINE m == k - 2
                 y == m * StageLen
      <4>1. m \in Nat /\ (k - 1) * StageLen = y + StageLen
        BY <1>1, <3>2
      <4>2. y \in Nat
        BY <1>1, <4>1
      <4> HIDE DEF y
      <4> QED
        BY <1>1, <2>1, <4>1, <4>2
    <3> QED
      BY <3>1, <3>2
  <2>3. (k - 1) * ModulesPerStage = 0 /\ j \div 2 = 0 /\ 6 + 0 = 6
    BY <1>1, <2>2
  <2>4. e(6) = 4 + (0 + 0) /\ b(6) = k - 1 /\ t(6) = TimeDownFrom(Levels - k)
    BY <1>9, <1>10, <2>2, TimeDownSteps
  <2> QED
    BY <2>3, <2>4, Zenon
<1>12. ASSUME NEW n \in S PROVE n + 1 \in S
  <2>1. n \in Nat /\ T(n)
    OBVIOUS
  <2>2. SUFFICES ASSUME NEW k \in 1 .. Levels, NEW j \in 0 .. (StageLen - 1),
                        n + 1 = (k - 1) * StageLen + j
                 PROVE  C(k, j, 6 + (n + 1))
    BY <2>1
  <2> DEFINE w == 6 + n
             v == 6 + (n + 1)
  <2>3. w \in Nat /\ v = w + 1 /\ v - 1 = w
    BY <2>1
  <2>4. k \in Nat \ {0} /\ k <= Levels /\ j \in Nat /\ j < StageLen
    BY <1>1
  <2> HIDE DEF T, S, C
  <2>5. CASE j > 0
    <3> DEFINE p == (k - 1) * StageLen
    <3>1. p \in Nat
      BY <1>1, <2>4
    <3>2. n = p + (j - 1) /\ j - 1 \in 0 .. (StageLen - 1) /\ j \in 1 .. StageLen /\ j # StageLen
      <4> HIDE DEF p
      <4> QED
        BY <1>1, <2>1, <2>2, <2>4, <2>5, <3>1 DEF p
    <3>3. C(k, j - 1, w)
      BY <2>1, <3>2, Zenon DEF T, w
    <3>4. net[v] = <<"conv", j % 2 = 0>>
      <4>1. net[6 + ((k - 1) * StageLen + j)] = LayerAt(k, j)
        BY <3>2, DecoderAt DEF net
      <4> QED
        BY <2>2, <3>2, <4>1, Zenon DEF LayerAt, v
    <3>5. v \in 1 .. N
      <4>1. p + StageLen <= Levels * StageLen /\ Levels * StageLen \in Nat
        <5>1. Levels - k \in Nat /\ (Levels - k) * StageLen \in Nat
          BY <1>1, <2>4
        <5>2. Levels * StageLen = (p + StageLen) + (Levels - k) * StageLen
          BY <1>1, <2>4
        <5> DEFINE y == Levels * StageLen
                   z == (Levels - k) * StageLen
        <5>3. y = (p + StageLen) + z /\ z \in Nat
          BY <5>1, <5>2
        <5> HIDE DEF y, z, p
        <5>4. p + StageLen <= y /\ y \in Nat
          BY <1>1, <3>1, <5>3
        <5> QED
          BY <5>4 DEF y
      <4> DEFINE y == Levels * StageLen
      <4>2. N = 6 + y /\ p + StageLen <= y /\ y \in Nat
        BY <1>2, <4>1
      <4> HIDE DEF y, p, N
      <4> QED
        BY <1>1, <2>1, <2>4, <3>1, <3>2, <4>2
    <3>6. /\ e(v) = e(w) + IF j % 2 = 0 THEN 1 ELSE 0
          /\ b(v) = b(w) + 0 /\ t(v) = t(w) + 0
      <4>1. net[v][1] = "conv" /\ net[v][2] = (j % 2 = 0)
        BY <3>4
      <4>2. "conv" \notin Doublings /\ "conv" \notin {"up3d"}
        BY DEF Doublings
      <4> HIDE DEF v, w
      <4> QED
        BY <1>4, <1>6, <2>3, <3>5, <4>1, <4>2, Zenon
    <3>7. j \div 2 = (j - 1) \div 2 + IF j % 2 = 0 THEN 1 ELSE 0
      BY <2>4, <2>5
    <3> DEFINE q == (k - 1) * ModulesPerStage
               c == (j - 1) \div 2
               d == IF j % 2 = 0 THEN 1 ELSE 0
    <3>8. q \in Nat /\ c \in Nat /\ d \in Nat
      BY <1>1, <2>4, <2>5
    <3>9. e(w) = 4 + (q + c) /\ b(w) = k - 1 /\ t(w) = TimeDownFrom(Levels - k)
      BY <3>3, Zenon DEF C
    <3>10. TimeDownFrom(Levels - k) \in 0 .. 2
      <4>1. Levels - k \in Nat
        BY <1>1, <2>4
      <4> QED
        BY <4>1, TimeDownSteps
    <3>11. e(v) = (4 + (q + c)) + d /\ j \div 2 = c + d
      BY <3>6, <3>7, <3>9, Zenon
    <3> HIDE DEF q, c, d, v, w
    <3>12. e(v) = 4 + (q + (j \div 2)) /\ b(v) = k - 1 /\ t(v) = TimeDownFrom(Levels - k)
      BY <2>4, <3>6, <3>8, <3>9, <3>10, <3>11
    <3> QED
      BY <3>12, Zenon DEF C, q, v
  <2>6. CASE j = 0
    <3> DEFINE m == k - 1
               p == (m - 1) * StageLen
               l == StageLen - 1
    <3>1. k # 1
      BY <1>1, <2>1, <2>2, <2>6
    <3>2. /\ m \in 1 .. Levels /\ m # Levels /\ m \in Nat /\ m - 1 \in Nat /\ k = m + 1
          /\ Levels - m \in Nat /\ Levels - 1 - m \in Nat
      BY <1>1, <2>4, <3>1
    <3>3. p \in Nat /\ (k - 1) * StageLen = p + StageLen
      BY <1>1, <2>4, <3>2
    <3>4. n = p + l /\ l \in 0 .. (StageLen - 1) /\ n + 1 = p + StageLen
          /\ StageLen \in 1 .. StageLen
      <4> DEFINE y == (k - 1) * StageLen
      <4>1. y = p + StageLen /\ n + 1 = y + j
        BY <2>2, <3>3
      <4> HIDE DEF y, p
      <4> QED
        BY <1>1, <2>1, <2>6, <3>3, <4>1
    <3>5. C(m, l, w)
      <4> HIDE DEF m, l
      <4> QED
        BY <2>1, <3>2, <3>4, Zenon DEF T, w
    <3>6. net[v] = <<UpOf(m), TRUE>>
      <4> HIDE DEF m
      <4>1. net[6 + ((m - 1) * StageLen + StageLen)] = LayerAt(m, StageLen)
        BY <3>2, <3>4, DecoderAt DEF net
      <4> QED
        BY <3>2, <3>4, <4>1, Zenon DEF LayerAt, v
    <3>7. v \in 1 .. N
      <4>1. p + StageLen <= Levels * StageLen /\ Levels * StageLen \in Nat
        <5>1. (Levels - m) * StageLen \in Nat
          BY <1>1, <3>2
        <5>2. Levels * StageLen = (p + StageLen) + (Levels - m) * StageLen
          BY <1>1, <2>4
        <5> DEFINE y == Levels * StageLen
                   z == (Levels - m) * StageLen
        <5>3. y = (p + StageLen) + z /\ z \in Nat
          BY <5>1, <5>2
        <5> HIDE DEF y, z, p
        <5>4. p + StageLen <= y /\ y \in Nat
          BY <1>1, <3>3, <5>3
        <5> QED
          BY <5>4 DEF y
      <4> DEFINE y == Levels * StageLen
      <4>2. N = 6 + y /\ p + StageLen <= y /\ y \in Nat
        BY <1>2, <4>1
      <4> HIDE DEF y, p, N
      <4> QED
        BY <1>1, <2>1, <3>3, <3>4, <4>2
    <3>8. /\ e(v) = e(w) + 1 /\ b(v) = b(w) + 1
          /\ t(v) = t(w) + IF Levels - 1 - m \in TimeDown THEN 1 ELSE 0
      <4>1. net[v][1] = UpOf(m) /\ net[v][2] = TRUE
        BY <3>6
      <4>2. /\ UpOf(m) \in Doublings
            /\ UpOf(m) \in {"up3d"} <=> Levels - 1 - m \in TimeDown
        BY DEF Doublings, UpOf
      <4> HIDE DEF v, w, m
      <4> QED
        BY <1>4, <1>6, <2>3, <3>7, <4>1, <4>2, Zenon
    <3> DEFINE q == (m - 1) * ModulesPerStage
    <3>9. q \in Nat /\ (k - 1) * ModulesPerStage = q + ModulesPerStage
      BY <1>1, <2>4, <3>2
    <3>10. e(w) = 4 + (q + (l \div 2)) /\ b(w) = m - 1 /\ t(w) = TimeDownFrom(Levels - m)
      BY <3>5, Zenon DEF C
    <3>11. l \div 2 = ResBlocks + 1 /\ j \div 2 = 0
      BY <1>1, <2>6
    <3>12. /\ TimeDownFrom(Levels - 1 - m) = TimeDownFrom((Levels - 1 - m) + 1)
                + IF Levels - 1 - m \in TimeDown THEN 1 ELSE 0
           /\ (Levels - 1 - m) + 1 = Levels - m /\ Levels - 1 - m = Levels - k
      BY <1>1, <3>2, TimeDownSteps
    <3>13. t(v) = TimeDownFrom(Levels - k)
      BY <3>8, <3>10, <3>12, Zenon
    <3> HIDE DEF q, v, w, l, m
    <3>14. e(v) = 4 + ((q + ModulesPerStage) + (j \div 2)) /\ b(v) = k - 1
      BY <1>1, <3>2, <3>8, <3>9, <3>10, <3>11
    <3> QED
      BY <3>9, <3>13, <3>14, Zenon DEF C, v
  <2> QED
    BY <2>4, <2>5, <2>6
<1> HIDE DEF S
<1>13. S = Nat
  <2>1. S \in SUBSET Nat
    BY DEF S
  <2> QED
    BY <1>11, <1>12, <2>1, SetInduction
<1>14. ASSUME NEW k \in 1 .. Levels, NEW j \in 0 .. (StageLen - 1)
       PROVE  C(k, j, 6 + ((k - 1) * StageLen + j))
  <2> DEFINE n == (k - 1) * StageLen + j
  <2>1. n \in Nat
    <3>1. (k - 1) * StageLen \in Nat /\ j \in Nat
      BY <1>1
    <3> DEFINE y == (k - 1) * StageLen
    <3> HIDE DEF y
    <3> QED
      BY <3>1 DEF y
  <2>2. T(n)
    <3> HIDE DEF n, T
    <3> QED
      BY <1>13, <2>1 DEF S
  <2> QED
    BY <2>2, Zenon
<1> QED
  BY <1>4, <1>9, <1>10, <1>14, Zenon DEF net, e, b, t
-----------------------------------------------------------------------------
\* Features, stage by stage: as many of one kind as a stage has blocks, and all
\* but the last stage have one of another kind.
Staged(val, other) ==
  FlattenSeq([k \in 1 .. Levels |->
    Repeated(val[k], ResBlocks + 1) \o IF k = Levels THEN <<>> ELSE <<other[k]>>])

IsStaged(s, val, other) ==
  /\ Len(s) = Levels * ModulesPerStage - 1
  /\ \A k \in 1 .. Levels : \A j \in 1 .. ModulesPerStage :
       ~ (k = Levels /\ j = ModulesPerStage) =>
         s[(k - 1) * ModulesPerStage + j] = IF j = ModulesPerStage THEN other[k] ELSE val[k]

\* A list made stage by stage is where it should be.
LEMMA StagedAt ==
  ASSUME NEW D, NEW val \in [1 .. Levels -> D], NEW other \in [1 .. Levels -> D]
  PROVE  /\ Staged(val, other) \in Seq(D)
         /\ IsStaged(Staged(val, other), val, other)
<1> DEFINE n == ResBlocks + 1
           M == ModulesPerStage
           seqs == [k \in 1 .. Levels |->
                     Repeated(val[k], n) \o IF k = Levels THEN <<>> ELSE <<other[k]>>]
           s == FlattenSeq(seqs)
           L == Levels
           t == (L - 1) * M
<1>1. L \in Nat \ {0} /\ n \in Nat \ {0} /\ M = n + 1 /\ M \in Nat /\ L \in 1 .. L
  BY VaeAssumption DEF ModulesPerStage
<1>2. s = Staged(val, other)
  BY Zenon DEF Staged
<1>3. ASSUME NEW k \in 1 .. L
      PROVE  /\ seqs[k] \in Seq(D) /\ Len(seqs[k]) = n + IF k = L THEN 0 ELSE 1
             /\ \A j \in 1 .. n : seqs[k][j] = val[k]
             /\ k # L => seqs[k][n + 1] = other[k]
  <2> DEFINE a == Repeated(val[k], n)
             e == <<>>
             o == <<other[k]>>
             b == IF k = L THEN e ELSE o
  <2>1. seqs[k] = a \o b
    BY Zenon
  <2>2. a \in Seq(D) /\ Len(a) = n /\ \A j \in 1 .. n : a[j] = val[k]
    BY <1>1 DEF Repeated
  <2>3. e \in Seq(D) /\ Len(e) = 0
    OBVIOUS
  <2>4. o \in Seq(D) /\ Len(o) = 1 /\ o[1] = other[k]
    <3> DEFINE y == other[k]
    <3>1. y \in D
      OBVIOUS
    <3> HIDE DEF y
    <3>2. <<y>> \in Seq(D) /\ Len(<<y>>) = 1 /\ <<y>>[1] = y
      BY <3>1, OneLayer
    <3> QED
      BY <3>2 DEF y
  <2> HIDE DEF a, e, o, seqs, n
  <2>5. b \in Seq(D) /\ Len(b) = (IF k = L THEN 0 ELSE 1) /\ (k # L => b[1] = other[k])
    BY <2>3, <2>4
  <2> HIDE DEF b
  <2> DEFINE c == a \o b
  <2>6. c \in Seq(D) /\ IsConcat(c, a, b)
    BY <2>2, <2>5, Concat
  <2> HIDE DEF c
  <2>7. /\ Len(c) = Len(a) + Len(b) /\ \A j \in 1 .. Len(a) : c[j] = a[j]
        /\ \A j \in 1 .. Len(b) : c[Len(a) + j] = b[j]
    BY <2>6, Zenon DEF IsConcat
  <2>8. k # L => 1 \in 1 .. Len(b)
    BY <2>5
  <2>9. seqs[k] = c
    BY <2>1 DEF c
  <2> QED
    BY <2>2, <2>5, <2>6, <2>7, <2>8, <2>9, Zenon
<1>4. seqs \in Seq(Seq(D)) /\ Len(seqs) = L
  <2> DEFINE E == Seq(D)
  <2>1. \A k \in 1 .. L : seqs[k] \in E
    BY <1>3
  <2>2. seqs = [k \in 1 .. L |-> seqs[k]]
    BY Zenon
  <2> HIDE DEF E, seqs
  <2>3. seqs \in Seq(E) /\ Len(seqs) = L
    BY <1>1, <2>1, <2>2
  <2> QED
    BY <2>3, Zenon DEF E
<1> HIDE DEF seqs, n, M, s
<1>5. Len(seqs) # 0 /\ \A k \in 1 .. (Len(seqs) - 1) : Len(seqs[k]) = M
  <2>1. \A k \in 1 .. (L - 1) : k \in 1 .. L /\ k # L
    BY <1>1
  <2>2. \A k \in 1 .. (L - 1) : Len(seqs[k]) = n + 1
    BY <1>3, <2>1
  <2> QED
    BY <1>1, <1>4, <2>2
<1>6. s \in Seq(D) /\ Len(s) = t + Len(seqs[L]) /\ InPlaceOf(s, seqs, L, M)
  <2>1. /\ FlattenSeq(seqs) \in Seq(D)
        /\ Len(FlattenSeq(seqs)) = (Len(seqs) - 1) * M + Len(seqs[Len(seqs)])
        /\ InPlaceOf(FlattenSeq(seqs), seqs, Len(seqs), M)
    BY <1>1, <1>4, <1>5, FlattenEqual
  <2> QED
    BY <1>4, <2>1, Zenon DEF s
<1>7. Len(s) = L * M - 1
  <2>1. Len(seqs[L]) = n + 0
    BY <1>1, <1>3
  <2>2. t \in Nat /\ L * M = t + M
    BY <1>1
  <2>3. Len(s) = t + (n + 0)
    BY <1>6, <2>1, Zenon
  <2> DEFINE y == L * M
  <2> HIDE DEF t, y
  <2>4. Len(s) = y - 1
    BY <1>1, <2>2, <2>3 DEF y
  <2> QED
    BY <2>4 DEF y
<1>8. ASSUME NEW k \in 1 .. L, NEW j \in 1 .. M, ~ (k = L /\ j = M)
      PROVE  s[(k - 1) * M + j] = IF j = M THEN other[k] ELSE val[k]
  <2>1. j \in 1 .. Len(seqs[k])
    <3>1. Len(seqs[k]) = n + IF k = L THEN 0 ELSE 1
      BY <1>3
    <3> QED
      BY <1>1, <1>8, <3>1
  <2>2. s[(k - 1) * M + j] = seqs[k][j]
    BY <1>6, <2>1, Zenon DEF InPlaceOf
  <2>3. CASE j = M
    <3>1. k # L /\ j = n + 1
      BY <1>1, <1>8, <2>3
    <3> QED
      BY <1>3, <2>2, <2>3, <3>1, Zenon
  <2>4. CASE j # M
    <3>1. j \in 1 .. n
      BY <1>1, <2>4
    <3> QED
      BY <1>3, <2>2, <2>4, <3>1, Zenon
  <2> QED
    BY <2>3, <2>4
<1> QED
  BY <1>2, <1>6, <1>7, <1>8, Zenon DEF IsStaged, M, L

\* A feature of v1, for the modules of stage k.
FeatureOf(k) == [level |-> Levels - k, ff |-> 2 ^ (2 - TimeDownFrom(Levels - k))]
NumFeatures == 3 + Levels * ModulesPerStage

\* What is at these places, in features of either kind.
FeaturesAt(s, val) ==
  /\ Len(s) = NumFeatures /\ DOMAIN s = 1 .. NumFeatures
  /\ \A m \in 1 .. 4 : s[m] = val[1]
  /\ \A k \in 1 .. Levels : \A c \in 0 .. (ModulesPerStage - 1) :
       s[4 + ((k - 1) * ModulesPerStage + c)] = val[k]

\* v1 has the features of each stage in the order of the stages.
LEMMA FeaturesOfV1 ==
  FeaturesAt(ConditionEncoder3d, [k \in 1 .. Levels |-> FeatureOf(k)])
<1> DEFINE L == Levels
           M == ModulesPerStage
           val == [k \in 1 .. L |-> FeatureOf(k)]
           other == [k \in 1 .. L |-> IF k = L THEN FeatureOf(k) ELSE FeatureOf(k + 1)]
           D == {FeatureOf(k) : k \in 1 .. L}
           F(k) == [level |-> Levels - k,
                    ff |-> 2 ^ (2 - Cardinality({d \in TimeDown : d > Levels - 1 - k}))]
           Stage(k, n) == [m \in 1 .. n |-> F(k)]
           a == Stage(1, 4)
           b == Staged(val, other)
           s == a \o b
<1>1. /\ L \in Nat \ {0} /\ M \in Nat \ {0} /\ M = ResBlocks + 2 /\ 1 \in 1 .. L
      /\ \A d \in TimeDown : d \in Nat
  BY VaeAssumption DEF ModulesPerStage
<1>2. ASSUME NEW k \in 1 .. L PROVE F(k) = FeatureOf(k)
  <2>1. \A d \in TimeDown : d > Levels - 1 - k <=> d >= Levels - k
    BY <1>1
  <2>2. {d \in TimeDown : d > Levels - 1 - k} = {d \in TimeDown : d >= Levels - k}
    BY <2>1, Zenon
  <2> QED
    BY <2>2, Zenon DEF FeatureOf, TimeDownFrom
<1>3. ConditionEncoder3d
        = a \o FlattenSeq([k \in 1 .. L |->
                 Stage(k, ResBlocks + 1) \o IF k = L THEN <<>> ELSE Stage(k + 1, 1)])
  BY Zenon DEF ConditionEncoder3d
<1> HIDE DEF F
<1>4. ASSUME NEW k \in 1 .. L
      PROVE  (Stage(k, ResBlocks + 1) \o IF k = L THEN <<>> ELSE Stage(k + 1, 1))
               = Repeated(val[k], ResBlocks + 1) \o IF k = L THEN <<>> ELSE <<other[k]>>
  <2>1. Stage(k, ResBlocks + 1) = Repeated(val[k], ResBlocks + 1)
    BY <1>2, Zenon DEF Repeated
  <2>2. ASSUME k # L PROVE Stage(k + 1, 1) = <<other[k]>>
    <3>1. k + 1 \in 1 .. L
      BY <1>1, <2>2
    <3> DEFINE y == FeatureOf(k + 1)
    <3>2. Stage(k + 1, 1) = [m \in 1 .. 1 |-> y]
      BY <1>2, <3>1, Zenon
    <3>3. other[k] = y
      BY <2>2, Zenon
    <3> HIDE DEF y, other, Stage
    <3>4. [m \in 1 .. 1 |-> y] = <<y>>
      OBVIOUS
    <3> QED
      BY <3>2, <3>3, <3>4, Zenon
  <2> HIDE DEF Stage, val, other
  <2> QED
    BY <2>1, <2>2, Zenon
<1>5. ConditionEncoder3d = s
  <2> HIDE DEF Stage, val, other
  <2>1. FlattenSeq([k \in 1 .. L |->
                 Stage(k, ResBlocks + 1) \o IF k = L THEN <<>> ELSE Stage(k + 1, 1)]) = b
    BY <1>4, Zenon DEF Staged
  <2> QED
    BY <1>3, <2>1, Zenon
<1>6. val \in [1 .. L -> D] /\ other \in [1 .. L -> D]
  <2>1. \A k \in 1 .. L : k # L => k + 1 \in 1 .. L
    BY <1>1
  <2> QED
    BY <2>1
<1>7. /\ \A k \in 1 .. L : val[k] = FeatureOf(k)
      /\ \A k \in 1 .. L : k # L => other[k] = FeatureOf(k + 1)
  OBVIOUS
<1>8. a \in Seq(D) /\ Len(a) = 4 /\ \A m \in 1 .. 4 : a[m] = FeatureOf(1)
  <2>1. a = [m \in 1 .. 4 |-> FeatureOf(1)] /\ FeatureOf(1) \in D
    BY <1>1, <1>2, Zenon
  <2> HIDE DEF a, D
  <2> QED
    BY <2>1
<1> HIDE DEF val, other, D, a, b, M, L, Stage
<1>9. /\ b \in Seq(D) /\ Len(b) = L * M - 1
      /\ \A k \in 1 .. L : \A j \in 1 .. M :
           ~ (k = L /\ j = M) => b[(k - 1) * M + j] = IF j = M THEN other[k] ELSE val[k]
  <2>1. val \in [1 .. Levels -> D] /\ other \in [1 .. Levels -> D]
    BY <1>6 DEF L
  <2>2. b \in Seq(D) /\ IsStaged(b, val, other)
    BY <2>1, StagedAt DEF b
  <2> QED
    BY <2>2, Zenon DEF IsStaged, L, M
<1>10. s \in Seq(D) /\ IsConcat(s, a, b)
  BY <1>8, <1>9, Concat
<1> HIDE DEF s
<1>11. /\ Len(s) = 4 + Len(b) /\ \A m \in 1 .. 4 : s[m] = a[m]
       /\ \A m \in 1 .. Len(b) : s[4 + m] = b[m]
  BY <1>8, <1>10, Zenon DEF IsConcat
<1>12. Len(s) = NumFeatures
  <2> DEFINE y == L * M
  <2>1. y \in Nat
    BY <1>1
  <2>2. Len(s) = 4 + (y - 1)
    BY <1>9, <1>11, Zenon
  <2> HIDE DEF y
  <2>3. Len(s) = 3 + y
    BY <2>1, <2>2
  <2> QED
    BY <2>3, Zenon DEF NumFeatures, y, L, M
<1>13. ASSUME NEW k \in 1 .. L, NEW c \in 0 .. (M - 1)
       PROVE  s[4 + ((k - 1) * M + c)] = FeatureOf(k)
  <2>1. k \in Nat \ {0} /\ k <= L /\ c \in Nat /\ c < M
    BY <1>1
  <2>2. CASE c > 0
    <3> DEFINE p == (k - 1) * M
    <3>1. p \in Nat /\ p + M <= L * M /\ L * M \in Nat
      <4>1. (L - k) * M \in Nat /\ p \in Nat /\ L * M = (p + M) + (L - k) * M
        BY <1>1, <2>1
      <4> DEFINE y == L * M
                 z == (L - k) * M
      <4>2. y = (p + M) + z /\ z \in Nat /\ p \in Nat
        BY <4>1
      <4> HIDE DEF y, z, p
      <4>3. p \in Nat /\ p + M <= y /\ y \in Nat
        BY <1>1, <4>2
      <4> QED
        BY <4>3 DEF y
    <3>2. c \in 1 .. M /\ c # M
      BY <1>1, <2>1, <2>2
    <3>3. b[p + c] = FeatureOf(k)
      BY <1>7, <1>9, <3>2, Zenon
    <3>4. p + c \in 1 .. Len(b)
      <4> DEFINE y == L * M
      <4>1. p \in Nat /\ p + M <= y /\ y \in Nat /\ Len(b) = y - 1
        BY <1>9, <3>1
      <4> HIDE DEF y, p
      <4> QED
        BY <1>1, <2>1, <2>2, <4>1
    <3> QED
      BY <1>11, <3>3, <3>4, Zenon
  <2>3. CASE c = 0 /\ k = 1
    <3>1. 4 + ((k - 1) * M + c) = 4 /\ 4 \in 1 .. 4
      BY <1>1, <2>3
    <3> QED
      BY <1>8, <1>11, <2>3, <3>1, Zenon
  <2>4. CASE c = 0 /\ k # 1
    <3> DEFINE l == k - 1
               p == (l - 1) * M
    <3>1. l \in 1 .. L /\ l # L /\ l + 1 = k /\ l \in Nat /\ M \in 1 .. M
      BY <1>1, <2>1, <2>4
    <3>2. p \in Nat /\ (k - 1) * M = p + M
      BY <1>1, <3>1
    <3>3. p + M <= L * M - 1 /\ L * M \in Nat
      <4>1. (L - l) * M \in Nat /\ L * M = (p + M) + (L - l) * M /\ L * M \in Nat
        BY <1>1, <3>1
      <4>2. (L - l) * M >= M
        <5> DEFINE y == L - l - 1
        <5>1. y \in Nat /\ (L - l) * M = y * M + M
          BY <1>1, <3>1
        <5>2. y * M \in Nat
          BY <1>1, <5>1
        <5> DEFINE z == y * M
        <5> HIDE DEF z
        <5>3. z + M >= M
          BY <1>1, <5>2 DEF z
        <5> QED
          BY <5>1, <5>3 DEF z
      <4> DEFINE y == L * M
                 z == (L - l) * M
      <4>3. y = (p + M) + z /\ z \in Nat /\ z >= M /\ y \in Nat
        BY <4>1, <4>2
      <4> HIDE DEF y, z, p
      <4>4. p + M <= y - 1 /\ y \in Nat
        BY <1>1, <3>2, <4>3
      <4> QED
        BY <4>4 DEF y
    <3> HIDE DEF l
    <3>4. b[p + M] = FeatureOf(k)
      BY <1>7, <1>9, <3>1, Zenon
    <3>5. p + M \in 1 .. Len(b) /\ (k - 1) * M + c = p + M
      <4> DEFINE y == L * M
                 z == (k - 1) * M
      <4>1. p \in Nat /\ p + M <= y - 1 /\ y \in Nat /\ Len(b) = y - 1 /\ z = p + M
        BY <1>9, <3>2, <3>3
      <4> HIDE DEF y, p, z
      <4>2. p + M \in 1 .. Len(b) /\ z + c = p + M
        BY <1>1, <2>4, <4>1
      <4> QED
        BY <4>2 DEF z
    <3> QED
      BY <1>11, <3>4, <3>5, Zenon
  <2> QED
    BY <2>1, <2>2, <2>3, <2>4
<1>14. \A m \in 1 .. 4 : s[m] = FeatureOf(1)
  BY <1>8, <1>11, Zenon
<1>15. DOMAIN s = 1 .. NumFeatures
  <2>1. DOMAIN s = 1 .. Len(s)
    BY <1>10
  <2> QED
    BY <1>12, <2>1, Zenon
<1> QED
  BY <1>1, <1>5, <1>7, <1>12, <1>13, <1>14, <1>15, Zenon DEF FeaturesAt, val, L, M

\* v2 has its features from the last one back, which is in the same order.
LEMMA FeaturesOfV2 ==
  FeaturesAt(CondFeatures, [k \in 1 .. Levels |-> Levels - k]) /\ CondFeatures \in Seq(Nat)
<1> DEFINE L == Levels
           M == ModulesPerStage
           val == [k \in 1 .. L |-> k - 1]
           D == Nat
           a == Staged(val, val)
           o == <<L - 1>>
           e == Repeated(L - 1, 3)
           ao == a \o o
           s == ao \o e
           N == L * M
           r == CondFeatures
<1>1. /\ L \in Nat \ {0} /\ M \in Nat \ {0} /\ M = ResBlocks + 2 /\ 1 \in 1 .. L
      /\ L - 1 \in D
  BY VaeAssumption DEF ModulesPerStage
<1>2. ConditionEncoderSymmetric.down = a /\ ConditionEncoderSymmetric.middle = e
  <2> DEFINE d == FlattenSeq([k \in 1 .. L |->
                    Repeated(k - 1, ResBlocks + 1) \o IF k = L THEN <<>> ELSE <<k - 1>>])
  <2>1. d = a
    BY Zenon DEF Staged
  <2>2. ConditionEncoderSymmetric = [down |-> d, middle |-> e]
    BY Zenon DEF ConditionEncoderSymmetric
  <2> HIDE DEF d, e, a
  <2> QED
    BY <2>1, <2>2
<1>3. r = Reverse(s)
  BY <1>2, Zenon DEF CondFeatures
<1>4. val \in [1 .. Levels -> D]
  BY <1>1
<1>5. \A k \in 1 .. L : val[k] = k - 1
  OBVIOUS
<1>6. e \in Seq(D) /\ Len(e) = 3 /\ \A m \in 1 .. 3 : e[m] = L - 1
  BY <1>1 DEF Repeated
<1>7. o \in Seq(D) /\ Len(o) = 1 /\ o[1] = L - 1
  BY <1>1, OneLayer
<1> HIDE DEF val, D
<1>8. /\ a \in Seq(D) /\ Len(a) = N - 1
      /\ \A k \in 1 .. L : \A j \in 1 .. M :
           ~ (k = L /\ j = M) => a[(k - 1) * M + j] = IF j = M THEN val[k] ELSE val[k]
  <2>2. Staged(val, val) \in Seq(D) /\ IsStaged(Staged(val, val), val, val)
    BY <1>4, StagedAt
  <2> QED
    BY <2>2, Zenon DEF IsStaged
<1> HIDE DEF a, o, e, ao, s, r, L, M
<1>9. N \in Nat
  BY <1>1
<1> HIDE DEF N
<1>10. ao \in Seq(D) /\ IsConcat(ao, a, o)
  BY <1>7, <1>8, Concat DEF ao
<1>11. s \in Seq(D) /\ IsConcat(s, ao, e)
  BY <1>6, <1>10, Concat DEF s
<1>12. /\ Len(ao) = Len(a) + 1 /\ \A m \in 1 .. Len(a) : ao[m] = a[m]
       /\ \A m \in 1 .. 1 : ao[Len(a) + m] = o[m]
  BY <1>7, <1>10, Zenon DEF IsConcat
<1>13. /\ Len(s) = Len(ao) + 3 /\ \A m \in 1 .. Len(ao) : s[m] = ao[m]
       /\ \A m \in 1 .. 3 : s[Len(ao) + m] = e[m]
  BY <1>6, <1>11, Zenon DEF IsConcat
<1>14. Len(a) = N - 1 /\ Len(ao) = N /\ Len(s) = N + 3
  BY <1>8, <1>9, <1>12, <1>13
<1>15. r = [m \in 1 .. Len(s) |-> s[(Len(s) - m) + 1]]
  BY <1>3, Zenon DEF Reverse
<1>16. ASSUME NEW m \in 1 .. 4 PROVE r[m] = L - 1
  <2>1. m \in 1 .. Len(s) /\ m \in {1, 2, 3, 4}
    BY <1>9, <1>14
  <2> DEFINE p == (Len(s) - m) + 1
  <2>2. r[m] = s[p]
    BY <1>15, <2>1, Zenon
  <2>3. CASE m = 4
    <3>1. (p = N /\ p \in 1 .. Len(ao)) \/ N = 0
      BY <1>9, <1>14, <2>3
    <3>2. N # 0
      <4> DEFINE y == (L - 1) * M
      <4>1. y \in Nat /\ N = y + M
        BY <1>1 DEF N
      <4> HIDE DEF y
      <4> QED
        BY <1>1, <4>1
    <3>3. p = Len(a) + 1 /\ 1 \in 1 .. 1
      BY <1>9, <1>14, <2>3
    <3> QED
      BY <1>7, <1>12, <1>13, <2>2, <3>1, <3>2, <3>3, Zenon
  <2>4. CASE m # 4
    <3> DEFINE q == 4 - m
    <3>1. q \in 1 .. 3 /\ p = Len(ao) + q
      BY <1>9, <1>14, <2>1, <2>4
    <3> QED
      BY <1>6, <1>13, <2>2, <3>1, Zenon
  <2> QED
    BY <2>3, <2>4
<1>17. ASSUME NEW k \in 1 .. L, NEW c \in 0 .. (M - 1)
       PROVE  /\ r[4 + ((k - 1) * M + c)] = L - k
              /\ 4 + ((k - 1) * M + c) \in 1 .. Len(s)
  <2> DEFINE z == (k - 1) * M
             h == (L + 1) - k
             y == (h - 1) * M
             j == M - c
             m == 4 + (z + c)
             p == (Len(s) - m) + 1
  <2>1. /\ k \in Nat \ {0} /\ k <= L /\ h \in 1 .. L /\ j \in 1 .. M /\ h - 1 = L - k
        /\ c \in Nat /\ c < M /\ h - 1 \in Nat /\ k - 1 \in Nat
    BY <1>1
  <2>2. z \in Nat /\ y \in Nat /\ N = z + (y + M)
    <3>1. z \in Nat /\ y \in Nat
      BY <1>1, <2>1
    <3>2. N = z + (y + M)
      BY <1>1 DEF N
    <3> QED
      BY <3>1, <3>2
  <2> HIDE DEF z, y
  <2>3. m \in 1 .. Len(s) /\ p = y + j
    <3>1. Len(s) = (z + (y + M)) + 3
      BY <1>14, <2>2, Zenon
    <3>2. j = M - c /\ m = 4 + (z + c) /\ p = (Len(s) - m) + 1
      BY Zenon
    <3>3. M \in Nat /\ c \in Nat /\ c < M /\ z \in Nat /\ y \in Nat
      BY <1>1, <2>1, <2>2
    <3> DEFINE l == Len(s)
    <3>4. l = (z + (y + M)) + 3 /\ p = (l - m) + 1
      BY <3>1, <3>2, Zenon
    <3> HIDE DEF p, j, m, h, l
    <3>5. m \in 1 .. l /\ p = y + j
      BY <3>2, <3>3, <3>4
    <3> QED
      BY <3>5, Zenon DEF l
  <2>4. r[m] = s[p]
    BY <1>15, <2>3, Zenon
  <2>5. CASE ~ (h = L /\ j = M)
    <3>1. a[y + j] = val[h]
      BY <1>8, <2>1, <2>5, Zenon DEF y
    <3>2. y + j \in 1 .. Len(a)
      <4>1. k = 1 => c # 0 /\ z = 0
        <5>1. k = 1 => z = 0
          BY <1>1 DEF z
        <5> QED
          BY <1>1, <2>1, <2>5, <5>1
      <4>2. k # 1 => z >= M
        <5>1. k # 1 => z = (k - 2) * M + M /\ (k - 2) * M \in Nat
          BY <1>1, <2>1 DEF z
        <5> DEFINE d == (k - 2) * M
        <5>2. k # 1 => z = d + M /\ d \in Nat
          BY <5>1
        <5> HIDE DEF d
        <5> QED
          BY <1>1, <5>2
      <4>3. Len(a) = (z + (y + M)) - 1
        BY <1>14, <2>2, Zenon
      <4>4. M \in Nat /\ c \in Nat /\ c < M /\ z \in Nat /\ y \in Nat /\ y + j = y + (M - c)
        BY <1>1, <2>1, <2>2
      <4>5. z >= M \/ (z = 0 /\ c # 0)
        BY <4>1, <4>2, Zenon
      <4> HIDE DEF j
      <4> QED
        BY <4>3, <4>4, <4>5
    <3>3. y + j \in 1 .. Len(ao)
      BY <1>9, <1>14, <3>2
    <3> QED
      BY <1>5, <1>12, <1>13, <2>1, <2>3, <2>4, <3>1, <3>2, <3>3, Zenon DEF z, m
  <2>6. CASE h = L /\ j = M
    <3>1. k = 1 /\ c = 0 /\ z = 0
      <4>1. k = 1 /\ c = 0
        BY <1>1, <2>1, <2>6
      <4> QED
        BY <1>1, <4>1 DEF z
    <3>2. m = 4
      BY <3>1
    <3>3. 4 \in 1 .. 4
      OBVIOUS
    <3> HIDE DEF m
    <3>4. r[m] = L - k
      BY <1>16, <3>1, <3>2, <3>3, Zenon
    <3> QED
      BY <2>3, <3>4, Zenon DEF m, z
  <2> QED
    BY <2>5, <2>6
<1>18. Len(s) = NumFeatures /\ Len(r) = Len(s)
  <2>1. Len(s) = 3 + N
    BY <1>9, <1>14
  <2>2. r = [m \in 1 .. Len(s) |-> r[m]]
    BY <1>15, Zenon
  <2>3. Len(s) \in Nat
    BY <1>9, <1>14
  <2>4. Len(r) = Len(s)
    BY <2>2, <2>3, LengthOf
  <2> QED
    BY <2>1, <2>4, Zenon DEF NumFeatures, N, L, M
<1>19. r \in Seq(Nat)
  <2>1. \A m \in 1 .. Len(s) : s[(Len(s) - m) + 1] \in Nat
    <3>1. \A m \in 1 .. Len(s) : (Len(s) - m) + 1 \in 1 .. Len(s)
      BY <1>9, <1>14
    <3> QED
      BY <1>11, <3>1, ElementOfSeq DEF D
  <2>2. Len(s) \in Nat
    BY <1>9, <1>14
  <2> QED
    BY <1>15, <2>1, <2>2
<1>20. FeaturesAt(r, [k \in 1 .. L |-> L - k])
  <2> DEFINE f == [k \in 1 .. L |-> L - k]
  <2>1. \A k \in 1 .. L : f[k] = L - k
    BY Zenon
  <2> HIDE DEF f
  <2>2. Len(r) = NumFeatures /\ DOMAIN r = 1 .. NumFeatures
    BY <1>15, <1>18, Zenon
  <2> QED
    BY <1>1, <1>16, <1>17, <2>1, <2>2, Zenon DEF FeaturesAt, L, M
<1> QED
  BY <1>19, <1>20, Zenon DEF r, L

\* Every layer from the middle on, but the last, is somewhere in a stage.
LEMMA LayerIsPlaced ==
  ASSUME NEW v \in 6 .. (Len(Decoder3d) - 1)
  PROVE  \E k \in 1 .. Levels : \E j \in 0 .. (StageLen - 1) :
           v = 6 + ((k - 1) * StageLen + j)
<1> DEFINE W(n) == \E k \in Nat \ {0} : \E j \in 0 .. (StageLen - 1) :
                     n = (k - 1) * StageLen + j
           S == {n \in Nat : W(n)}
<1>1. Levels \in Nat \ {0} /\ StageLen \in Nat \ {0}
  BY VaeAssumption DEF StageLen
<1>2. 0 \in S
  <2>1. 0 = (1 - 1) * StageLen + 0 /\ 1 \in Nat \ {0} /\ 0 \in 0 .. (StageLen - 1)
    BY <1>1
  <2> QED
    BY <2>1
<1>3. ASSUME NEW n \in S PROVE n + 1 \in S
  <2>1. PICK k \in Nat \ {0}, j \in 0 .. (StageLen - 1) : n = (k - 1) * StageLen + j
    OBVIOUS
  <2>2. k - 1 \in Nat /\ (k - 1) * StageLen \in Nat /\ n \in Nat
    BY <1>1
  <2> DEFINE y == (k - 1) * StageLen
  <2>3. CASE j + 1 = StageLen
    <3>1. ((k + 1) - 1) * StageLen = y + StageLen
      BY <1>1
    <3> DEFINE z == ((k + 1) - 1) * StageLen
    <3>2. z = y + StageLen /\ n = y + j /\ y \in Nat
      BY <2>1, <2>2, <3>1
    <3> HIDE DEF y, z
    <3>3. n + 1 = z + 0 /\ 0 \in 0 .. (StageLen - 1) /\ k + 1 \in Nat \ {0}
      BY <1>1, <2>3, <3>2
    <3>4. W(n + 1)
      BY <3>3, Zenon DEF z
    <3> QED
      BY <2>2, <3>4
  <2>4. CASE j + 1 # StageLen
    <3>1. n = y + j /\ y \in Nat
      BY <2>1, <2>2
    <3> HIDE DEF y
    <3>2. n + 1 = y + (j + 1) /\ j + 1 \in 0 .. (StageLen - 1)
      BY <1>1, <2>4, <3>1
    <3>3. W(n + 1)
      BY <3>2, Zenon DEF y
    <3> QED
      BY <2>2, <3>3
  <2> QED
    BY <2>3, <2>4
<1>4. S = Nat
  <2> HIDE DEF W
  <2>1. S \in SUBSET Nat
    OBVIOUS
  <2> HIDE DEF S
  <2> QED
    BY <1>2, <1>3, <2>1, SetInduction
<1> DEFINE n == v - 6
           t == Levels * StageLen
<1>5. t \in Nat /\ Len(Decoder3d) = 6 + t
  BY <1>1, DecoderAt
<1>6. n \in Nat /\ v = 6 + n /\ n < t
  <2> DEFINE l == Len(Decoder3d)
  <2>1. l = 6 + t /\ v \in 6 .. (l - 1)
    BY <1>5
  <2> HIDE DEF l, t
  <2> QED
    BY <1>5, <2>1
<1>7. W(n)
  <2> HIDE DEF W, n
  <2> QED
    BY <1>4, <1>6
<1>8. PICK k \in Nat \ {0}, j \in 0 .. (StageLen - 1) : n = (k - 1) * StageLen + j
  BY <1>7, Zenon
<1>9. k <= Levels
  <2>1. SUFFICES ASSUME k > Levels PROVE FALSE
    BY <1>1
  <2> DEFINE e == (k - 1) - Levels
  <2>2. e \in Nat /\ k - 1 = Levels + e /\ k - 1 \in Nat
    BY <1>1, <2>1
  <2>3. (k - 1) * StageLen = t + e * StageLen /\ e * StageLen \in Nat
    BY <1>1, <2>2
  <2> DEFINE y == (k - 1) * StageLen
             z == e * StageLen
  <2>4. y = t + z /\ z \in Nat /\ n = y + j
    BY <1>8, <2>3
  <2> HIDE DEF y, z, t, n
  <2> QED
    BY <1>1, <1>5, <1>6, <2>4
<1>10. k \in 1 .. Levels
  BY <1>1, <1>9
<1> QED
  BY <1>6, <1>8, <1>10, Zenon

\* There is a feature for every module of the decoder, of its level and with
\* its share of the frames.
LEMMA EndsHaveFeatures ==
  /\ EndsUpTo(Decoder3d, Len(Decoder3d)) = NumFeatures
  /\ \A v \in 1 .. Len(Decoder3d) :
       /\ DoublingsAfter(v) \in 0 .. 2
       /\ Decoder3d[v][2] =>
            /\ EndsUpTo(Decoder3d, v) \in 1 .. NumFeatures
            /\ LevelAfter(v) \in Nat
            /\ ConditionEncoder3d[EndsUpTo(Decoder3d, v)]
                 = [level |-> LevelAfter(v), ff |-> 2 ^ DoublingsAfter(v)]
            /\ CondFeatures[EndsUpTo(Decoder3d, v)] = LevelAfter(v)
<1> DEFINE net == Decoder3d
           N == Len(net)
           e(v) == EndsUpTo(net, v)
           M == ModulesPerStage
           F(v) == /\ e(v) \in 1 .. NumFeatures
                   /\ LevelAfter(v) \in Nat
                   /\ ConditionEncoder3d[e(v)]
                        = [level |-> LevelAfter(v), ff |-> 2 ^ DoublingsAfter(v)]
                   /\ CondFeatures[e(v)] = LevelAfter(v)
<1>1. /\ Levels \in Nat \ {0} /\ M \in Nat \ {0} /\ StageLen \in Nat /\ StageLen = 2 * M - 1
      /\ StageLen \in Nat \ {0}
  BY VaeAssumption DEF StageLen, ModulesPerStage
<1> DEFINE t == Levels * StageLen
           q == Levels * M
           D == Kinds \X BOOLEAN
<1>2. /\ net \in Seq(D) /\ N = 6 + t /\ N \in Nat /\ t \in Nat /\ q \in Nat
      /\ NumFeatures = 3 + q /\ q >= M
  <2>1. net \in Seq(D) /\ N = 6 + t
    BY DecoderAt, Zenon DEF LayersOf
  <2>2. t \in Nat /\ q \in Nat /\ NumFeatures = 3 + q
    BY <1>1 DEF NumFeatures
  <2>3. q = (Levels - 1) * M + M /\ (Levels - 1) * M \in Nat
    BY <1>1
  <2> DEFINE z == (Levels - 1) * M
  <2>4. q = z + M /\ z \in Nat
    BY <2>3
  <2> HIDE DEF z, q, t, N
  <2> QED
    BY <1>1, <2>1, <2>2, <2>4
<1>3. /\ \A v \in 1 .. N : e(v) = e(v - 1) + IF net[v][2] THEN 1 ELSE 0
      /\ \A v, w \in 0 .. N : e(v) \in Nat /\ (v <= w => e(v) <= e(w))
  BY <1>2, EndsSteps
<1>4. ASSUME NEW m \in 1 .. 4
      PROVE  ConditionEncoder3d[m] = FeatureOf(1) /\ CondFeatures[m] = Levels - 1
  <2> DEFINE f == [k \in 1 .. Levels |-> FeatureOf(k)]
             g == [k \in 1 .. Levels |-> Levels - k]
  <2>1. f[1] = FeatureOf(1) /\ g[1] = Levels - 1
    BY <1>1
  <2> HIDE DEF f, g
  <2>2. FeaturesAt(ConditionEncoder3d, f) /\ FeaturesAt(CondFeatures, g)
    BY FeaturesOfV1, FeaturesOfV2 DEF f, g
  <2> QED
    BY <2>1, <2>2, Zenon DEF FeaturesAt
<1>5. ASSUME NEW k \in 1 .. Levels, NEW c \in 0 .. (M - 1)
      PROVE  /\ ConditionEncoder3d[4 + ((k - 1) * M + c)] = FeatureOf(k)
             /\ CondFeatures[4 + ((k - 1) * M + c)] = Levels - k
  <2> DEFINE f == [n \in 1 .. Levels |-> FeatureOf(n)]
             g == [n \in 1 .. Levels |-> Levels - n]
  <2>1. f[k] = FeatureOf(k) /\ g[k] = Levels - k
    OBVIOUS
  <2> HIDE DEF f, g
  <2>2. FeaturesAt(ConditionEncoder3d, f) /\ FeaturesAt(CondFeatures, g)
    BY FeaturesOfV1, FeaturesOfV2 DEF f, g
  <2> QED
    BY <2>1, <2>2, Zenon DEF FeaturesAt
<1> HIDE DEF e, net, D, N, t, q
<1>6. ASSUME NEW v \in 1 .. 6
      PROVE  DoublingsAfter(v) \in 0 .. 2 /\ (net[v][2] => F(v))
  <2>1. v \in 1 .. N /\ v \in 0 .. N /\ 6 \in 0 .. N /\ v \in 0 .. 6 /\ v - 1 \in 0 .. N /\ v <= 6
    BY <1>2
  <2>2. LevelAfter(v) = Levels - 1 /\ DoublingsAfter(v) = 2
    <3>1. Before(Decoder3d, v + 1, Doublings) = 0 /\ Before(Decoder3d, v + 1, {"up3d"}) = 0
      BY <2>1, DecoderCounted
    <3>2. LevelAfter(v) = Levels - 1 - 0 /\ DoublingsAfter(v) = 2 - 0
      BY <3>1, CondAssumption, Zenon DEF LevelAfter, DoublingsAfter
    <3> QED
      BY <1>1, <3>2
  <2>3. ASSUME net[v][2] PROVE e(v) \in 1 .. 4
    <3>1. e(v) = e(v - 1) + 1 /\ e(v - 1) \in Nat /\ e(v) <= e(6)
      BY <1>3, <2>1, <2>3
    <3>2. e(6) = 4
      <4>1. /\ 1 \in 1 .. Levels /\ 0 \in 0 .. (StageLen - 1)
            /\ 6 + ((1 - 1) * StageLen + 0) = 6
            /\ 4 + ((1 - 1) * ModulesPerStage + 0 \div 2) = 4
        BY <1>1
      <4>2. EndsUpTo(Decoder3d, 6 + ((1 - 1) * StageLen + 0))
              = 4 + ((1 - 1) * ModulesPerStage + 0 \div 2)
        BY <4>1, DecoderCounted
      <4> QED
        BY <4>1, <4>2, Zenon DEF e, net
    <3> QED
      BY <1>3, <2>1, <3>1, <3>2
  <2>4. FeatureOf(1) = [level |-> Levels - 1, ff |-> 2 ^ 2]
    <3>1. TimeDownFrom(Levels - 1) = 0 /\ 2 - 0 = 2
      BY TimeDownSteps
    <3> QED
      BY <3>1, Zenon DEF FeatureOf
  <2>5. \A m \in 1 .. 4 : m \in 1 .. NumFeatures
    BY <1>1, <1>2
  <2>6. Levels - 1 \in Nat /\ 2 \in 0 .. 2
    BY <1>1
  <2> HIDE DEF M
  <2>7. net[v][2] => F(v)
    BY <1>4, <2>2, <2>3, <2>4, <2>5, <2>6, Zenon
  <2> QED
    BY <2>2, <2>6, <2>7, Zenon
<1>7. ASSUME NEW v \in 6 .. (N - 1)
      PROVE  /\ DoublingsAfter(v) \in 0 .. 2 /\ F(v)
             /\ v = N - 1 => e(v) = NumFeatures
  <2>1. PICK k \in 1 .. Levels, j \in 0 .. (StageLen - 1) :
          v = 6 + ((k - 1) * StageLen + j)
    BY LayerIsPlaced, Zenon DEF N, net
  <2> DEFINE c == j \div 2
             p == (k - 1) * M
             s == (k - 1) * StageLen
  <2>2. c \in 0 .. (M - 1) /\ k \in Nat \ {0} /\ k <= Levels /\ j \in Nat
    BY <1>1
  <2>3. /\ e(v) = 4 + (p + c) /\ Before(Decoder3d, v + 1, Doublings) = k - 1
        /\ Before(Decoder3d, v + 1, {"up3d"}) = TimeDownFrom(Levels - k)
    BY <2>1, DecoderCounted DEF e, net
  <2>4. TimeDownFrom(Levels - k) \in 0 .. 2 /\ Levels - k \in Nat
    <3>1. Levels - k \in Nat
      BY <1>1, <2>2
    <3> QED
      BY <3>1, TimeDownSteps
  <2>5. LevelAfter(v) = Levels - k /\ DoublingsAfter(v) = 2 - TimeDownFrom(Levels - k)
    <3>1. LevelAfter(v) = Levels - 1 - (k - 1)
      BY <2>3, Zenon DEF LevelAfter
    <3>2. Levels - 1 - (k - 1) = Levels - k
      BY <1>1, <2>2
    <3> QED
      BY <2>3, <3>1, <3>2, CondAssumption, Zenon DEF DoublingsAfter
  <2>6. p \in Nat /\ s \in Nat /\ p + M <= q /\ (k = Levels => p + M = q)
    <3>1. (Levels - k) * M \in Nat /\ q = (p + M) + (Levels - k) * M /\ p \in Nat /\ s \in Nat
      BY <1>1, <2>2, <2>4 DEF q
    <3>2. k = Levels => (Levels - k) * M = 0
      BY <1>1
    <3> DEFINE z == (Levels - k) * M
    <3>3. z \in Nat /\ q = (p + M) + z /\ (k = Levels => z = 0)
      BY <3>1, <3>2
    <3> HIDE DEF z, p, s
    <3> QED
      BY <1>1, <1>2, <3>1, <3>3
  <2>7. v = N - 1 => k = Levels /\ j = StageLen - 1
    <3>1. (Levels - k) * StageLen \in Nat /\ t = (s + StageLen) + (Levels - k) * StageLen
      BY <1>1, <2>2, <2>4 DEF t
    <3>2. k # Levels => (Levels - k) * StageLen >= StageLen
      <4>1. k # Levels => (Levels - k) - 1 \in Nat
        BY <1>1, <2>2
      <4>2. k # Levels => /\ (Levels - k) * StageLen = ((Levels - k) - 1) * StageLen + StageLen
                          /\ ((Levels - k) - 1) * StageLen \in Nat
        BY <1>1, <2>2, <4>1
      <4> DEFINE z == (Levels - k) * StageLen
                 y == ((Levels - k) - 1) * StageLen
      <4>3. k # Levels => z = y + StageLen /\ y \in Nat
        BY <4>2
      <4> HIDE DEF z, y
      <4>4. k # Levels => z >= StageLen
        BY <1>1, <4>3
      <4> QED
        BY <4>4 DEF z
    <3> DEFINE z == (Levels - k) * StageLen
    <3>3. /\ z \in Nat /\ t = (s + StageLen) + z /\ (k # Levels => z >= StageLen)
          /\ v = 6 + (s + j)
      BY <2>1, <3>1, <3>2
    <3> HIDE DEF z, s
    <3> QED
      BY <1>1, <1>2, <2>2, <2>6, <3>3
  <2>8. e(v) \in 1 .. NumFeatures /\ (v = N - 1 => e(v) = NumFeatures)
    <3>1. j = StageLen - 1 => c = M - 1
      BY <1>1
    <3> HIDE DEF p, c, s
    <3> QED
      BY <1>1, <1>2, <2>2, <2>3, <2>6, <2>7, <3>1
  <2>9. ConditionEncoder3d[e(v)] = FeatureOf(k) /\ CondFeatures[e(v)] = Levels - k
    BY <1>5, <2>2, <2>3, Zenon
  <2>10. F(v)
    BY <2>4, <2>5, <2>8, <2>9, Zenon DEF FeatureOf
  <2>11. 2 - TimeDownFrom(Levels - k) \in 0 .. 2
    BY <2>4
  <2> QED
    BY <2>5, <2>8, <2>10, <2>11, Zenon
<1>8. ~ net[N][2] /\ e(N) = NumFeatures /\ DoublingsAfter(N) \in 0 .. 2
  <2>1. net[6 + ((Levels - 1) * StageLen + StageLen)] = LayerAt(Levels, StageLen)
    <3>1. Levels \in 1 .. Levels /\ StageLen \in 1 .. StageLen
      BY <1>1
    <3> QED
      BY <3>1, DecoderAt DEF net
  <2>2. t = (Levels - 1) * StageLen + StageLen
    BY <1>1 DEF t
  <2>3. net[N] = <<"conv", FALSE>>
    BY <1>2, <2>1, <2>2, Zenon DEF LayerAt
  <2>4. ~ net[N][2] /\ net[N][1] = "conv"
    BY <2>3
  <2> DEFINE w == N - 1
  <2>5. w \in 6 .. (N - 1) /\ w = N - 1 /\ N \in 1 .. N /\ w \in 0 .. N /\ N \in 1 .. Len(Decoder3d)
    <3>1. t = (Levels - 1) * StageLen + StageLen /\ (Levels - 1) * StageLen \in Nat
      BY <1>1, <2>2
    <3> DEFINE y == (Levels - 1) * StageLen
    <3> HIDE DEF y
    <3>2. t = y + StageLen /\ y \in Nat
      BY <3>1 DEF y
    <3>3. w \in 6 .. (N - 1) /\ w = N - 1 /\ N \in 1 .. N /\ w \in 0 .. N
      BY <1>1, <1>2, <3>2
    <3> QED
      BY <3>3 DEF N, net
  <2>6. e(w) = NumFeatures /\ DoublingsAfter(w) \in 0 .. 2
    BY <1>7, <2>5, Zenon
  <2>7. e(N) = e(w) + 0
    BY <1>3, <2>4, <2>5, Zenon
  <2>8. e(w) \in Nat
    BY <1>3, <2>5
  <2>9. Before(Decoder3d, N + 1, {"up3d"}) = Before(Decoder3d, N, {"up3d"}) + 0
    <3>1. \A v \in 1 .. Len(Decoder3d) :
            Before(Decoder3d, v + 1, {"up3d"})
              = Before(Decoder3d, v, {"up3d"}) + IF Decoder3d[v][1] \in {"up3d"} THEN 1 ELSE 0
      BY <1>2, BeforeSteps DEF net
    <3>2. "conv" \notin {"up3d"}
      OBVIOUS
    <3> QED
      BY <2>4, <2>5, <3>1, <3>2, Zenon DEF net
  <2>10. Before(Decoder3d, N, {"up3d"}) \in Nat
    <3>1. \A v \in 1 .. (Len(Decoder3d) + 1) : Before(Decoder3d, v, {"up3d"}) \in Nat
      BY <1>2, BeforeSteps DEF net
    <3> DEFINE l == Len(Decoder3d)
    <3>2. l = N
      BY Zenon DEF N, net
    <3> HIDE DEF l
    <3>3. N \in 1 .. (l + 1)
      BY <1>2, <3>2
    <3> QED
      BY <3>1, <3>3 DEF l
  <2>11. DoublingsAfter(N) = DoublingsAfter(w)
    <3>1. w + 1 = N
      BY <1>2
    <3>2. Before(Decoder3d, N + 1, {"up3d"}) = Before(Decoder3d, w + 1, {"up3d"})
      BY <2>9, <2>10, <3>1
    <3> QED
      BY <3>2, Zenon DEF DoublingsAfter
  <2> QED
    BY <2>4, <2>6, <2>7, <2>8, <2>11
<1>9. ASSUME NEW v \in 1 .. N
      PROVE  DoublingsAfter(v) \in 0 .. 2 /\ (net[v][2] => F(v))
  <2>1. v \in 1 .. 6 \/ v \in 6 .. (N - 1) \/ v = N
    BY <1>2
  <2> QED
    BY <1>6, <1>7, <1>8, <2>1, Zenon
<1> QED
  BY <1>8, <1>9, Zenon DEF N, net, e, F

\* The ends of the modules of a network are told apart by how many there are up
\* to them, and none is left out.
LEMMA EndsInOrder ==
  ASSUME NEW D, NEW net \in Seq(D)
  PROVE  /\ DOMAIN ModuleEnds(net) = 1 .. EndsUpTo(net, Len(net))
         /\ \A v \in 1 .. Len(net) : net[v][2] => ModuleEnds(net)[EndsUpTo(net, v)] = v
         /\ \A m \in 1 .. EndsUpTo(net, Len(net)) :
              \E v \in 1 .. Len(net) : net[v][2] /\ EndsUpTo(net, v) = m
<1> DEFINE n == Len(net)
           e(v) == EndsUpTo(net, v)
           W(v) == \A m \in 1 .. e(v) : \E w \in 1 .. n : net[w][2] /\ e(w) = m
           S == {v \in Nat : v <= n => W(v)}
<1>1. n \in Nat /\ DOMAIN net = 1 .. n
  OBVIOUS
<1>2. /\ e(0) = 0
      /\ \A v \in 1 .. n : e(v) = e(v - 1) + IF net[v][2] THEN 1 ELSE 0
      /\ \A v, w \in 0 .. n : e(v) \in Nat /\ (v <= w => e(v) <= e(w))
  BY EndsSteps
<1>3. ModuleEnds(net)
        = [m \in 1 .. e(n) |-> CHOOSE v \in DOMAIN net : net[v][2] /\ e(v) = m]
  BY Zenon DEF ModuleEnds
<1> HIDE DEF e, n
<1>4. ASSUME NEW v \in 1 .. n, NEW w \in 1 .. n, net[v][2], net[w][2], e(v) = e(w)
      PROVE  v = w
  <2>1. ASSUME NEW p \in 1 .. n, NEW q \in 1 .. n, p < q, net[q][2] PROVE e(p) # e(q)
    <3>1. p \in 0 .. n /\ q - 1 \in 0 .. n /\ p <= q - 1
      BY <1>1, <2>1
    <3>2. e(p) <= e(q - 1) /\ e(p) \in Nat /\ e(q - 1) \in Nat
      BY <1>2, <3>1
    <3>3. e(q) = e(q - 1) + 1
      BY <1>2, <2>1, Zenon
    <3> QED
      BY <3>2, <3>3
  <2>2. v < w \/ v = w \/ w < v
    BY <1>1
  <2> QED
    BY <1>4, <2>1, <2>2, Zenon
<1>5. ASSUME NEW v \in 1 .. n, net[v][2] PROVE ModuleEnds(net)[e(v)] = v
  <2>1. e(v) \in 1 .. e(n)
    <3>1. v \in 0 .. n /\ n \in 0 .. n /\ v <= n /\ v - 1 \in 0 .. n
      BY <1>1
    <3>2. e(v) = e(v - 1) + 1
      BY <1>2, <1>5, Zenon
    <3> QED
      BY <1>2, <3>1, <3>2
  <2> DEFINE P(w) == net[w][2] /\ e(w) = e(v)
  <2>2. ModuleEnds(net)[e(v)] = CHOOSE w \in DOMAIN net : P(w)
    BY <1>3, <2>1, Zenon
  <2>3. v \in DOMAIN net /\ P(v) /\ \A w \in DOMAIN net : P(w) => w = v
    BY <1>1, <1>4, <1>5, Zenon
  <2> HIDE DEF P
  <2>4. (CHOOSE w \in DOMAIN net : P(w)) = v
    BY <2>3, Zenon
  <2> QED
    BY <2>2, <2>4, Zenon
<1>6. 0 \in S
  <2>1. 1 .. e(0) = {}
    BY <1>2
  <2> QED
    BY <2>1
<1>7. ASSUME NEW v \in S PROVE v + 1 \in S
  <2>1. SUFFICES ASSUME v + 1 <= n PROVE W(v + 1)
    OBVIOUS
  <2>2. /\ v \in Nat /\ v + 1 \in 1 .. n /\ v \in 0 .. n /\ v + 1 \in 0 .. n
        /\ (v + 1) - 1 = v
    BY <1>1, <2>1
  <2>3. W(v)
    BY <2>1, <2>2
  <2>4. e(v + 1) = e(v) + (IF net[v + 1][2] THEN 1 ELSE 0) /\ e(v) \in Nat
    BY <1>2, <2>2
  <2> SUFFICES ASSUME NEW m \in 1 .. e(v + 1)
               PROVE  \E w \in 1 .. n : net[w][2] /\ e(w) = m
    OBVIOUS
  <2>5. m \in 1 .. e(v) \/ (net[v + 1][2] /\ m = e(v + 1))
    BY <2>4
  <2> QED
    BY <2>2, <2>3, <2>5, Zenon
<1>8. W(n)
  <2> HIDE DEF W
  <2>1. S \in SUBSET Nat
    OBVIOUS
  <2>2. 0 \in S /\ \A v \in S : v + 1 \in S
    BY <1>6, <1>7
  <2> HIDE DEF S
  <2>3. S = Nat
    BY <2>1, <2>2, SetInduction
  <2> QED
    BY <1>1, <2>3 DEF S
<1>9. DOMAIN ModuleEnds(net) = 1 .. e(n)
  BY <1>3, Zenon
<1> QED
  BY <1>5, <1>8, <1>9, Zenon DEF e, n

\* The convolutions of v2: each fits a feature to a module of its own level.
LEMMA ZeroConvsAt ==
  LET convs == _create_zero_convs(ModuleEnds(Decoder3d))
  IN  /\ Len(convs) = NumFeatures /\ DOMAIN convs = 1 .. NumFeatures
      /\ \A v \in 1 .. Len(Decoder3d) : Decoder3d[v][2] =>
           convs[EndsUpTo(Decoder3d, v)] = <<LevelAfter(v), LevelAfter(v)>>
      /\ \A m \in 1 .. NumFeatures :
           \E v \in 1 .. Len(Decoder3d) : Decoder3d[v][2] /\ EndsUpTo(Decoder3d, v) = m
<1> DEFINE net == Decoder3d
           ends == ModuleEnds(net)
           after == [k \in DOMAIN ends |-> LevelAfter(ends[k])]
           convs == _create_zero_convs(ends)
           D == Kinds \X BOOLEAN
           e(v) == EndsUpTo(net, v)
           n == NumFeatures
<1>1. net \in Seq(D)
  BY DecoderAt, Zenon DEF LayersOf
<1>2. /\ e(Len(net)) = n
      /\ \A v \in 1 .. Len(net) : net[v][2] => /\ e(v) \in 1 .. n
                                               /\ CondFeatures[e(v)] = LevelAfter(v)
  BY EndsHaveFeatures
<1>3. n \in Nat
  <2>1. Levels * ModulesPerStage \in Nat
    BY VaeAssumption DEF ModulesPerStage
  <2> QED
    BY <2>1 DEF NumFeatures
<1>4. /\ DOMAIN ends = 1 .. e(Len(net))
      /\ \A v \in 1 .. Len(net) : net[v][2] => ends[e(v)] = v
      /\ \A m \in 1 .. e(Len(net)) : \E v \in 1 .. Len(net) : net[v][2] /\ e(v) = m
  <2> HIDE DEF net, D
  <2> QED
    BY <1>1, EndsInOrder
<1>5. convs = Zip(CondFeatures, after)
  BY Zenon DEF _create_zero_convs
<1> HIDE DEF net, ends, e, n
<1>6. after = [k \in 1 .. n |-> LevelAfter(ends[k])] /\ Len(after) = n
  <2>1. after = [k \in 1 .. n |-> LevelAfter(ends[k])]
    BY <1>2, <1>4, Zenon
  <2>2. after = [k \in 1 .. n |-> after[k]]
    BY <2>1, Zenon
  <2> HIDE DEF after
  <2> QED
    BY <1>3, <2>1, <2>2, LengthOf
<1>7. Len(CondFeatures) = n
  BY FeaturesOfV2, Zenon DEF FeaturesAt, n
<1> HIDE DEF after, convs
<1>8. convs = [k \in 1 .. n |-> <<CondFeatures[k], after[k]>>]
  <2>1. (IF Len(CondFeatures) <= Len(after) THEN Len(CondFeatures) ELSE Len(after)) = n
    BY <1>6, <1>7
  <2> QED
    BY <1>5, <2>1, Zenon DEF Zip
<1>9. Len(convs) = n /\ DOMAIN convs = 1 .. n
  <2>1. convs = [k \in 1 .. n |-> convs[k]]
    BY <1>8, Zenon
  <2> QED
    BY <1>3, <2>1, LengthOf
<1>10. ASSUME NEW v \in 1 .. Len(net), net[v][2]
       PROVE  convs[e(v)] = <<LevelAfter(v), LevelAfter(v)>>
  <2>1. e(v) \in 1 .. n /\ CondFeatures[e(v)] = LevelAfter(v) /\ ends[e(v)] = v
    BY <1>2, <1>4, <1>10, Zenon
  <2>2. after[e(v)] = LevelAfter(v)
    BY <1>6, <2>1, Zenon
  <2> QED
    BY <1>8, <2>1, <2>2, Zenon
<1> QED
  BY <1>2, <1>4, <1>9, <1>10, Zenon DEF convs, net, e, n, ends

\* There is a convolution for every feature, and none is refused.
LEMMA ZeroConvsAreFitting ==
  ASSUME zero_convs = _create_zero_convs(ModuleEnds(Decoder3d))
  PROVE  ZeroConvsFit
<1>1. /\ Len(zero_convs) = NumFeatures /\ DOMAIN zero_convs = 1 .. NumFeatures
      /\ \A v \in 1 .. Len(Decoder3d) : Decoder3d[v][2] =>
           zero_convs[EndsUpTo(Decoder3d, v)] = <<LevelAfter(v), LevelAfter(v)>>
      /\ \A m \in 1 .. NumFeatures :
           \E v \in 1 .. Len(Decoder3d) : Decoder3d[v][2] /\ EndsUpTo(Decoder3d, v) = m
  BY ZeroConvsAt, Zenon
<1>2. Len(CondFeatures) = NumFeatures
  BY FeaturesOfV2, Zenon DEF FeaturesAt
<1>3. ASSUME NEW m \in 1 .. NumFeatures PROVE zero_convs[m][1] >= zero_convs[m][2]
  <2>1. PICK v \in 1 .. Len(Decoder3d) : Decoder3d[v][2] /\ EndsUpTo(Decoder3d, v) = m
    BY <1>1, Zenon
  <2> DEFINE l == LevelAfter(v)
  <2>2. l \in Nat
    BY <2>1, EndsHaveFeatures
  <2>3. zero_convs[m] = <<l, l>>
    BY <1>1, <2>1, Zenon
  <2> HIDE DEF l
  <2> QED
    BY <2>2, <2>3
<1> QED
  BY <1>1, <1>2, <1>3, Zenon DEF ZeroConvsFit

-----------------------------------------------------------------------------
\* How often frames are still to be doubled, and how many of a piece there are.
Rhythm(doubled, r) == \/ doubled = 2 /\ r = 1
                      \/ doubled = 1 /\ r = 2
                      \/ doubled = 0 /\ r = 4

\* The decoder doubles frames until there are four of each latent.
LEMMA DoublingsAndRate ==
  ASSUME NEW v \in 1 .. Len(Decoder3d)
  PROVE  Rhythm(DoublingsAfter(v), RateAt("decode", v + 1))
<1> DEFINE net == Decoder3d
           D == DecoderLayers \X BOOLEAN
           b == Before(net, v + 1, {"up3d"})
<1>1. net \in Seq(D)
  BY DecoderCounts, Zenon DEF LayersOf
<1>2. Network("decode") = net
  BY DEF Network
<1>3. v \in 1 .. Len(net) /\ DoublingsAfter(v) \in 0 .. 2
  BY EndsHaveFeatures
<1>4. DoublingsAfter(v) = 2 - b
  BY CondAssumption, Zenon DEF DoublingsAfter
<1> HIDE DEF net
<1>5. Len(net) \in Nat
  BY <1>1
<1>6. \A w \in 1 .. ((v + 1) - 1) : w \in 1 .. Len(net)
  BY <1>3, <1>5
<1>7. \A w \in 1 .. Len(net) : net[w][1] \in TimeLayers <=> net[w][1] \in {"up3d"}
  <2> SUFFICES ASSUME NEW w \in 1 .. Len(net)
               PROVE  net[w][1] \in TimeLayers <=> net[w][1] \in {"up3d"}
    OBVIOUS
  <2>1. net[w] \in D
    <3> HIDE DEF D
    <3> QED
      BY <1>1, ElementOfSeq
  <2>2. net[w][1] \in DecoderLayers
    BY <2>1
  <2> QED
    BY <2>2 DEF DecoderLayers, TimeLayers
<1>8. Changed("decode", v + 1) = b
  <2>1. {w \in 1 .. ((v + 1) - 1) : net[w][1] \in TimeLayers}
          = {w \in 1 .. ((v + 1) - 1) : net[w][1] \in {"up3d"}}
    BY <1>6, <1>7, Zenon
  <2> QED
    BY <1>2, <2>1, Zenon DEF Changed, Before
<1>9. b \in Nat
  <2>1. v + 1 \in 1 .. (Len(net) + 1)
    BY <1>3, <1>5
  <2> HIDE DEF D
  <2> QED
    BY <1>1, <2>1, BeforeSteps
<1> HIDE DEF b
<1>10. RateAt("decode", v + 1) = IF b = 0 THEN 1 ELSE IF b = 1 THEN 2 ELSE 4
  BY <1>8, Zenon DEF RateAt
<1> QED
  BY <1>3, <1>4, <1>9, <1>10 DEF Rhythm

\* A piece of the conditioning frames: the first frame, or four.
LEMMA PieceOfFour ==
  /\ PieceAt(4, 0) = [m \in 1 .. 1 |-> 0]
  /\ \A p \in Nat \ {0} : PieceAt(4, p) = [m \in 1 .. 4 |-> 4 * (p - 1) + m]
<1>1. PieceAt(4, 0) = [m \in 1 .. 1 |-> 0]
  <2>1. Given(4, 0) = 0 /\ Width(4, 0) = 1
    BY DEF Given, Width
  <2>2. \A m \in 1 .. 1 : 0 + m - 1 = 0
    OBVIOUS
  <2> QED
    BY <2>1, <2>2, Zenon DEF PieceAt, FramesFrom
<1>2. ASSUME NEW p \in Nat \ {0} PROVE PieceAt(4, p) = [m \in 1 .. 4 |-> 4 * (p - 1) + m]
  <2>1. Given(4, p) = 1 + 4 * (p - 1) /\ Width(4, p) = 4
    BY DEF Given, Width
  <2>2. \A m \in 1 .. 4 : (1 + 4 * (p - 1)) + m - 1 = 4 * (p - 1) + m
    OBVIOUS
  <2> QED
    BY <2>1, <2>2, Zenon DEF PieceAt, FramesFrom
<1> QED
  BY <1>1, <1>2

\* The frames that a frame of what a module made is conditioned by.
FrameOf(at, m) == IF Len(at) = 1 THEN at[1] ELSE at[m]

\* Small powers of two.
LEMMA Powers == 2 ^ 0 = 1 /\ 2 ^ 1 = 2 /\ 2 ^ 2 = 4
  OBVIOUS

\* v1 groups exactly the frames that one frame will cover.
LEMMA ShuffledFrames ==
  ASSUME NEW p \in Nat, NEW doubled, NEW r, Rhythm(doubled, r)
  PROVE  LET at == pixel_shuffle(PieceAt(4, p), 2 ^ doubled)
         IN  /\ Len(at) \in {1, Width(r, p)}
             /\ \A m \in 1 .. Width(r, p) :
                  ToSet(FrameOf(at, m)) = Covers(Given(r, p) + m - 1, doubled)
<1> DEFINE ff == 2 ^ doubled
           s == PieceAt(4, p)
           whole_piece == IF Len(s) = 1 THEN [m \in 1 .. ff |-> s[1]] ELSE s
           a == whole_piece
           at == pixel_shuffle(s, ff)
           g(m) == SubSeq(a, ff * (m - 1) + 1, ff * m)
<1>1. /\ doubled \in {0, 1, 2} /\ r \in {1, 2, 4} /\ ff \in {1, 2, 4}
      /\ doubled = 0 => ff = 1 /\ r = 4
      /\ doubled = 1 => ff = 2 /\ r = 2
      /\ doubled = 2 => ff = 4 /\ r = 1
  BY Powers DEF Rhythm
<1>2. at = [m \in 1 .. (Len(a) \div ff) |-> g(m)]
  BY Zenon DEF pixel_shuffle
<1> HIDE DEF ff, s, at
<1>3. CASE p = 0
  <2>1. s = [m \in 1 .. 1 |-> 0]
    BY <1>3, PieceOfFour DEF s
  <2>2. a = [m \in 1 .. ff |-> 0]
    BY <2>1
  <2>3. Len(a) = ff /\ Len(a) \div ff = 1
    BY <1>1, <2>2
  <2>4. ToSet(g(1)) = {0}
    <3> HIDE DEF a
    <3>1. g(1) = a
      <4>1. ff * (1 - 1) + 1 = 1 /\ ff * 1 = Len(a) /\ a \in Seq(Int)
        BY <1>1, <2>2, <2>3
      <4> QED
        BY <4>1, SubSeqFull
    <3>2. ToSet(a) = {0}
      BY <1>1, <2>2 DEF ToSet
    <3> QED
      BY <3>1, <3>2, Zenon
  <2> HIDE DEF a, g
  <2>5. Len(at) = 1 /\ at[1] = g(1)
    BY <1>2, <2>3
  <2>6. Width(r, p) = 1 /\ Given(r, p) = 0
    BY <1>3 DEF Width, Given
  <2>7. ASSUME NEW m \in 1 .. 1
        PROVE  ToSet(FrameOf(at, m)) = Covers(Given(r, p) + m - 1, doubled)
    <3>1. Given(r, p) + m - 1 = 0
      BY <2>6
    <3> QED
      BY <2>4, <2>5, <3>1, Zenon DEF FrameOf, Covers
  <2> QED
    BY <2>5, <2>6, <2>7, Zenon DEF at, s, ff
<1>4. CASE p # 0
  <2> DEFINE h == 4 * (p - 1)
  <2>1. s = [m \in 1 .. 4 |-> h + m]
    BY <1>4, PieceOfFour DEF s
  <2>2. a = s /\ Len(s) = 4
    BY <2>1
  <2>3. a = [m \in 1 .. 4 |-> h + m] /\ Len(a) \div ff = r
    <3> HIDE DEF a
    <3> QED
      BY <1>1, <2>1, <2>2
  <2>4. Width(r, p) = r /\ Given(r, p) = 1 + r * (p - 1)
    BY <1>4 DEF Width, Given
  <2>5. h \in Nat
    BY <1>4
  <2> HIDE DEF a, h
  <2>6. ASSUME NEW m \in 1 .. r
        PROVE  ToSet(g(m)) = (h + ff * (m - 1) + 1) .. (h + ff * m)
    <3> DEFINE c == ff * (m - 1)
    <3>1. c \in Nat /\ ff * m = c + ff /\ c + ff <= 4 /\ m \in Nat
      BY <1>1
    <3>2. g(m) = [k \in 1 .. ff |-> h + (c + k)]
      <4> DEFINE t == [k \in 1 .. ff |-> h + (c + k)]
                 q == (c + ff) - (c + 1) + 1
      <4>1. g(m) = SubSeq(a, c + 1, c + ff)
        BY <3>1, Zenon
      <4>2. c + 1 \in Nat \ {0} /\ c + ff \in Nat /\ q = ff /\ c + ff <= 4
        BY <1>1, <3>1
      <4>3. a \in Seq(Int) /\ Len(a) = 4 /\ \A k \in 1 .. 4 : a[k] = h + k
        BY <2>3, <2>5
      <4> HIDE DEF c, g
      <4>4. t \in Seq(Int) /\ Len(t) = ff
        BY <1>1, <2>5, <3>1
      <4>5. \A k \in 1 .. ff : c + k \in 1 .. 4 /\ k + (c + 1) - 1 = c + k
        BY <1>1, <3>1
      <4>6. \A k \in 1 .. ff : t[k] = a[k + (c + 1) - 1]
        BY <4>3, <4>5, Zenon
      <4> HIDE DEF t
      <4>7. SubSeq(a, c + 1, c + ff) = t
        BY <1>1, <3>1, <4>2, <4>3, <4>4, <4>6, SubSeqIs
      <4> QED
        BY <4>1, <4>7, Zenon DEF t
    <3> HIDE DEF c, g
    <3>3. ToSet(g(m)) = {h + (c + k) : k \in 1 .. ff}
      BY <3>2 DEF ToSet
    <3>4. {h + (c + k) : k \in 1 .. ff} = (h + c + 1) .. (h + (c + ff))
      <4>1. ASSUME NEW n \in (h + c + 1) .. (h + (c + ff))
            PROVE  n \in {h + (c + k) : k \in 1 .. ff}
        <5>1. n - (h + c) \in 1 .. ff /\ n = h + (c + (n - (h + c)))
          BY <1>1, <2>5, <3>1
        <5> QED
          BY <5>1, Zenon
      <4>2. \A k \in 1 .. ff : h + (c + k) \in (h + c + 1) .. (h + (c + ff))
        BY <1>1, <2>5, <3>1
      <4> QED
        BY <4>1, <4>2, Zenon
    <3> QED
      BY <3>1, <3>3, <3>4 DEF c
  <2>7. at = [m \in 1 .. r |-> g(m)]
    BY <1>2, <2>3, Zenon
  <2> HIDE DEF g
  <2>8. Len(at) = r /\ \A m \in 1 .. r : at[m] = g(m)
    BY <1>1, <2>7
  <2>9. ASSUME NEW m \in 1 .. r
        PROVE  ToSet(FrameOf(at, m)) = Covers(Given(r, p) + m - 1, doubled)
    <3>1. FrameOf(at, m) = g(m)
      <4>1. r = 1 => m = 1
        BY <1>1
      <4> QED
        BY <2>8, <4>1, Zenon DEF FrameOf
    <3> DEFINE j == Given(r, p) + m - 1
    <3>2. j = r * (p - 1) + m /\ j # 0
      BY <1>1, <1>4, <2>4
    <3>3. ff * (r * (p - 1)) = h /\ r * (p - 1) \in Nat
      BY <1>1, <1>4 DEF h
    <3>4. (j - 1) * ff = h + ff * (m - 1) /\ j * ff = h + ff * m
      <4> DEFINE y == r * (p - 1)
      <4>1. ff * y = h /\ y \in Nat /\ j = y + m
        BY <3>2, <3>3
      <4> HIDE DEF y, j
      <4> QED
        BY <1>1, <4>1
    <3> HIDE DEF j
    <3>5. Covers(j, doubled) = ((j - 1) * ff + 1) .. (j * ff)
      BY <3>2, Zenon DEF Covers, ff
    <3> QED
      BY <2>6, <3>1, <3>4, <3>5, Zenon DEF j
  <2> QED
    BY <2>4, <2>8, <2>9, Zenon DEF at, s, ff
<1> QED
  BY <1>3, <1>4, Zenon

\* v2 cuts the frames of a piece to as many as there are, of the same latent.
LEMMA FittedFrames ==
  ASSUME NEW p \in Nat, NEW doubled, NEW r, Rhythm(doubled, r)
  PROVE  LET s == PieceAt(4, p)
             at == FitV2([m \in DOMAIN s |-> <<s[m]>>], Width(r, p))
         IN  /\ Len(at) = Width(r, p)
             /\ \A m \in 1 .. Width(r, p) :
                  LET j == Given(r, p) + m - 1
                  IN  /\ ToSet(FrameOf(at, m))
                           \subseteq Covers(LatentOf(j, doubled), Cardinality(TimeDown))
                      /\ doubled = 0 => FrameOf(at, m) = <<j>>
<1> DEFINE s == PieceAt(4, p)
           g == [m \in DOMAIN s |-> <<s[m]>>]
           n == Width(r, p)
           at == FitV2(g, n)
<1>1. /\ doubled \in {0, 1, 2} /\ r \in {1, 2, 4}
      /\ doubled = 0 => r = 4
      /\ 2 ^ (2 - doubled) = r
  <2>1. CASE doubled = 0 /\ r = 4
    <3>1. 2 - doubled = 2
      BY <2>1
    <3> QED
      BY <2>1, <3>1, Powers
  <2>2. CASE doubled = 1 /\ r = 2
    <3>1. 2 - doubled = 1
      BY <2>2
    <3> QED
      BY <2>2, <3>1, Powers
  <2>3. CASE doubled = 2 /\ r = 1
    <3>1. 2 - doubled = 0
      BY <2>3
    <3> QED
      BY <2>3, <3>1, Powers
  <2> QED
    BY <2>1, <2>2, <2>3 DEF Rhythm
<1>2. \A v : ToSet(<<v>>) = {v}
  BY DEF ToSet
<1>3. Cardinality(TimeDown) = 2
  BY CondAssumption
<1>4. \A j : LatentOf(j, doubled) = (j + r - 1) \div r
  BY <1>1, <1>3, Zenon DEF LatentOf
<1> HIDE DEF s, at
<1>5. CASE p = 0
  <2>1. s = [m \in 1 .. 1 |-> 0]
    BY <1>5, PieceOfFour DEF s
  <2>2. g = [m \in 1 .. 1 |-> <<0>>]
    BY <2>1
  <2>3. n = 1 /\ Given(r, p) = 0
    BY <1>5 DEF Width, Given
  <2> HIDE DEF g, n
  <2>4. Len(g) = 1 /\ g[1] = <<0>>
    BY <2>2
  <2>5. at = g
    <3>1. ~ (n > Len(g)) /\ ~ (n < Len(g))
      BY <2>3, <2>4
    <3> QED
      BY <3>1, Zenon DEF FitV2, at
  <2>6. ASSUME NEW m \in 1 .. 1
        PROVE  LET j == Given(r, p) + m - 1
               IN  /\ ToSet(FrameOf(at, m)) \subseteq Covers(LatentOf(j, doubled), 2)
                   /\ doubled = 0 => FrameOf(at, m) = <<j>>
    <3>1. Given(r, p) + m - 1 = 0 /\ (0 + r - 1) \div r = 0
      BY <1>1, <2>3
    <3>2. FrameOf(at, m) = <<0>>
      BY <2>4, <2>5, Zenon DEF FrameOf
    <3>3. Covers(LatentOf(0, doubled), 2) = {0}
      BY <1>4, <3>1, Zenon DEF Covers
    <3> QED
      BY <1>2, <3>1, <3>2, <3>3, Zenon
  <2> QED
    BY <1>3, <2>3, <2>4, <2>5, <2>6, Zenon DEF at, g, s, n
<1>6. CASE p # 0
  <2> DEFINE h == 4 * (p - 1)
             e(m) == <<h + m>>
  <2>1. s = [m \in 1 .. 4 |-> h + m]
    BY <1>6, PieceOfFour DEF s
  <2>2. g = [m \in 1 .. 4 |-> e(m)]
    <3> HIDE DEF h
    <3> QED
      BY <2>1
  <2>3. n = r /\ Given(r, p) = 1 + r * (p - 1)
    BY <1>6 DEF Width, Given
  <2>4. h \in Nat
    BY <1>6
  <2> HIDE DEF g, n, h, e
  <2>5. Len(g) = 4 /\ \A m \in 1 .. 4 : g[m] = e(m)
    BY <2>2
  <2>6. Len(at) = r /\ \A m \in 1 .. r : at[m] = e(m)
    <3>1. ~ (n > Len(g))
      BY <1>1, <2>3, <2>5
    <3>2. at = IF n < Len(g) THEN SubSeq(g, 1, n) ELSE g
      BY <3>1, Zenon DEF FitV2, at
    <3>3. CASE n < Len(g)
      <4> DEFINE t == [m \in 1 .. r |-> g[m]]
                 E == {g[m] : m \in 1 .. 4}
      <4>1. at = SubSeq(g, 1, r)
        BY <2>3, <3>2, <3>3, Zenon
      <4>2. g \in Seq(E)
        BY <2>2, <2>5
      <4>3. t \in Seq(E) /\ Len(t) = r /\ \A m \in 1 .. r : t[m] = e(m)
        <5>1. \A m \in 1 .. r : m \in 1 .. 4
          BY <1>1
        <5>2. \A m \in 1 .. r : g[m] \in E /\ t[m] = g[m]
          BY <5>1
        <5> HIDE DEF E
        <5>3. t \in Seq(E) /\ Len(t) = r
          BY <1>1, <5>2
        <5> QED
          BY <2>5, <5>1, <5>2, <5>3, Zenon
      <4>4. \A m \in 1 .. r : t[m] = g[m + 1 - 1] /\ m + 1 - 1 = m
        <5>1. \A m \in 1 .. r : m + 1 - 1 = m
          BY <1>1
        <5> QED
          BY <5>1, Zenon
      <4> HIDE DEF t, E
      <4>5. SubSeq(g, 1, r) = t
        BY <1>1, <2>5, <4>2, <4>3, <4>4, SubSeqIs
      <4> QED
        BY <4>1, <4>3, <4>5, Zenon
    <3>4. CASE ~ (n < Len(g))
      <4>1. r = 4
        BY <1>1, <2>3, <2>5, <3>4
      <4> QED
        BY <2>5, <3>2, <3>4, <4>1, Zenon
    <3> QED
      BY <3>3, <3>4
  <2>7. ASSUME NEW m \in 1 .. r
        PROVE  LET j == Given(r, p) + m - 1
               IN  /\ ToSet(FrameOf(at, m)) \subseteq Covers(LatentOf(j, doubled), 2)
                   /\ doubled = 0 => FrameOf(at, m) = <<j>>
    <3> DEFINE j == Given(r, p) + m - 1
    <3>1. FrameOf(at, m) = e(m)
      <4>1. r = 1 => m = 1
        BY <1>1
      <4> QED
        BY <2>6, <4>1, Zenon DEF FrameOf
    <3>2. j = r * (p - 1) + m /\ m \in Nat
      BY <1>1, <1>6, <2>3
    <3>3. (j + r - 1) \div r = p
      <4>1. CASE r = 1
        BY <1>6, <3>2, <4>1
      <4>2. CASE r = 2
        <5> HIDE DEF j
        <5>1. j = 2 * (p - 1) + m /\ m \in {1, 2}
          BY <3>2, <4>2
        <5> QED
          BY <1>6, <4>2, <5>1
      <4>3. CASE r = 4
        <5> HIDE DEF j
        <5>1. j = 4 * (p - 1) + m /\ m \in {1, 2, 3, 4}
          BY <3>2, <4>3
        <5> QED
          BY <1>6, <4>3, <5>1
      <4> QED
        BY <1>1, <4>1, <4>2, <4>3
    <3>4. Covers(p, 2) = (h + 1) .. (h + 4)
      <4>1. (p - 1) * 4 + 1 = h + 1 /\ p * 4 = h + 4
        BY <1>6 DEF h
      <4> QED
        BY <1>6, <4>1, Powers, Zenon DEF Covers
    <3>5. h + m \in (h + 1) .. (h + 4)
      BY <1>1, <2>4, <3>2
    <3>6. doubled = 0 => j = h + m
      BY <1>1, <3>2 DEF h
    <3> HIDE DEF j, h
    <3>7. ToSet(e(m)) = {h + m}
      BY <1>2, Zenon DEF e
    <3>8. LatentOf(j, doubled) = p
      BY <1>4, <3>3, Zenon
    <3> QED
      BY <3>1, <3>4, <3>5, <3>6, <3>7, <3>8, Zenon DEF e, j
  <2> QED
    BY <1>3, <2>3, <2>6, <2>7, Zenon DEF at, g, s, n
<1> QED
  BY <1>5, <1>6, Zenon

-----------------------------------------------------------------------------
\* Feature m of piece p of the conditioning.
FeatureAt(form, p, m) ==
  LET s == PieceAt(4, p)
  IN  IF form = "v1"
      THEN [level |-> ConditionEncoder3d[m].level,
            at |-> pixel_shuffle(s, ConditionEncoder3d[m].ff)]
      ELSE [level |-> _create_zero_convs(ModuleEnds(Decoder3d))[m][2],
            at |-> [k \in DOMAIN s |-> <<s[k]>>]]

\* What is left of the features of a piece when d of them have been popped.
Rest(form, p, d) == [m \in 1 .. (NumFeatures - d) |-> FeatureAt(form, p, d + m)]

\* As many are popped as modules have been gone through: all of the pieces that
\* are done, and none of those to come.
Popped(k) ==
  IF call = None \/ k > i + 1 THEN 0
  ELSE IF k <= i THEN NumFeatures ELSE IF u = 0 THEN 0 ELSE EndsUpTo(Decoder3d, u - 1)

ListsLeft ==
  /\ ~ add_feats.raised /\ add_feats.form \in {"v1", "v2"}
  /\ \A k \in 1 .. Len(add_feats.lists) :
       add_feats.lists[k] = Rest(add_feats.form, k - 1, Popped(k))

\* What was added after the last module.
FeatureAdded ==
  /\ u > 1 /\ Decoder3d[u - 1][2]
  /\ Len(taps) = Width(RateAt("decode", u), i)
  /\ DOMAIN taps = 1 .. Width(RateAt("decode", u), i)
  /\ LET head == FeatureAt(call.cond, i, EndsUpTo(Decoder3d, u - 1))
     IN  feat = IF call.cond = "v1" THEN head
                ELSE [head EXCEPT !.at = FitV2(@, Width(RateAt("decode", u), i))]

CondInv ==
  /\ zero_convs = _create_zero_convs(ModuleEnds(Decoder3d))
  /\ call = None /\ add_feats # None => ListsLeft
  /\ call # None /\ call.cond = None => add_feats = None /\ feat = None
  /\ call # None /\ call.cond # None =>
       /\ call.op = "decode" /\ call.cond = add_feats.form
       /\ call.n = Len(add_feats.lists)
       /\ ListsLeft
       /\ feat # None => FeatureAdded

\* There is a whole number of features.
LEMMA NumFeaturesIsNat == NumFeatures \in Nat
<1>1. Levels * ModulesPerStage \in Nat
  BY VaeAssumption DEF ModulesPerStage
<1> QED
  BY <1>1 DEF NumFeatures

\* A list of features when it was made.
LEMMA FreshFeatures ==
  ASSUME zero_convs = _create_zero_convs(ModuleEnds(Decoder3d)), NEW p
  PROVE  /\ FeaturesV1(PieceAt(4, p)) = Rest("v1", p, 0)
         /\ FeaturesV2(PieceAt(4, p)) = Rest("v2", p, 0)
<1> DEFINE s == PieceAt(4, p)
           n == NumFeatures
<1>1. DOMAIN ConditionEncoder3d = 1 .. n /\ DOMAIN zero_convs = 1 .. n
  BY FeaturesOfV1, ZeroConvsAt, Zenon DEF FeaturesAt
<1>2. /\ \A form, d : Rest(form, p, d) = [m \in 1 .. (n - d) |-> FeatureAt(form, p, d + m)]
      /\ n \in Nat
  BY NumFeaturesIsNat, Zenon DEF Rest
<1> HIDE DEF n
<1>3. n - 0 = n /\ \A m \in 1 .. n : 0 + m = m
  BY <1>2
<1>4. ASSUME NEW form PROVE Rest(form, p, 0) = [m \in 1 .. n |-> FeatureAt(form, p, m)]
  <2> DEFINE f(m) == FeatureAt(form, p, m)
             g(m) == f(0 + m)
  <2>1. Rest(form, p, 0) = [m \in 1 .. (n - 0) |-> g(m)]
    BY <1>2, Zenon
  <2>2. \A m \in 1 .. n : g(m) = f(m)
    BY <1>3, Zenon
  <2> HIDE DEF f, g
  <2>3. [m \in 1 .. (n - 0) |-> g(m)] = [m \in 1 .. n |-> f(m)]
    BY <1>3, <2>2
  <2> QED
    BY <2>1, <2>3, Zenon DEF f
<1>5. \A m : FeatureAt("v1", p, m)
               = [level |-> ConditionEncoder3d[m].level,
                  at |-> pixel_shuffle(s, ConditionEncoder3d[m].ff)]
  BY Zenon DEF FeatureAt
<1>6. \A m : FeatureAt("v2", p, m)
               = [level |-> zero_convs[m][2], at |-> [k \in DOMAIN s |-> <<s[k]>>]]
  <2>1. "v2" # "v1"
    OBVIOUS
  <2> QED
    BY <2>1, Zenon DEF FeatureAt
<1>7. FeaturesV1(s) = Rest("v1", p, 0)
  <2> DEFINE c == ConditionEncoder3d
             f(m) == FeatureAt("v1", p, m)
  <2>1. FeaturesV1(s) = [m \in DOMAIN c |-> [level |-> c[m].level,
                                            at |-> pixel_shuffle(s, c[m].ff)]]
    BY Zenon DEF FeaturesV1
  <2>2. FeaturesV1(s) = [m \in DOMAIN c |-> f(m)]
    BY <1>5, <2>1, Zenon
  <2>3. DOMAIN c = 1 .. n
    BY <1>1, Zenon
  <2> HIDE DEF f, c
  <2>4. FeaturesV1(s) = [m \in 1 .. n |-> f(m)]
    BY <2>2, <2>3
  <2> QED
    BY <1>4, <2>4, Zenon DEF f
<1>8. FeaturesV2(s) = Rest("v2", p, 0)
  <2> DEFINE f(m) == FeatureAt("v2", p, m)
  <2>1. FeaturesV2(s) = [m \in DOMAIN zero_convs |-> [level |-> zero_convs[m][2],
                                                     at |-> [k \in DOMAIN s |-> <<s[k]>>]]]
    BY Zenon DEF FeaturesV2
  <2>2. FeaturesV2(s) = [m \in DOMAIN zero_convs |-> f(m)]
    BY <1>6, <2>1, Zenon
  <2> HIDE DEF f
  <2>4. FeaturesV2(s) = [m \in 1 .. n |-> f(m)]
    BY <1>1, <2>2
  <2> QED
    BY <1>4, <2>4, Zenon DEF f
<1> QED
  BY <1>7, <1>8, Zenon

\* The feature that is popped after the end of a module.
LEMMA FeatureOfEnd ==
  ASSUME NEW v \in 1 .. Len(Decoder3d), Decoder3d[v][2], NEW p
  PROVE  LET s == PieceAt(4, p)
             m == EndsUpTo(Decoder3d, v)
         IN  /\ FeatureAt("v1", p, m)
                  = [level |-> LevelAfter(v), at |-> pixel_shuffle(s, 2 ^ DoublingsAfter(v))]
             /\ FeatureAt("v2", p, m)
                  = [level |-> LevelAfter(v), at |-> [k \in DOMAIN s |-> <<s[k]>>]]
<1> DEFINE s == PieceAt(4, p)
           m == EndsUpTo(Decoder3d, v)
           convs == _create_zero_convs(ModuleEnds(Decoder3d))
           l == LevelAfter(v)
           f == 2 ^ DoublingsAfter(v)
<1>1. ConditionEncoder3d[m] = [level |-> l, ff |-> f]
  BY EndsHaveFeatures
<1>2. convs[m] = <<l, l>>
  BY ZeroConvsAt, Zenon
<1>3. "v2" # "v1"
  OBVIOUS
<1> HIDE DEF l, f
<1>4. ConditionEncoder3d[m].level = l /\ ConditionEncoder3d[m].ff = f
  BY <1>1
<1> HIDE DEF convs
<1>5. convs[m][2] = l
  BY <1>2
<1> HIDE DEF m
<1> QED
  BY <1>3, <1>4, <1>5, Zenon DEF FeatureAt, convs, l, f, m

\* Popping one feature more.
LEMMA PopOne ==
  ASSUME NEW form, NEW p, NEW d \in Nat
  PROVE  /\ d < NumFeatures => /\ Rest(form, p, d) # <<>>
                               /\ Rest(form, p, d)[1] = FeatureAt(form, p, d + 1)
                               /\ Tail(Rest(form, p, d)) = Rest(form, p, d + 1)
         /\ Rest(form, p, NumFeatures) = <<>>
<1> DEFINE n == NumFeatures
           f(m) == FeatureAt(form, p, m)
           R(c) == [m \in 1 .. (n - c) |-> f(c + m)]
           S == {f(m) : m \in Nat}
<1>1. n \in Nat
  BY NumFeaturesIsNat
<1>2. \A c : Rest(form, p, c) = R(c)
  BY Zenon DEF Rest
<1> HIDE DEF n, f
<1>3. R(n) = <<>>
  <2>1. n - n = 0
    BY <1>1
  <2> QED
    BY <2>1
<1>4. ASSUME d < n PROVE R(d) # <<>> /\ R(d)[1] = f(d + 1) /\ Tail(R(d)) = R(d + 1)
  <2> DEFINE r == R(d)
             t == R(d + 1)
  <2>1. n - d \in Nat \ {0} /\ n - (d + 1) = (n - d) - 1 /\ 1 \in 1 .. (n - d)
    BY <1>1, <1>4
  <2>2. r \in Seq(S) /\ Len(r) = n - d
    <3>1. \A m \in 1 .. (n - d) : f(d + m) \in S
      <4>1. \A m \in 1 .. (n - d) : d + m \in Nat
        BY <2>1
      <4> QED
        BY <4>1, Zenon
    <3> HIDE DEF S
    <3> QED
      BY <2>1, <3>1
  <2>3. r[1] = f(d + 1)
    BY <2>1, Zenon
  <2>4. \A m \in 1 .. (n - d) : r[m] = f(d + m)
    BY Zenon
  <2> HIDE DEF r, S
  <2>5. Tail(r) = [m \in 1 .. ((n - d) - 1) |-> r[m + 1]]
    <3> DEFINE k == n - d
    <3>1. k \in Nat \ {0} /\ Len(r) = k
      BY <2>1, <2>2
    <3> HIDE DEF k
    <3>2. r # <<>>
      BY <2>2, <3>1
    <3>3. /\ Tail(r) \in Seq(S) /\ Len(Tail(r)) = Len(r) - 1
          /\ \A m \in 1 .. (Len(r) - 1) : Tail(r)[m] = r[m + 1]
      BY <2>2, <3>2, HeadTailProperties
    <3> DEFINE q == Tail(r)
    <3>4. q \in Seq(S) /\ Len(q) = k - 1 /\ \A m \in 1 .. (k - 1) : q[m] = r[m + 1]
      BY <3>1, <3>3
    <3> HIDE DEF q
    <3>5. q = [m \in 1 .. (k - 1) |-> r[m + 1]]
      BY <3>1, <3>4
    <3>6. Tail(r) = [m \in 1 .. (k - 1) |-> r[m + 1]]
      BY <3>5 DEF q
    <3> QED
      BY <3>6 DEF k
  <2>6. \A m \in 1 .. ((n - d) - 1) : r[m + 1] = f((d + 1) + m)
    <3>1. \A m \in 1 .. ((n - d) - 1) : m + 1 \in 1 .. (n - d) /\ d + (m + 1) = (d + 1) + m
      BY <2>1
    <3> QED
      BY <2>4, <3>1, Zenon
  <2>7. Tail(r) = t
    BY <2>1, <2>5, <2>6, Zenon
  <2>8. r # <<>>
    BY <2>1, <2>2
  <2> QED
    BY <2>3, <2>7, <2>8, Zenon DEF r
<1> HIDE DEF R
<1> QED
  BY <1>2, <1>3, <1>4, Zenon DEF n, f

\* The conditioning is encoded: all features of all pieces.
LEMMA EncodeKeepsLists ==
  ASSUME CondInv, zero_convs' = zero_convs, NEW form \in {"v1", "v2"}, NEW t \in CondLengths,
         NEW raises, ~ raises,
         EncodeCond(form, [k \in 1 .. Pieces("encode", t) |->
                            IF form = "v1" THEN FeaturesV1(FramesOf(k - 1, t))
                                           ELSE FeaturesV2(FramesOf(k - 1, t))], raises)
  PROVE  CondInv'
<1> DEFINE n == Pieces("encode", t)
           l == [k \in 1 .. n |-> IF form = "v1" THEN FeaturesV1(FramesOf(k - 1, t))
                                                 ELSE FeaturesV2(FramesOf(k - 1, t))]
<1>1. zero_convs = _create_zero_convs(ModuleEnds(Decoder3d))
  BY Zenon DEF CondInv
<1>2. call = None /\ call' = None
  BY Zenon DEF EncodeCond
<1>3. t \in Nat \ {0} /\ "encode" \in Operations
  BY VaeAssumption DEF CondLengths, Operations
<1>4. n \in Nat \ {0} /\ \A k \in 0 .. (n - 1) : FramesOf(k, t) = PieceAt(4, k)
  <2>1. RateAt("encode", 1) = 4
    BY <1>3, Rates
  <2>2. \A k : Piece("encode", k, t) = FramesOf(k, t)
    BY Zenon DEF Piece
  <2>3. /\ Pieces("encode", t) \in Nat \ {0}
        /\ \A k \in 0 .. (Pieces("encode", t) - 1) :
             Piece("encode", k, t) = PieceAt(RateAt("encode", 1), k)
    BY <1>3, PieceIsPieceAt
  <2> QED
    BY <2>1, <2>2, <2>3, Zenon
<1> HIDE DEF n
<1>5. ASSUME NEW k \in 1 .. n PROVE l[k] = Rest(form, k - 1, 0)
  <2>1. k - 1 \in 0 .. (n - 1)
    BY <1>4
  <2>2. FramesOf(k - 1, t) = PieceAt(4, k - 1)
    BY <1>4, <2>1, Zenon
  <2>3. /\ FeaturesV1(PieceAt(4, k - 1)) = Rest("v1", k - 1, 0)
        /\ FeaturesV2(PieceAt(4, k - 1)) = Rest("v2", k - 1, 0)
    BY <1>1, FreshFeatures
  <2>4. form = "v1" \/ (form = "v2" /\ form # "v1")
    OBVIOUS
  <2> QED
    BY <2>2, <2>3, <2>4, Zenon
<1>6. Len(l) = n
  <2>1. l = [k \in 1 .. n |-> l[k]]
    BY Zenon
  <2> HIDE DEF l
  <2> QED
    BY <1>4, <2>1, LengthOf
<1>7. add_feats' = [form |-> form, raised |-> raises, lists |-> l]
  BY Zenon DEF EncodeCond, n
<1> HIDE DEF l
<1>8. ~ add_feats'.raised /\ add_feats'.form = form /\ add_feats'.lists = l
  BY <1>7
<1>9. \A k : Popped(k)' = 0
  BY <1>2, Zenon DEF Popped
<1>10. ListsLeft'
  BY <1>5, <1>6, <1>8, <1>9, Zenon DEF ListsLeft
<1> QED
  BY <1>1, <1>2, <1>10, Zenon DEF CondInv

\* A call begins: it is with the features of as many pieces as it has, or without.
LEMMA BeginKeepsLists ==
  ASSUME CondInv, zero_convs' = zero_convs, NEW op, NEW n, NEW cond, Begin(op, n, cond),
         \/ cond = None /\ add_feats = None
         \/ /\ cond # None /\ add_feats # None /\ op = "decode"
            /\ cond = add_feats.form /\ n = Len(add_feats.lists)
  PROVE  CondInv'
<1>1. /\ call = None /\ call' = [op |-> op, n |-> n, cond |-> cond] /\ i' = 0 /\ u' = 0
      /\ feat' = None /\ add_feats' = add_feats
  BY Zenon DEF Begin
<1>2. call'.op = op /\ call'.n = n /\ call'.cond = cond
  BY <1>1
<1>3. \A k \in Nat \ {0} : Popped(k) = 0 /\ Popped(k)' = 0
  <2>1. \A k \in Nat \ {0} : k > 0 + 1 \/ (~ (k <= 0) /\ ~ (k > 0 + 1))
    OBVIOUS
  <2> QED
    BY <1>1, <2>1, Zenon DEF Popped
<1>4. add_feats # None => ListsLeft'
  <2> SUFFICES ASSUME add_feats # None PROVE ListsLeft'
    OBVIOUS
  <2>1. ListsLeft
    BY <1>1, Zenon DEF CondInv
  <2> DEFINE N == Len(add_feats.lists)
  <2>2. \A k \in 1 .. N : Popped(k)' = Popped(k)
    <3> HIDE DEF N
    <3>1. \A k \in 1 .. N : k \in Nat \ {0}
      OBVIOUS
    <3> QED
      BY <1>3, <3>1, Zenon
  <2> QED
    BY <1>1, <2>1, <2>2, Zenon DEF ListsLeft
<1>5. (zero_convs = _create_zero_convs(ModuleEnds(Decoder3d)))'
  BY Zenon DEF CondInv
<1> QED
  BY <1>1, <1>2, <1>4, <1>5, Zenon DEF CondInv

\* A piece goes in: nothing is popped yet.
LEMMA NextPieceKeepsLists ==
  ASSUME CondInv, zero_convs' = zero_convs, NextPiece
  PROVE  CondInv'
<1>1. /\ call # None /\ call' = call /\ i' = i /\ u = 0 /\ u' = 1 /\ feat' = None
      /\ add_feats' = add_feats
  BY Zenon DEF NextPiece
<1>2. EndsUpTo(Decoder3d, 0) = 0 /\ 1 - 1 = 0 /\ 1 # 0
  BY DecoderCounted
<1>3. \A k : Popped(k)' = Popped(k)
  BY <1>1, <1>2, Zenon DEF Popped
<1>4. (zero_convs = _create_zero_convs(ModuleEnds(Decoder3d)))'
  BY Zenon DEF CondInv
<1>5. ListsLeft => ListsLeft'
  BY <1>1, <1>3, Zenon DEF ListsLeft
<1> QED
  BY <1>1, <1>4, <1>5, Zenon DEF CondInv

\* Every layer that ends a module is given the feature of its own.
LEMMA AddFeatureKeepsLists ==
  ASSUME ClipInv, CondInv, zero_convs' = zero_convs, Step, AddFeature
  PROVE  CondInv'
<1> DEFINE net == Decoder3d
           L == Len(net)
           lists == add_feats.lists
           form == add_feats.form
           N == Len(lists)
           e(v) == EndsUpTo(net, v)
           w == Width(RateAt("decode", u + 1), i)
           ends == net[u][2]
           head == FeatureAt(form, i, e(u))
           added == IF form = "v1" THEN head ELSE [head EXCEPT !.at = FitV2(@, w)]
<1>1. /\ call # None /\ call.cond # None /\ call' = call /\ u > 0
      /\ IF u = Len(Network(call.op)) THEN u' = 0 /\ i' = i + 1 ELSE u' = u + 1 /\ i' = i
  BY Zenon DEF Step, AddFeature
<1>2. /\ call.op = "decode" /\ call.cond = form /\ call.n = N /\ ListsLeft
  BY <1>1, Zenon DEF CondInv
<1>3. Network(call.op) = net
  BY <1>2 DEF Network
<1>4. Progress /\ CachesKept /\ HasLists(add_feats)
  BY <1>1, Zenon DEF ClipInv
<1>5. Len(x') = w /\ Len(taps') = w /\ DOMAIN taps' = 1 .. w
  BY <1>1, <1>2, <1>4, StepKeeps, Zenon
<1>6. /\ i \in 0 .. Pieces(call.op, call.n) /\ i < Pieces(call.op, call.n)
      /\ u \in 0 .. L
  BY <1>1, <1>3, <1>4, Zenon DEF Progress
<1>7. Pieces(call.op, call.n) = N
  <2>1. "decode" # "encode"
    OBVIOUS
  <2> QED
    BY <1>2, <2>1, Zenon DEF Pieces
<1>8. /\ add_feats = [form |-> form, raised |-> add_feats.raised, lists |-> lists]
      /\ N \in Nat \ {0} /\ lists = [k \in 1 .. N |-> lists[k]]
  BY <1>2, <1>4, Zenon DEF HasLists, ListsLeft
<1> HIDE DEF N
<1>9. L \in Nat \ {0} /\ net \in Seq(Kinds \X BOOLEAN)
  BY <1>2, <1>3, Rates, Zenon DEF LayersOf, Operations
<1>10. i \in Nat /\ u \in 1 .. L /\ i + 1 \in 1 .. N
  <2> HIDE DEF L
  <2> QED
    BY <1>1, <1>6, <1>7, <1>8, <1>9
<1>11. /\ e(0) = 0 /\ e(u) = e(u - 1) + IF ends THEN 1 ELSE 0
       /\ e(u) \in Nat /\ e(u - 1) \in Nat
  <2>1. u \in 0 .. L /\ u - 1 \in 0 .. L
    <3> HIDE DEF L
    <3> QED
      BY <1>9, <1>10
  <2>2. /\ e(0) = 0
        /\ \A v \in 1 .. L : e(v) = e(v - 1) + IF net[v][2] THEN 1 ELSE 0
        /\ \A v, k \in 0 .. L : e(v) \in Nat
    <3> HIDE DEF net
    <3> QED
      BY <1>9, EndsSteps
  <2> HIDE DEF e, L
  <2> QED
    BY <1>10, <2>1, <2>2, Zenon
<1>12. e(L) = NumFeatures /\ (ends => e(u) \in 1 .. NumFeatures) /\ NumFeatures \in Nat
  BY <1>10, EndsHaveFeatures, NumFeaturesIsNat
<1>13. u = L => ~ ends
  <2>1. LayerAt(Levels, StageLen) = <<"conv", FALSE>>
    BY Zenon DEF LayerAt
  <2>2. net[L] = <<"conv", FALSE>>
    <3>1. Levels \in Nat \ {0} /\ StageLen \in Nat \ {0} /\ Levels \in 1 .. Levels
          /\ StageLen \in 1 .. StageLen
      BY VaeAssumption DEF StageLen
    <3>2. net[6 + ((Levels - 1) * StageLen + StageLen)] = LayerAt(Levels, StageLen)
      BY <3>1, DecoderAt
    <3>3. (Levels - 1) * StageLen + StageLen = Levels * StageLen
      BY <3>1
    <3>4. L = 6 + Levels * StageLen
      BY DecoderAt, Zenon
    <3> QED
      BY <2>1, <3>2, <3>3, <3>4, Zenon
  <2>3. net[L][2] = FALSE
    BY <2>2
  <2> QED
    BY <2>3, Zenon
<1> HIDE DEF e, ends, net, L, lists, form, w
<1>14. ASSUME NEW k \in Nat
       PROVE  /\ k = i + 1 => Popped(k) = e(u - 1) /\ Popped(k)' = e(u)
              /\ k # i + 1 => Popped(k)' = Popped(k)
  <2>1. k = i + 1 => Popped(k) = e(u - 1)
    <3>1. ~ (i + 1 > i + 1) /\ ~ (i + 1 <= i) /\ u # 0
      BY <1>1, <1>10
    <3> QED
      BY <1>1, <3>1, Zenon DEF Popped, e, net
  <2>2. CASE u = L
    <3>1. u' = 0 /\ i' = i + 1 /\ call' # None
      BY <1>1, <1>3, <2>2, Zenon DEF L
    <3>2. i + 1 <= i + 1 /\ ~ (i + 1 > (i + 1) + 1)
      BY <1>10
    <3>3. k = i + 1 => Popped(k)' = NumFeatures
      BY <3>1, <3>2, Zenon DEF Popped
    <3>4. ASSUME k # i + 1 PROVE Popped(k)' = Popped(k)
      <4>1. \/ k <= i /\ k <= i + 1 /\ ~ (k > i + 1) /\ ~ (k > (i + 1) + 1)
            \/ k > i + 1 /\ ~ (k <= i + 1)
        BY <1>10, <3>4
      <4> QED
        BY <1>1, <3>1, <4>1, Zenon DEF Popped
    <3> QED
      BY <1>12, <2>1, <2>2, <3>3, <3>4, Zenon
  <2>3. CASE u # L
    <3>1. u' = u + 1 /\ i' = i /\ call' # None
      BY <1>1, <1>3, <2>3, Zenon DEF L
    <3>2. ~ (i + 1 > i + 1) /\ ~ (i + 1 <= i) /\ u + 1 # 0 /\ (u + 1) - 1 = u
      BY <1>10
    <3>3. k = i + 1 => Popped(k)' = e(u)
      BY <3>1, <3>2, Zenon DEF Popped, e, net
    <3>4. ASSUME k # i + 1 PROVE Popped(k)' = Popped(k)
      <4>1. k <= i \/ k > i + 1
        BY <1>10, <3>4
      <4> QED
        BY <1>1, <3>1, <4>1, Zenon DEF Popped
    <3> QED
      BY <2>1, <3>3, <3>4, Zenon
  <2> QED
    BY <2>2, <2>3
<1>15. /\ form \in {"v1", "v2"} /\ ~ add_feats.raised
       /\ \A k \in 1 .. N : lists[k] = Rest(form, k - 1, Popped(k))
  BY <1>2, Zenon DEF ListsLeft, form, lists, N
<1>16. lists[i + 1] = Rest(form, i, e(u - 1))
  <2>1. (i + 1) - 1 = i /\ i + 1 \in Nat
    BY <1>10
  <2> QED
    BY <1>10, <1>14, <1>15, <2>1, Zenon
<1>17. CASE ~ ends
  <2>1. feat' = None /\ add_feats' = add_feats
    BY <1>17, Zenon DEF AddFeature, ends, net
  <2>2. e(u) = e(u - 1)
    BY <1>11, <1>17
  <2>3. \A k \in 1 .. N : Popped(k)' = Popped(k)
    <3>1. \A k \in 1 .. N : k \in Nat
      OBVIOUS
    <3> QED
      BY <1>14, <2>2, <3>1, Zenon
  <2>4. ListsLeft'
    BY <1>2, <2>1, <2>3, Zenon DEF ListsLeft, N, lists
  <2>5. (zero_convs = _create_zero_convs(ModuleEnds(Decoder3d)))'
    BY Zenon DEF CondInv
  <2> QED
    BY <1>1, <1>2, <2>1, <2>4, <2>5, Zenon DEF CondInv, N, lists, form
<1>18. CASE ends
  <2> DEFINE d == e(u - 1)
             rest == lists[i + 1]
  <2>1. d \in Nat /\ d < NumFeatures /\ e(u) = d + 1
    BY <1>11, <1>12, <1>18
  <2>2. rest # <<>> /\ rest[1] = head /\ Tail(rest) = Rest(form, i, e(u))
    <3> HIDE DEF d
    <3>1. /\ Rest(form, i, d) # <<>> /\ Rest(form, i, d)[1] = FeatureAt(form, i, d + 1)
          /\ Tail(Rest(form, i, d)) = Rest(form, i, d + 1)
      BY <2>1, PopOne
    <3> QED
      BY <1>16, <2>1, <3>1, Zenon DEF d
  <2> HIDE DEF head
  <2>3. /\ feat' = IF call.cond = "v1" \/ rest = <<>> THEN rest[1]
                   ELSE [rest[1] EXCEPT !.at = FitV2(@, Len(x'))]
        /\ add_feats' = [add_feats EXCEPT !.lists[i + 1] = Tail(rest)]
    <3>1. Decoder3d[u][2]
      BY <1>18 DEF ends, net
    <3> HIDE DEF rest
    <3>2. rest = add_feats.lists[i + 1]
      BY Zenon DEF rest, lists
    <3>3. /\ feat' = IF call.cond = "v1" \/ rest = <<>>
                     THEN IF rest = <<>> THEN Nothing ELSE rest[1]
                     ELSE [(IF rest = <<>> THEN Nothing ELSE rest[1])
                             EXCEPT !.at = FitV2(@, Len(x'))]
          /\ add_feats' = [add_feats EXCEPT !.lists[i + 1] =
                             IF rest = <<>> THEN <<>> ELSE Tail(rest)]
      BY <3>1, <3>2, Zenon DEF AddFeature
    <3> QED
      BY <2>2, <3>3, Zenon DEF rest
  <2>4. feat' = added
    BY <1>2, <1>5, <2>2, <2>3, Zenon
  <2> DEFINE more == [lists EXCEPT ![i + 1] = Tail(rest)]
  <2>5. add_feats' = [form |-> form, raised |-> add_feats.raised, lists |-> more]
    <3> DEFINE b == add_feats.raised
               y == Tail(rest)
    <3>1. add_feats = [form |-> form, raised |-> b, lists |-> lists]
      BY <1>8
    <3>2. add_feats' = [add_feats EXCEPT !.lists[i + 1] = y]
      BY <2>3, Zenon
    <3>3. more = [lists EXCEPT ![i + 1] = y]
      BY Zenon
    <3> HIDE DEF b, y, more
    <3>4. add_feats' = [form |-> form, raised |-> b, lists |-> more]
      BY <3>1, <3>2, <3>3
    <3> QED
      BY <3>4 DEF b
  <2>6. /\ add_feats'.form = form /\ add_feats'.raised = add_feats.raised
        /\ add_feats'.lists = more
    <3> HIDE DEF more
    <3> QED
      BY <2>5
  <2>7. /\ more = [k \in 1 .. N |-> more[k]] /\ more[i + 1] = Rest(form, i, e(u))
        /\ \A k \in 1 .. N : k # i + 1 => more[k] = lists[k]
    <3> DEFINE y == Tail(rest)
    <3>1. more = [lists EXCEPT ![i + 1] = y] /\ DOMAIN lists = 1 .. N
      BY <1>8, Zenon
    <3>2. y = Rest(form, i, e(u))
      BY <2>2, Zenon
    <3> HIDE DEF y, more
    <3> QED
      BY <1>10, <3>1, <3>2, Zenon
  <2> HIDE DEF more
  <2>8. Len(more) = N
    BY <1>8, <2>7, LengthOf
  <2>9. ASSUME NEW k \in 1 .. N PROVE more[k] = Rest(form, k - 1, Popped(k)')
    <3>1. CASE k = i + 1
      <4>1. (i + 1) - 1 = i /\ k \in Nat
        BY <1>10
      <4> QED
        BY <1>14, <2>7, <3>1, <4>1, Zenon
    <3>2. CASE k # i + 1
      <4>1. k \in Nat
        OBVIOUS
      <4> QED
        BY <1>14, <1>15, <2>7, <3>2, <4>1, Zenon
    <3> QED
      BY <3>1, <3>2
  <2>10. ListsLeft'
    BY <1>15, <2>6, <2>8, <2>9, Zenon DEF ListsLeft
  <2>11. (zero_convs = _create_zero_convs(ModuleEnds(Decoder3d)))'
    BY Zenon DEF CondInv
  <2>12. u' = u + 1 /\ i' = i /\ u' > 1 /\ u' - 1 = u
    <3>1. u # L
      BY <1>13, <1>18
    <3>2. u' = u + 1 /\ i' = i
      BY <1>1, <1>3, <3>1, Zenon DEF L
    <3> QED
      BY <1>10, <3>2
  <2>13. FeatureAdded'
    <3>1. Decoder3d[u' - 1][2]
      BY <1>18, <2>12, Zenon DEF ends, net
    <3>2. Width(RateAt("decode", u'), i') = w
      BY <2>12, Zenon DEF w
    <3>3. feat' = LET h == FeatureAt(call'.cond, i', EndsUpTo(Decoder3d, u' - 1))
                  IN  IF call'.cond = "v1" THEN h ELSE [h EXCEPT !.at = FitV2(@, w)]
      BY <1>1, <1>2, <2>4, <2>12, Zenon DEF head, e, net
    <3> QED
      BY <1>5, <2>12, <3>1, <3>2, <3>3, Zenon DEF FeatureAdded
  <2> QED
    BY <1>1, <1>2, <2>6, <2>8, <2>10, <2>11, <2>13, Zenon DEF CondInv
<1> QED
  BY <1>17, <1>18

\* Every step leaves the features as they should be.
LEMMA CondInvStep ==
  ClipInv /\ CondInv /\ [CondNext /\ UNCHANGED zero_convs]_<<vars, zero_convs>> => CondInv'
<1> SUFFICES ASSUME ClipInv, CondInv, [CondNext /\ UNCHANGED zero_convs]_<<vars, zero_convs>>
             PROVE  CondInv'
  OBVIOUS
<1>1. zero_convs' = zero_convs
  BY DEF vars
<1>2. CASE UNCHANGED <<vars, zero_convs>>
  <2>1. /\ call' = call /\ i' = i /\ u' = u /\ add_feats' = add_feats /\ taps' = taps
        /\ feat' = feat
    BY <1>2 DEF vars
  <2>2. \A k : Popped(k)' = Popped(k)
    BY <2>1, Zenon DEF Popped
  <2>3. (ListsLeft => ListsLeft') /\ (FeatureAdded => FeatureAdded')
    BY <2>1, <2>2, Zenon DEF ListsLeft, FeatureAdded
  <2> QED
    BY <1>1, <2>1, <2>3, Zenon DEF CondInv
<1>3. CASE encode
  <2>1. PICK t : Begin("encode", t, None) /\ add_feats = None
    BY <1>3, Zenon DEF encode
  <2> QED
    BY <1>1, <2>1, BeginKeepsLists, Zenon
<1>4. CASE decode
  <2>1. PICK t : Begin("decode", t, None) /\ add_feats = None
    BY <1>4, Zenon DEF decode
  <2> QED
    BY <1>1, <2>1, BeginKeepsLists, Zenon
<1>5. CASE NextPiece
  BY <1>1, <1>5, NextPieceKeepsLists
<1>6. CASE Step /\ Unconditioned
  <2>1. call # None /\ call.cond = None /\ call' = call /\ add_feats' = add_feats
        /\ feat' = feat
    BY <1>6, Zenon DEF Step, Unconditioned
  <2> QED
    BY <1>1, <2>1, Zenon DEF CondInv
<1>7. CASE Step /\ AddFeature
  BY <1>1, <1>7, AddFeatureKeepsLists
<1>8. CASE Return \/ Raise
  <2>1. call' = None /\ add_feats' = None
    BY <1>8, Zenon DEF Return, Raise
  <2> QED
    BY <1>1, <2>1, Zenon DEF CondInv
<1>9. CASE encode_cond_v1
  <2>1. PICK t \in CondLengths :
          EncodeCond("v1", [k \in 1 .. Pieces("encode", t) |-> FeaturesV1(FramesOf(k - 1, t))], FALSE)
    BY <1>9, Zenon DEF encode_cond_v1
  <2>2. EncodeCond("v1", [k \in 1 .. Pieces("encode", t) |->
                           IF "v1" = "v1" THEN FeaturesV1(FramesOf(k - 1, t))
                                          ELSE FeaturesV2(FramesOf(k - 1, t))], FALSE)
    BY <2>1, Zenon
  <2>3. "v1" \in {"v1", "v2"} /\ ~ FALSE
    OBVIOUS
  <2> QED
    BY <1>1, <2>2, <2>3, EncodeKeepsLists, Zenon
<1>10. CASE encode_cond_v2
  <2>1. PICK t \in CondLengths :
          EncodeCond("v2", [k \in 1 .. Pieces("encode", t) |-> FeaturesV2(FramesOf(k - 1, t))],
                     ~ ZeroConvsFit)
    BY <1>10, Zenon DEF encode_cond_v2
  <2>2. EncodeCond("v2", [k \in 1 .. Pieces("encode", t) |->
                           IF "v2" = "v1" THEN FeaturesV1(FramesOf(k - 1, t))
                                          ELSE FeaturesV2(FramesOf(k - 1, t))], ~ ZeroConvsFit)
    <3>1. "v2" # "v1"
      OBVIOUS
    <3> QED
      BY <2>1, <3>1, Zenon
  <2>3. "v2" \in {"v1", "v2"} /\ ~ (~ ZeroConvsFit)
    <3>1. ZeroConvsFit
      BY ZeroConvsAreFitting, Zenon DEF CondInv
    <3> QED
      BY <3>1
  <2> DEFINE raises == ~ ZeroConvsFit
  <2> HIDE DEF raises
  <2> QED
    BY <1>1, <2>2, <2>3, EncodeKeepsLists, Zenon DEF raises
<1>11. ASSUME NEW form \in {"v1", "v2"}, DecodeWith(form) PROVE CondInv'
  <2>1. /\ add_feats # None /\ add_feats.form = form
        /\ Begin("decode", Len(add_feats.lists), form)
    BY <1>11, Zenon DEF DecodeWith
  <2>2. form # None
    BY FormAssumption
  <2> QED
    BY <1>1, <2>1, <2>2, BeginKeepsLists, Zenon
<1> QED
  BY <1>2, <1>3, <1>4, <1>5, <1>6, <1>7, <1>8, <1>9, <1>10, <1>11
     DEF CondNext, Next, decode_v1, decode_v2

-----------------------------------------------------------------------------
\* At every moment the lists hold what is still to be popped, whatever was
\* encoded, decoded or interrupted before.
THEOREM CondInvariant == CondSpec => []CondInv
<1>1. CondInit => CondInv
  BY DEF CondInit, Init, CondInv
<1> QED
  BY <1>1, ClipInvariant, CondInvStep, PTL DEF CondSpec

\* What was added, as the layer that made taps sees it.
LEMMA AddedFeature ==
  ASSUME ClipInv, CondInv, call # None, feat # None
  PROVE  LET v == LastLayer
             r == RateAt("decode", v + 1)
             s == PieceAt(4, i)
             f == 2 ^ DoublingsAfter(v)
             p == [m \in DOMAIN s |-> <<s[m]>>]
         IN  /\ call.cond \in {"v1", "v2"} /\ i \in Nat
             /\ Rhythm(DoublingsAfter(v), r)
             /\ DOMAIN taps = 1 .. Width(r, i) /\ Len(taps) = Width(r, i)
             /\ made[v] - Len(taps) = Given(r, i) /\ Given(r, i) \in Nat
             /\ feat.level = LevelAfter(v)
             /\ feat.at = IF call.cond = "v1" THEN pixel_shuffle(s, f)
                                              ELSE FitV2(p, Width(r, i))
<1> DEFINE v == u - 1
           r == RateAt("decode", v + 1)
           s == PieceAt(4, i)
           f == 2 ^ DoublingsAfter(v)
           p == [m \in DOMAIN s |-> <<s[m]>>]
           w == Width(r, i)
           at1 == pixel_shuffle(s, f)
           at2 == FitV2(p, w)
           head == FeatureAt(call.cond, i, EndsUpTo(Decoder3d, v))
<1>1. call.cond # None /\ call.op = "decode" /\ call.cond = add_feats.form
      /\ ListsLeft /\ FeatureAdded
  BY Zenon DEF CondInv
<1>2. call.cond \in {"v1", "v2"}
  BY <1>1, Zenon DEF ListsLeft
<1>3. /\ i \in 0 .. Pieces("decode", call.n) /\ u \in 0 .. Len(Decoder3d)
      /\ made = [k \in 1 .. Len(Decoder3d) |-> Given(RateAt("decode", k + 1), Done(k))]
      /\ call.n \in Nat \ {0}
  <2>1. Progress
    BY Zenon DEF ClipInv
  <2>2. Network("decode") = Decoder3d
    BY DEF Network
  <2> QED
    BY <1>1, <2>1, <2>2, Zenon DEF Progress
<1>4. Len(Decoder3d) \in Nat /\ Pieces("decode", call.n) \in Nat
  <2>1. "decode" \in Operations /\ Network("decode") = Decoder3d
    BY DEF Network, Operations
  <2> QED
    BY <1>3, <2>1, Rates, PieceIsPieceAt
<1>5. /\ u > 1 /\ Decoder3d[v][2]
      /\ Len(taps) = Width(RateAt("decode", u), i) /\ DOMAIN taps = 1 .. Width(RateAt("decode", u), i)
      /\ feat = IF call.cond = "v1" THEN head
                ELSE [head EXCEPT !.at = FitV2(@, Width(RateAt("decode", u), i))]
  BY <1>1, Zenon DEF FeatureAdded
<1>6. v \in 1 .. Len(Decoder3d) /\ LastLayer = v /\ v + 1 = u /\ i \in Nat /\ v < u
  <2> DEFINE n == Len(Decoder3d)
             q == Pieces("decode", call.n)
  <2>1. n \in Nat /\ q \in Nat /\ u \in 0 .. n /\ i \in 0 .. q /\ u > 1
    BY <1>3, <1>4, <1>5, Zenon
  <2> HIDE DEF n, q
  <2>2. v \in 1 .. n /\ v + 1 = u /\ i \in Nat /\ v < u /\ u > 0
    BY <2>1
  <2>3. LastLayer = v
    BY <2>2, Zenon DEF LastLayer
  <2> QED
    BY <2>2, <2>3, Zenon DEF n
<1>7. Rhythm(DoublingsAfter(v), r)
  BY <1>6, DoublingsAndRate, Zenon
<1>8. made[v] = Given(r, i + 1)
  <2>1. Done(v) = i + 1
    BY <1>6, Zenon DEF Done
  <2> QED
    BY <1>3, <1>6, <2>1, Zenon
<1>9. made[v] - w = Given(r, i) /\ Given(r, i) \in Nat
  <2>1. r \in {1, 2, 4}
    BY RateType, Zenon
  <2> HIDE DEF r, v
  <2>2. Given(r, i) \in Nat /\ w \in Nat /\ Given(r, i + 1) = Given(r, i) + w
    BY <1>6, <2>1, GivenFrames
  <2> HIDE DEF w
  <2> QED
    BY <1>8, <2>2
<1>10. /\ FeatureAt("v1", i, EndsUpTo(Decoder3d, v)) = [level |-> LevelAfter(v), at |-> at1]
       /\ FeatureAt("v2", i, EndsUpTo(Decoder3d, v)) = [level |-> LevelAfter(v), at |-> p]
  BY <1>5, <1>6, FeatureOfEnd, Zenon
<1>11. w = Width(RateAt("decode", u), i)
  BY <1>6, Zenon
<1>12. feat.level = LevelAfter(v) /\ feat.at = IF call.cond = "v1" THEN at1 ELSE at2
  <2> DEFINE l == LevelAfter(v)
             h == head
             Fit(z) == FitV2(z, w)
  <2>1. feat = IF call.cond = "v1" THEN h ELSE [h EXCEPT !.at = Fit(@)]
    BY <1>5, <1>11, Zenon
  <2>2. at2 = Fit(p)
    OBVIOUS
  <2>3. h = [level |-> l, at |-> IF call.cond = "v1" THEN at1 ELSE p]
    BY <1>2, <1>10, Zenon
  <2> HIDE DEF l, h, Fit, at1, at2, p
  <2>4. CASE call.cond = "v1"
    BY <2>1, <2>3, <2>4 DEF l
  <2>5. CASE call.cond # "v1"
    BY <2>1, <2>2, <2>3, <2>5 DEF l
  <2> QED
    BY <2>4, <2>5
<1>13. /\ DOMAIN taps = 1 .. w /\ Len(taps) = w
  BY <1>5, <1>11, Zenon
<1> QED
  BY <1>2, <1>6, <1>7, <1>9, <1>12, <1>13, Zenon

\* Encoding never raises: there is a convolution for every feature.  What is
\* added to a module's frames has their size and their number, or is one frame,
\* and when a piece has gone through none of its features is left.
THEOREM FeaturesAreFitting == CondSpec => []FeaturesFit
<1>1. ASSUME ClipInv, CondInv PROVE FeaturesFit
  <2>1. ASSUME add_feats # None PROVE ~ add_feats.raised
    BY <1>1, <2>1, Zenon DEF CondInv, ListsLeft
  <2>2. ASSUME call # None, feat # None
        PROVE  feat.level = LevelAfter(LastLayer) /\ Len(feat.at) \in {1, Len(taps)}
    <3> DEFINE r == RateAt("decode", LastLayer + 1)
               s == PieceAt(4, i)
               d == DoublingsAfter(LastLayer)
               p == [m \in DOMAIN s |-> <<s[m]>>]
    <3>1. /\ call.cond \in {"v1", "v2"} /\ i \in Nat /\ Rhythm(d, r)
          /\ Len(taps) = Width(r, i) /\ feat.level = LevelAfter(LastLayer)
          /\ feat.at = IF call.cond = "v1" THEN pixel_shuffle(s, 2 ^ d)
                                           ELSE FitV2(p, Width(r, i))
      BY <1>1, <2>2, AddedFeature, Zenon
    <3>2. /\ Len(pixel_shuffle(s, 2 ^ d)) \in {1, Width(r, i)}
          /\ Len(FitV2(p, Width(r, i))) = Width(r, i)
      BY <3>1, ShuffledFrames, FittedFrames, Zenon
    <3> HIDE DEF r, s, d, p
    <3> QED
      BY <3>1, <3>2, Zenon
  <2>3. ASSUME call # None, u = 0, add_feats # None, NEW k \in 1 .. i
        PROVE  add_feats.lists[k] = <<>>
    <3>1. /\ call.cond # None /\ call.op = "decode" /\ call.n = Len(add_feats.lists)
          /\ ListsLeft /\ Progress
      BY <1>1, <2>3, Zenon DEF CondInv, ClipInv
    <3>2. call.n \in Nat \ {0} /\ i \in 0 .. call.n
      <4>1. Pieces("decode", call.n) = call.n
        BY DEF Pieces
      <4> QED
        BY <3>1, <4>1, Zenon DEF Progress
    <3> DEFINE n == call.n
    <3>3. k \in 1 .. n /\ k <= i /\ ~ (k > i + 1)
      <4>1. n \in Nat /\ i \in 0 .. n
        BY <3>2
      <4> HIDE DEF n
      <4> QED
        BY <4>1
    <3>4. Popped(k) = NumFeatures
      BY <2>3, <3>3, Zenon DEF Popped
    <3>5. add_feats.lists[k] = Rest(add_feats.form, k - 1, Popped(k))
      BY <3>1, <3>3, Zenon DEF ListsLeft
    <3>6. 0 \in Nat
      OBVIOUS
    <3> QED
      BY <3>4, <3>5, <3>6, PopOne, Zenon
  <2> QED
    BY <2>1, <2>2, <2>3, Zenon DEF FeaturesFit
<1> QED
  BY <1>1, ClipInvariant, CondInvariant, PTL

\* Conditioning meets the frames it is about, in both forms of the decoder, after
\* every module and in every piece of a clip.
THEOREM ConditioningIsAligned == CondSpec => []CondAligned
<1>1. ASSUME ClipInv, CondInv PROVE CondAligned
  <2> SUFFICES ASSUME call # None, feat # None, NEW m \in DOMAIN taps
               PROVE  LET doubled == DoublingsAfter(LastLayer)
                          j == made[LastLayer] - Len(taps) + m - 1
                      IN  IF call.cond = "v1"
                          THEN ToSet(FrameOfFeature(m)) = Covers(j, doubled)
                          ELSE /\ ToSet(FrameOfFeature(m))
                                    \subseteq Covers(LatentOf(j, doubled), Cardinality(TimeDown))
                               /\ doubled = 0 => FrameOfFeature(m) = <<j>>
    BY Zenon DEF CondAligned
  <2> DEFINE r == RateAt("decode", LastLayer + 1)
             s == PieceAt(4, i)
             d == DoublingsAfter(LastLayer)
             p == [k \in DOMAIN s |-> <<s[k]>>]
             w == Width(r, i)
             b == made[LastLayer] - Len(taps)
  <2>1. /\ call.cond \in {"v1", "v2"} /\ i \in Nat /\ Rhythm(d, r)
        /\ DOMAIN taps = 1 .. w /\ b = Given(r, i)
        /\ feat.at = IF call.cond = "v1" THEN pixel_shuffle(s, 2 ^ d) ELSE FitV2(p, w)
    BY <1>1, AddedFeature, Zenon
  <2>2. m \in 1 .. w
    BY <2>1, Zenon
  <2>3. FrameOfFeature(m) = FrameOf(feat.at, m)
    BY Zenon DEF FrameOfFeature, FrameOf
  <2>4. ToSet(FrameOf(pixel_shuffle(s, 2 ^ d), m)) = Covers(Given(r, i) + m - 1, d)
    BY <2>1, <2>2, ShuffledFrames, Zenon
  <2>5. LET j == Given(r, i) + m - 1
            at == FitV2(p, w)
        IN  /\ ToSet(FrameOf(at, m)) \subseteq Covers(LatentOf(j, d), Cardinality(TimeDown))
            /\ d = 0 => FrameOf(at, m) = <<j>>
    BY <2>1, <2>2, FittedFrames, Zenon
  <2> HIDE DEF r, s, p, w, b, d
  <2> QED
    BY <2>1, <2>3, <2>4, <2>5, Zenon DEF b, d
<1> QED
  BY <1>1, ClipInvariant, CondInvariant, PTL
=============================================================================
