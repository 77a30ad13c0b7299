-------------------------- MODULE ConversionProofs ---------------------------
(***************************************************************************)
(* Proofs about the conversions, for inputs of any size: TLC compares them *)
(* with their reference definitions over the samples of MCCodecs only.     *)
(***************************************************************************)
EXTENDS MCCodecs, TLAPS, SequenceTheorems, FiniteSetTheorems, WellFoundedInduction

-----------------------------------------------------------------------------
(* UTF-8 *)

LEMMA Remainders ==
  ASSUME NEW ch \in Nat
  PROVE  /\ ch = 64 * (ch \div 64) + (ch % 64)
         /\ ch = 4096 * (ch \div 4096) + 64 * ((ch \div 64) % 64) + (ch % 64)
         /\ ch \div 64 \in Nat /\ ch % 64 \in Nat /\ ch \div 4096 \in Nat
         /\ (ch \div 64) % 64 \in Nat
<1>1. ch = 64 * (ch \div 64) + (ch % 64)
  BY SMT
<1>2. ch = 4096 * (ch \div 4096) + 64 * ((ch \div 64) % 64) + (ch % 64)
  BY SMT
<1>3. ch \div 64 \in Nat /\ ch % 64 \in Nat
  BY SMT
<1>4. ch \div 4096 \in Nat
  BY SMT
<1>5. (ch \div 64) % 64 \in Nat
  BY SMT
<1>6. QED
  BY <1>1, <1>2, <1>3, <1>4, <1>5, SMT

(* For every code unit: what decodeUCS2 makes of it (sms.cpp:58-75) is the
   shortest form of UTF-8 that holds it, and holds no other. *)
THEOREM Utf8Holds ==
  ASSUME NEW ch \in Nat
  PROVE  CodeUnit(Utf8(ch)) = ch /\ Len(Utf8(ch)) = Utf8Length(ch)
<1>1. CASE ch < 128
  <2>1. Utf8(ch) = <<ch>>
    BY <1>1, SMT DEF Utf8
  <2>2. Len(<<ch>>) = 1 /\ CodeUnit(<<ch>>) = ch
    BY SMT DEF CodeUnit
  <2>3. QED
    BY <1>1, <2>1, <2>2, SMT DEF Utf8Length
<1>2. CASE ~ (ch < 128) /\ ch < 2048
  <2> DEFINE hi == ch \div 64
             lo == ch % 64
  <2>1. Utf8(ch) = <<192 + hi, 128 + lo>>
    BY <1>2, SMT DEF Utf8
  <2>2. hi \in Nat /\ lo \in Nat /\ ch = 64 * hi + lo
    BY Remainders, SMT
  <2> HIDE DEF hi, lo
  <2>3. CodeUnit(<<192 + hi, 128 + lo>>) = 64 * hi + lo
    BY <2>2, SMT DEF CodeUnit
  <2>4. QED
    BY <1>2, <2>1, <2>2, <2>3, SMT DEF Utf8Length
<1>3. CASE ~ (ch < 128) /\ ~ (ch < 2048)
  <2> DEFINE hi == ch \div 4096
             mid == (ch \div 64) % 64
             lo == ch % 64
  <2>1. Utf8(ch) = <<224 + hi, 128 + mid, 128 + lo>>
    BY <1>3, SMT DEF Utf8
  <2>2. /\ hi \in Nat /\ mid \in Nat /\ lo \in Nat
        /\ ch = 4096 * hi + 64 * mid + lo
    BY Remainders, SMT
  <2> HIDE DEF hi, mid, lo
  <2>3. CodeUnit(<<224 + hi, 128 + mid, 128 + lo>>) = 4096 * hi + 64 * mid + lo
    BY <2>2, SMT DEF CodeUnit
  <2>4. QED
    BY <1>3, <2>1, <2>2, <2>3, SMT DEF Utf8Length
<1>4. QED
  BY <1>1, <1>2, <1>3, SMT

-----------------------------------------------------------------------------
(* Sequences: induction over the texts of an alphabet, and FlattenSeq *)

LEMMA LeastOf ==
  ASSUME NEW I \in SUBSET Nat, I # {}
  PROVE  P!Min(I) \in I /\ \A i \in I : P!Min(I) <= i
<1> DEFINE R == OpToRel(<, Nat)
<1>0. IsWellFoundedOn(R, Nat)
  BY NatLessThanWellFounded
<1>1. PICK k \in I : \A i \in I : ~ (<<i, k>> \in R)
  <2> HIDE DEF R
  <2>1. QED
    BY <1>0, WFMin
<1>2. \A i \in I : k <= i
  <2> SUFFICES ASSUME NEW i \in I, i < k
               PROVE  FALSE
    BY SMT
  <2>1. <<i, k>> \in R
    BY SMT DEF OpToRel
  <2>2. QED
    BY <1>1, <2>1, Zenon
<1>3. QED
  BY <1>2, Zenon DEF P!Min

LEMMA FunctionsAreSeqs ==
  \A T : \A n \in Nat : \A f \in [1 .. n -> T] : f \in Seq(T) /\ Len(f) = n
<1> SUFFICES ASSUME NEW T, NEW n \in Nat, NEW f \in [1 .. n -> T]
             PROVE  f \in Seq(T) /\ Len(f) = n
  BY Zenon
<1>1. f \in Seq(T)
  BY SeqDef, Zenon
<1>2. DOMAIN f = 1 .. n /\ DOMAIN f = 1 .. Len(f) /\ Len(f) \in Nat
  BY <1>1, LenProperties
<1>3. Len(f) = n
  BY <1>2, SMT
<1>4. QED
  BY <1>1, <1>3

(* A set of texts that has the empty one, and each of its texts with any one
   character more, has all texts. *)
LEMMA TextInduction ==
  ASSUME NEW S, NEW Good, <<>> \in Good,
         \A t \in Seq(S) : t \in Good => \A c \in S : Append(t, c) \in Good
  PROVE  \A t \in Seq(S) : t \in Good
<1> DEFINE I == {Len(t) : t \in Seq(S) \ Good}
<1>1. CASE I = {}
  BY <1>1, Zenon
<1>2. CASE I # {}
  <2>1. I \in SUBSET Nat
    BY LenProperties, Zenon
  <2>2. PICK k \in I : \A i \in I : k <= i
    BY <1>2, <2>1, LeastOf, Zenon
  <2>3. PICK t \in Seq(S) \ Good : k = Len(t)
    BY <2>2, Zenon
  <2>4. t # <<>>
    BY <2>3, Zenon
  <2>5. PICK u \in Seq(S), c \in S : t = Append(u, c)
    BY <2>3, <2>4, SequenceEmptyOrAppend, Zenon
  <2>6. k = Len(u) + 1 /\ Len(u) \in Nat
    BY <2>3, <2>5, AppendProperties, LenProperties, Zenon
  <2>7. u \notin Good
    BY <2>3, <2>5, Zenon
  <2>8. Len(u) \in I
    BY <2>7, Zenon
  <2> HIDE DEF I
  <2>9. k <= Len(u)
    BY <2>2, <2>8, Zenon
  <2>10. QED
    BY <2>6, <2>9, SMT
<1>3. QED
  BY <1>1, <1>2, Zenon

(* The prefixes of a sequence of texts, each flattened *)
IsFlat(f, texts, n) ==
  f = [i \in 1 .. n |-> IF i = 1 THEN texts[i] ELSE f[i - 1] \o texts[i]]

LEMMA FlatExtended ==
  ASSUME NEW S, NEW texts \in Seq(Seq(S)), NEW n \in Nat, n + 1 <= Len(texts),
         NEW g \in [1 .. n -> Seq(S)], IsFlat(g, texts, n)
  PROVE  \E h \in [1 .. n + 1 -> Seq(S)] : IsFlat(h, texts, n + 1)
<1> DEFINE last == IF n = 0 THEN texts[1] ELSE g[n] \o texts[n + 1]
           h == [i \in 1 .. n + 1 |-> IF i = n + 1 THEN last ELSE g[i]]
           value(i) == IF i = 1 THEN texts[i] ELSE h[i - 1] \o texts[i]
<1>0. /\ 1 \in 1 .. Len(texts) /\ n + 1 \in 1 .. Len(texts)
      /\ texts[1] \in Seq(S) /\ texts[n + 1] \in Seq(S)
  <2>1. Len(texts) \in Nat
    BY LenProperties
  <2>2. 1 \in 1 .. Len(texts) /\ n + 1 \in 1 .. Len(texts)
    BY <2>1, SMT
  <2>3. QED
    BY <2>2, ElementOfSeq, Zenon
<1>1. last \in Seq(S)
  <2>1. CASE n = 0
    BY <1>0, <2>1, Zenon
  <2>2. CASE n # 0
    <3>1. n \in 1 .. n
      BY <2>2, SMT
    <3>2. g[n] \in Seq(S)
      BY <3>1, Zenon
    <3>3. g[n] \o texts[n + 1] \in Seq(S)
      BY <1>0, <3>2, ConcatProperties, Zenon
    <3>4. QED
      BY <2>2, <3>3, Zenon
  <2>3. QED
    BY <2>1, <2>2, Zenon
<1>2. ASSUME NEW i \in 1 .. n + 1
      PROVE  h[i] \in Seq(S) /\ h[i] = value(i)
  <2>1. CASE i = n + 1
    <3>1. h[i] = last
      BY <2>1, Zenon
    <3>2. CASE n = 0
      <4>1. i = 1 /\ last = texts[1]
        BY <2>1, <3>2, SMT
      <4> HIDE DEF last
      <4>2. QED
        BY <1>1, <3>1, <4>1, Zenon
    <3>3. CASE n # 0
      <4>1. i # 1 /\ n \in 1 .. n + 1 /\ n # n + 1 /\ i - 1 = n
        BY <2>1, <3>3, SMT
      <4>2. h[n] = g[n]
        BY <4>1, Zenon
      <4>3. last = g[n] \o texts[n + 1]
        BY <3>3, Zenon
      <4> HIDE DEF last, h
      <4>4. QED
        BY <1>1, <2>1, <3>1, <4>1, <4>2, <4>3, Zenon
    <3>4. QED
      BY <3>2, <3>3, Zenon
  <2>2. CASE i # n + 1
    <3>1. i \in 1 .. n /\ i - 1 \in 0 .. n /\ (i # 1 => i - 1 \in 1 .. n + 1 /\ i - 1 # n + 1)
      BY <2>2, SMT
    <3>2. h[i] = g[i] /\ g[i] \in Seq(S)
      BY <2>2, <3>1, Zenon
    <3>3. g[i] = IF i = 1 THEN texts[i] ELSE g[i - 1] \o texts[i]
      BY <3>1, Zenon DEF IsFlat
    <3>4. i # 1 => h[i - 1] = g[i - 1]
      BY <3>1, Zenon
    <3>5. QED
      BY <3>2, <3>3, <3>4, Zenon
  <2>3. QED
    BY <2>1, <2>2, Zenon
<1>3. h = [i \in 1 .. n + 1 |-> h[i]]
  BY Zenon
<1> HIDE DEF h
<1>4. h = [i \in 1 .. n + 1 |-> value(i)] /\ h \in [1 .. n + 1 -> Seq(S)]
  BY <1>2, <1>3, Zenon
<1>5. QED
  BY <1>4, Zenon DEF IsFlat

LEMMA FlatExists ==
  ASSUME NEW S, NEW texts \in Seq(Seq(S))
  PROVE  \E f \in [1 .. Len(texts) -> Seq(S)] : IsFlat(f, texts, Len(texts))
<1> DEFINE has(n) == \E f \in [1 .. n -> Seq(S)] : IsFlat(f, texts, n)
           I == {n \in 0 .. Len(texts) : ~ has(n)}
<1>0. Len(texts) \in Nat
  BY LenProperties
<1>1. has(0)
  <2> DEFINE f == [i \in 1 .. 0 |-> <<>>]
  <2>1. ~ \E i : i \in 1 .. 0
    BY SMT
  <2>2. f = [i \in 1 .. 0 |-> IF i = 1 THEN texts[i] ELSE f[i - 1] \o texts[i]]
    BY <2>1, Zenon
  <2>3. f \in [1 .. 0 -> Seq(S)]
    BY <2>1, Zenon
  <2> HIDE DEF f
  <2>4. QED
    BY <2>2, <2>3, Zenon DEF IsFlat
<1>2. ASSUME NEW n \in Nat, n + 1 <= Len(texts), has(n)
      PROVE  has(n + 1)
  BY <1>2, FlatExtended, Zenon
<1> HIDE DEF has
<1>3. CASE I # {}
  <2>1. I \in SUBSET Nat
    BY <1>0, SMT
  <2>2. PICK k \in I : \A i \in I : k <= i
    BY <1>3, <2>1, LeastOf, Zenon
  <2>3. k \in 0 .. Len(texts) /\ ~ has(k)
    BY <2>2, Zenon
  <2>4. k # 0
    BY <1>1, <2>3, Zenon
  <2> DEFINE p == k - 1
  <2>5. p \in 0 .. Len(texts) /\ p \in Nat /\ ~ (k <= p) /\ p + 1 = k /\ k <= Len(texts)
    BY <1>0, <2>3, <2>4, SMT
  <2> HIDE DEF p
  <2>6. has(p)
    BY <2>2, <2>5, Zenon
  <2>7. p + 1 <= Len(texts)
    BY <2>5, Zenon
  <2>8. QED
    BY <1>2, <2>3, <2>5, <2>6, <2>7, Zenon
<1>4. CASE I = {}
  <2>1. Len(texts) \in 0 .. Len(texts)
    BY <1>0, SMT
  <2>2. QED
    BY <1>4, <2>1, Zenon DEF has
<1>5. QED
  BY <1>3, <1>4

Alike(s, t, n) == \A i \in 1 .. n : s[i] = t[i]

(* Sequences that begin alike are flattened alike. *)
LEMMA FlatAgree ==
  \A m \in Nat : \A n \in m .. (m + 1) : \A f, g, texts, more :
    IsFlat(f, texts, m) /\ IsFlat(g, more, n) /\ Alike(texts, more, m) => Alike(f, g, m)
<1> SUFFICES ASSUME NEW m \in Nat, NEW n \in m .. (m + 1),
                    NEW f, NEW g, NEW texts, NEW more,
                    IsFlat(f, texts, m), IsFlat(g, more, n), Alike(texts, more, m)
             PROVE  Alike(f, g, m)
  BY Zenon
<1> DEFINE I == {i \in 1 .. m : f[i] # g[i]}
<1>1. CASE I = {}
  BY <1>1, Zenon DEF Alike
<1>2. CASE I # {}
  <2>1. I \in SUBSET Nat
    BY SMT
  <2>2. PICK k \in I : \A i \in I : k <= i
    BY <1>2, <2>1, LeastOf, Zenon
  <2>3. k \in 1 .. m /\ f[k] # g[k]
    BY <2>2, Zenon
  <2>4. k \in 1 .. n /\ (k # 1 => k - 1 \in 1 .. m /\ ~ (k <= k - 1))
    BY <2>3, SMT
  <2>5. k # 1 => f[k - 1] = g[k - 1]
    BY <2>2, <2>4, Zenon
  <2>6. f[k] = IF k = 1 THEN texts[k] ELSE f[k - 1] \o texts[k]
    BY <2>3, Zenon DEF IsFlat
  <2>7. g[k] = IF k = 1 THEN more[k] ELSE g[k - 1] \o more[k]
    BY <2>4, Zenon DEF IsFlat
  <2>8. texts[k] = more[k]
    BY <2>3, Zenon DEF Alike
  <2>9. QED
    BY <2>3, <2>5, <2>6, <2>7, <2>8, Zenon
<1>3. QED
  BY <1>1, <1>2, Zenon

LEMMA FlattenIs ==
  ASSUME NEW S, NEW texts \in Seq(Seq(S)), texts # <<>>
  PROVE  \E f \in [1 .. Len(texts) -> Seq(S)] :
           IsFlat(f, texts, Len(texts)) /\ FlattenSeq(texts) = f[Len(texts)]
<1> DEFINE n == Len(texts)
           g == CHOOSE f : f = [i \in 1 .. n |->
                  IF i = 1 THEN texts[i] ELSE f[i - 1] \o texts[i]]
<1>0. n \in Nat /\ n # 0
  BY EmptySeq, SMT
<1>1. FlattenSeq(texts) = g[n]
  BY <1>0, Zenon DEF FlattenSeq
<1>2. PICK h \in [1 .. n -> Seq(S)] : IsFlat(h, texts, n)
  BY FlatExists, Zenon
<1>3. IsFlat(g, texts, n)
  BY <1>2, Zenon DEF IsFlat
<1> HIDE DEF n, g
<1>4. \A i \in 1 .. n : g[i] = h[i]
  <2>1. n \in n .. (n + 1)
    BY <1>0, SMT
  <2>2. Alike(texts, texts, n)
    BY Zenon DEF Alike
  <2>3. Alike(g, h, n)
    BY <1>0, <1>2, <1>3, <2>1, <2>2, FlatAgree, Zenon
  <2>4. QED
    BY <2>3, Zenon DEF Alike
<1>5. g = [i \in 1 .. n |-> g[i]]
  BY <1>3, Zenon DEF IsFlat
<1>6. g \in [1 .. n -> Seq(S)]
  BY <1>4, <1>5, Zenon
<1>7. QED
  BY <1>1, <1>3, <1>6, Zenon DEF n

(* FlattenSeq of no texts, and of one text more *)
LEMMA FlattenAppend ==
  ASSUME NEW S, NEW texts \in Seq(Seq(S)), NEW t \in Seq(S)
  PROVE  /\ FlattenSeq(<<>>) = <<>>
         /\ FlattenSeq(texts) \in Seq(S)
         /\ FlattenSeq(Append(texts, t)) = FlattenSeq(texts) \o t
<1> DEFINE more == Append(texts, t)
           m == Len(texts)
           n == Len(more)
<1>1. FlattenSeq(<<>>) = <<>>
  <2>1. Len(<<>>) = 0
    OBVIOUS
  <2>2. QED
    BY <2>1, Zenon DEF FlattenSeq
<1>2. /\ more \in Seq(Seq(S)) /\ n = m + 1 /\ m \in Nat /\ more[m + 1] = t
      /\ more # <<>> /\ Alike(texts, more, m)
  <2> DEFINE T == Seq(S)
  <2>1. t \in T /\ texts \in Seq(T)
    OBVIOUS
  <2> HIDE DEF T
  <2>2. /\ more \in Seq(T) /\ more # <<>> /\ n = m + 1 /\ m \in Nat
        /\ more[m + 1] = t /\ \A i \in 1 .. m : more[i] = texts[i]
    BY <2>1, AppendProperties, LenProperties
  <2>3. QED
    BY <2>2, Zenon DEF Alike, T
<1> HIDE DEF more
<1>4. PICK g \in [1 .. n -> Seq(S)] : IsFlat(g, more, n) /\ FlattenSeq(more) = g[n]
  BY <1>2, FlattenIs, Zenon
<1>5. n \in 1 .. n /\ (m # 0 => n # 1 /\ n - 1 = m /\ m \in 1 .. m) /\ n \in m .. (m + 1)
  BY <1>2, SMT
<1>6. g[n] = IF n = 1 THEN more[n] ELSE g[n - 1] \o more[n]
  BY <1>4, <1>5, Zenon DEF IsFlat
<1>7. CASE texts = <<>>
  <2>1. m = 0 /\ n = 1
    BY <1>2, <1>7
  <2>2. <<>> \o t = t
    BY ConcatEmptySeq, Zenon
  <2>3. more[n] = t
    BY <1>2, Zenon
  <2>4. <<>> \in Seq(S)
    BY EmptySeq, Zenon
  <2>5. QED
    BY <1>1, <1>4, <1>6, <1>7, <2>1, <2>2, <2>3, <2>4, Zenon DEF more
<1>8. CASE texts # <<>>
  <2>1. m # 0
    BY <1>8, EmptySeq, SMT
  <2>2. PICK f \in [1 .. m -> Seq(S)] : IsFlat(f, texts, m) /\ FlattenSeq(texts) = f[m]
    BY <1>8, FlattenIs, Zenon
  <2>3. Alike(f, g, m)
    <3> HIDE DEF m, n
    <3>1. QED
      BY <1>2, <1>4, <1>5, <2>2, FlatAgree, Zenon
  <2>4. f[m] = g[m] /\ f[m] \in Seq(S)
    BY <1>5, <2>1, <2>3, Zenon DEF Alike
  <2>5. g[n] = g[m] \o t
    BY <1>2, <1>5, <1>6, <2>1, Zenon
  <2>6. QED
    BY <1>1, <1>4, <2>2, <2>4, <2>5, Zenon DEF more
<1>9. QED
  BY <1>7, <1>8

-----------------------------------------------------------------------------
(* Pieces of one length *)

LEMMA Multiples ==
  \A w, n \in Nat :
    /\ w * n \in Nat /\ w * (n + 1) = w * n + w /\ w * 0 = 0
    /\ \A k \in 1 .. n : k - 1 \in Nat /\ w * (k - 1) \in Nat /\ w * (k - 1) + w <= w * n
<1> SUFFICES ASSUME NEW w \in Nat, NEW n \in Nat
             PROVE  /\ w * n \in Nat /\ w * (n + 1) = w * n + w /\ w * 0 = 0
                    /\ \A k \in 1 .. n : k - 1 \in Nat /\ w * (k - 1) \in Nat /\ w * (k - 1) + w <= w * n
  BY Zenon
<1>1. w * n \in Nat /\ w * (n + 1) = w * n + w /\ w * 0 = 0
  BY SMT
<1>2. ASSUME NEW k \in 1 .. n
      PROVE  k - 1 \in Nat /\ w * (k - 1) \in Nat /\ w * (k - 1) + w <= w * n
  <2>1. k - 1 \in Nat /\ w * (k - 1) \in Nat
    BY SMT
  <2>2. PICK d \in Nat : n = (k - 1) + 1 + d
    <3>1. n - k \in Nat /\ n = (k - 1) + 1 + (n - k)
      BY SMT
    <3>2. QED
      BY <3>1, Zenon
  <2>3. w * n = w * (k - 1) + w + w * d /\ w * d \in Nat
    <3> DEFINE h == k - 1
    <3>1. h \in Nat /\ n = h + 1 + d
      BY <2>1, <2>2
    <3> HIDE DEF h
    <3>2. w * n = w * h + w + w * d /\ w * d \in Nat
      BY <3>1, SMT
    <3>3. QED
      BY <3>2, Zenon DEF h
  <2>4. QED
    BY <2>1, <2>3, SMT
<1>3. QED
  BY <1>1, <1>2, Zenon

(* Sequences of one length, one after the other *)
InBlocks(whole, blocks, w) ==
  /\ Len(whole) = w * Len(blocks)
  /\ \A k \in 1 .. Len(blocks) : \A j \in 1 .. w : whole[w * (k - 1) + j] = blocks[k][j]

Blocks(S, w) == {q \in Seq(S) : Len(q) = w}

LEMMA FlattenBlocks ==
  \A S : \A w \in Nat : \A blocks \in Seq(Blocks(S, w)) :
    FlattenSeq(blocks) \in Seq(S) /\ InBlocks(FlattenSeq(blocks), blocks, w)
<1> SUFFICES ASSUME NEW S, NEW w \in Nat
             PROVE  \A blocks \in Seq(Blocks(S, w)) :
                      FlattenSeq(blocks) \in Seq(S) /\ InBlocks(FlattenSeq(blocks), blocks, w)
  BY Zenon
<1> DEFINE B == Blocks(S, w)
           Good == {b \in Seq(B) : FlattenSeq(b) \in Seq(S) /\ InBlocks(FlattenSeq(b), b, w)}
<1>1. <<>> \in Good
  <2>1. <<>> \in Seq(S) /\ <<>> \in Seq(B) /\ Len(<<>>) = 0
    BY EmptySeq, Zenon
  <2>2. FlattenSeq(<<>>) = <<>>
    <3>1. <<>> \in Seq(Seq(S))
      BY EmptySeq, Zenon
    <3>2. QED
      BY <2>1, <3>1, FlattenAppend, Zenon
  <2>3. InBlocks(<<>>, <<>>, w)
    <3>1. Len(<<>>) = w * Len(<<>>) /\ ~ \E k : k \in 1 .. Len(<<>>)
      BY <2>1, SMT
    <3>2. QED
      BY <3>1, Zenon DEF InBlocks
  <2>4. QED
    BY <2>1, <2>2, <2>3, Zenon
<1>2. ASSUME NEW b \in Seq(B), b \in Good, NEW q \in B
      PROVE  Append(b, q) \in Good
  <2> DEFINE more == Append(b, q)
             old == FlattenSeq(b)
             n == Len(b)
  <2>1. q \in Seq(S) /\ Len(q) = w
    BY Zenon DEF Blocks
  <2>2. FlattenSeq(more) = old \o q
    <3>1. b \in Seq(Seq(S))
      <4>1. B \subseteq Seq(S)
        BY Zenon DEF Blocks
      <4> HIDE DEF B
      <4>2. QED
        BY <4>1, SeqMonotonic, Zenon
    <3>2. QED
      BY <2>1, <3>1, FlattenAppend, Zenon
  <2>3. /\ old \in Seq(S) /\ Len(old) = w * n
        /\ \A k \in 1 .. n : \A j \in 1 .. w : old[w * (k - 1) + j] = b[k][j]
    BY <1>2, Zenon DEF InBlocks
  <2> HIDE DEF B
  <2>4. /\ more \in Seq(B) /\ Len(more) = n + 1 /\ more[n + 1] = q /\ n \in Nat
        /\ \A k \in 1 .. n : more[k] = b[k]
    BY AppendProperties, LenProperties
  <2> HIDE DEF old, more, n, Good
  <2> DEFINE new == old \o q
  <2>5. /\ new \in Seq(S) /\ Len(new) = Len(old) + Len(q)
        /\ \A i \in 1 .. Len(old) + Len(q) :
             new[i] = IF i <= Len(old) THEN old[i] ELSE q[i - Len(old)]
    BY <2>1, <2>3, ConcatProperties
  <2> HIDE DEF new
  <2>6. Len(new) = w * (n + 1)
    BY <2>1, <2>3, <2>4, <2>5, Multiples, SMT
  <2>7. ASSUME NEW k \in 1 .. n, NEW j \in 1 .. w
        PROVE  new[w * (k - 1) + j] = more[k][j]
    <3> DEFINE p == w * (k - 1)
               m == w * n
    <3>1. p \in Nat /\ p + w <= m /\ m \in Nat
      BY <2>4, Multiples, Zenon
    <3> HIDE DEF p, m
    <3>2. p + j \in 1 .. m + w /\ p + j <= m
      BY <3>1, SMT
    <3>3. new[p + j] = old[p + j]
      BY <2>1, <2>3, <2>5, <3>2, Zenon DEF m
    <3>4. old[p + j] = b[k][j]
      BY <2>3, Zenon DEF p
    <3>5. QED
      BY <2>4, <3>3, <3>4, Zenon DEF p
  <2>8. ASSUME NEW j \in 1 .. w
        PROVE  new[w * ((n + 1) - 1) + j] = more[n + 1][j]
    <3> DEFINE m == w * n
    <3>1. m \in Nat /\ (n + 1) - 1 = n
      BY <2>4, Multiples, SMT
    <3> HIDE DEF m
    <3>2. m + j \in 1 .. m + w /\ ~ (m + j <= m) /\ (m + j) - m = j
      BY <3>1, SMT
    <3>3. \A i \in 1 .. m + w : new[i] = IF i <= m THEN old[i] ELSE q[i - m]
      BY <2>1, <2>3, <2>5, Zenon DEF m
    <3>4. new[m + j] = q[j]
      BY <3>2, <3>3, Zenon
    <3>5. QED
      BY <2>4, <3>1, <3>4, Zenon DEF m
  <2>9. \A k \in 1 .. n + 1 : k \in 1 .. n \/ k = n + 1
    BY <2>4, SMT
  <2>10. InBlocks(new, more, w)
    <3>1. \A k \in 1 .. n + 1 : \A j \in 1 .. w : new[w * (k - 1) + j] = more[k][j]
      BY <2>7, <2>8, <2>9, Zenon
    <3>2. QED
      BY <2>4, <2>6, <3>1, Zenon DEF InBlocks
  <2>11. QED
    BY <2>2, <2>4, <2>5, <2>10, Zenon DEF Good, more, new
<1> HIDE DEF Good, B
<1>3. \A b \in Seq(B) : b \in Good
  BY <1>1, <1>2, TextInduction, Zenon
<1>4. QED
  BY <1>3, Zenon DEF Good, B

(* Pairs, one after the other *)
Pairing(a, b, n) == FlattenSeq([k \in 1 .. n |-> <<a[k], b[k]>>])

IsPairing(whole, S, a, b, n) ==
  /\ whole \in Seq(S) /\ Len(whole) = 2 * n
  /\ \A k \in 1 .. n : whole[2 * k - 1] = a[k] /\ whole[2 * k] = b[k]

LEMMA PairsFlat ==
  \A S : \A n \in Nat : \A a, b \in [1 .. n -> S] : IsPairing(Pairing(a, b, n), S, a, b, n)
<1> SUFFICES ASSUME NEW S, NEW n \in Nat, NEW a \in [1 .. n -> S], NEW b \in [1 .. n -> S]
             PROVE  IsPairing(Pairing(a, b, n), S, a, b, n)
  BY Zenon
<1> DEFINE blocks == [k \in 1 .. n |-> <<a[k], b[k]>>]
           whole == FlattenSeq(blocks)
<1>1. \A k \in 1 .. n : <<a[k], b[k]>> \in Blocks(S, 2)
  BY SMT DEF Blocks
<1>2. blocks \in [1 .. n -> Blocks(S, 2)]
  BY <1>1, Zenon
<1>3. blocks \in Seq(Blocks(S, 2)) /\ Len(blocks) = n
  <2> DEFINE B == Blocks(S, 2)
  <2>1. blocks \in [1 .. n -> B]
    BY <1>2, Zenon
  <2> HIDE DEF blocks, B
  <2>2. blocks \in Seq(B) /\ Len(blocks) = n
    BY <2>1, FunctionsAreSeqs, Zenon
  <2>3. QED
    BY <2>2, Zenon DEF B
<1>4. whole \in Seq(S) /\ InBlocks(whole, blocks, 2)
  <2>1. 2 \in Nat
    OBVIOUS
  <2> HIDE DEF blocks
  <2>2. QED
    BY <1>3, <2>1, FlattenBlocks, Zenon
<1>5. \A k \in 1 .. n : blocks[k][1] = a[k] /\ blocks[k][2] = b[k]
  OBVIOUS
<1> HIDE DEF blocks, whole
<1>6. \A k \in 1 .. n : whole[2 * k - 1] = a[k] /\ whole[2 * k] = b[k]
  <2>1. 1 \in 1 .. 2 /\ 2 \in 1 .. 2
    BY SMT
  <2>2. \A k \in 1 .. n : whole[2 * (k - 1) + 1] = a[k] /\ whole[2 * (k - 1) + 2] = b[k]
    BY <1>3, <1>4, <1>5, <2>1, Zenon DEF InBlocks
  <2>3. \A k \in 1 .. n : 2 * (k - 1) + 1 = 2 * k - 1 /\ 2 * (k - 1) + 2 = 2 * k
    BY SMT
  <2>4. QED
    BY <2>2, <2>3, Zenon
<1>7. QED
  BY <1>3, <1>4, <1>6, Zenon DEF whole, blocks, Pairing, IsPairing, InBlocks

(* A sequence cut into pairs is put together again. *)
LEMMA PairsJoined ==
  ASSUME NEW S, NEW n \in Nat, NEW t \in Seq(S), Len(t) = 2 * n
  PROVE  FlattenSeq([k \in 1 .. n |-> <<t[2 * k - 1], t[2 * k]>>]) = t
<1> DEFINE a == [k \in 1 .. n |-> t[2 * k - 1]]
           b == [k \in 1 .. n |-> t[2 * k]]
           whole == Pairing(a, b, n)
<1>1. \A k \in 1 .. n : t[2 * k - 1] \in S /\ t[2 * k] \in S
  <2>1. \A k \in 1 .. n : 2 * k - 1 \in 1 .. Len(t) /\ 2 * k \in 1 .. Len(t)
    BY SMT
  <2>2. QED
    BY <2>1, ElementOfSeq, Zenon
<1>2. a \in [1 .. n -> S] /\ b \in [1 .. n -> S]
  BY <1>1, Zenon
<1>3. \A k \in 1 .. n : a[k] = t[2 * k - 1] /\ b[k] = t[2 * k]
  BY Zenon
<1> HIDE DEF a, b
<1>4. /\ whole \in Seq(S) /\ Len(whole) = 2 * n
      /\ \A k \in 1 .. n : whole[2 * k - 1] = a[k] /\ whole[2 * k] = b[k]
  <2>1. IsPairing(whole, S, a, b, n)
    BY <1>2, PairsFlat, Zenon
  <2>2. QED
    BY <2>1, Zenon DEF IsPairing
<1>5. whole = FlattenSeq([k \in 1 .. n |-> <<t[2 * k - 1], t[2 * k]>>])
  <2>1. [k \in 1 .. n |-> <<a[k], b[k]>>] = [k \in 1 .. n |-> <<t[2 * k - 1], t[2 * k]>>]
    BY <1>3, Zenon
  <2>2. QED
    BY <2>1, Zenon DEF Pairing
<1> HIDE DEF whole
<1>6. ASSUME NEW i \in 1 .. Len(t)
      PROVE  whole[i] = t[i]
  <2>1. PICK k \in 1 .. n : i = 2 * k - 1 \/ i = 2 * k
    <3>1. (i + 1) \div 2 \in 1 .. n
      BY SMT
    <3>2. i = 2 * ((i + 1) \div 2) - 1 \/ i = 2 * ((i + 1) \div 2)
      BY SMT
    <3>3. QED
      BY <3>1, <3>2, Zenon
  <2>2. QED
    BY <1>3, <1>4, <2>1, Zenon
<1>7. QED
  BY <1>4, <1>5, <1>6, SeqEqual

-----------------------------------------------------------------------------
(* Hex digits and semi-octets *)

Nibble == 0 .. 15

Byte == 0 .. 255

LEMMA HexIs ==
  ASSUME NEW octet \in Byte
  PROVE  Hex(octet) \in Seq(Nibble) /\ Len(Hex(octet)) = 2
         /\ 16 * Hex(octet)[1] + Hex(octet)[2] = octet
<1> DEFINE a == octet \div 16
           b == octet % 16
<1>1. a \in Nibble /\ b \in Nibble /\ 16 * a + b = octet
  BY SMT DEF Nibble, Byte
<1>2. Hex(octet) = <<a, b>>
  BY Zenon DEF Hex
<1> HIDE DEF a, b
<1>3. <<a, b>> \in Seq(Nibble) /\ Len(<<a, b>>) = 2 /\ <<a, b>>[1] = a /\ <<a, b>>[2] = b
  BY <1>1, SMT
<1>4. QED
  BY <1>1, <1>2, <1>3, Zenon

(* hexToBytes gives the octets back. *)
LEMMA HexRead ==
  ASSUME NEW octets \in Seq(Byte)
  PROVE  /\ HexOf(octets) \in Seq(Nibble) /\ Len(HexOf(octets)) = 2 * Len(octets)
         /\ HexToBytes(HexOf(octets)) = octets
<1> DEFINE n == Len(octets)
           a == [k \in 1 .. n |-> octets[k] \div 16]
           b == [k \in 1 .. n |-> octets[k] % 16]
           hex == HexOf(octets)
<1>1. n \in Nat /\ DOMAIN octets = 1 .. n /\ \A k \in 1 .. n : octets[k] \in Byte
  BY LenProperties, ElementOfSeq
<1> HIDE DEF n
<1>2. \A k \in 1 .. n : /\ octets[k] \div 16 \in Nibble /\ octets[k] % 16 \in Nibble
                        /\ 16 * (octets[k] \div 16) + (octets[k] % 16) = octets[k]
  <2>1. \A o \in Byte : /\ o \div 16 \in Nibble /\ o % 16 \in Nibble
                        /\ 16 * (o \div 16) + (o % 16) = o
    BY SMT DEF Nibble, Byte
  <2>2. QED
    BY <1>1, <2>1, Zenon
<1>3. /\ a \in [1 .. n -> Nibble] /\ b \in [1 .. n -> Nibble]
      /\ \A k \in 1 .. n : a[k] = octets[k] \div 16 /\ b[k] = octets[k] % 16
  BY <1>2, Zenon
<1> HIDE DEF a, b
<1>4. hex = Pairing(a, b, n)
  <2>1. \A k \in 1 .. n : Hex(octets[k]) = <<a[k], b[k]>>
    BY <1>3, Zenon DEF Hex
  <2>2. [k \in 1 .. n |-> Hex(octets[k])] = [k \in 1 .. n |-> <<a[k], b[k]>>]
    BY <2>1, Zenon
  <2>3. QED
    BY <1>1, <2>2, Zenon DEF HexOf, Pairing
<1>5. /\ hex \in Seq(Nibble) /\ Len(hex) = 2 * n
      /\ \A k \in 1 .. n : hex[2 * k - 1] = a[k] /\ hex[2 * k] = b[k]
  <2>1. IsPairing(hex, Nibble, a, b, n)
    BY <1>1, <1>3, <1>4, PairsFlat, Zenon
  <2>2. QED
    BY <2>1, Zenon DEF IsPairing
<1> HIDE DEF hex
<1> DEFINE at(i) == IF 2 * i <= Len(hex) THEN 16 * hex[2 * i - 1] + hex[2 * i] ELSE hex[2 * i - 1]
           bytes == [i \in 1 .. (Len(hex) + 1) \div 2 |-> at(i)]
<1>6. (Len(hex) + 1) \div 2 = n /\ \A i \in 1 .. n : 2 * i <= Len(hex)
  BY <1>1, <1>5, SMT
<1>7. \A i \in 1 .. n : at(i) = octets[i]
  BY <1>2, <1>3, <1>5, <1>6, Zenon
<1>8. HexToBytes(hex) = [i \in 1 .. n |-> at(i)]
  BY <1>6, Zenon DEF HexToBytes
<1> HIDE DEF at
<1>9. [i \in 1 .. n |-> at(i)] = [i \in 1 .. n |-> octets[i]]
  BY <1>7, Zenon
<1>10. octets = [i \in 1 .. n |-> octets[i]]
  <2>1. octets \in [1 .. n -> Byte]
    BY LenProperties DEF n
  <2>2. QED
    BY <2>1, Zenon
<1>11. QED
  BY <1>5, <1>8, <1>9, <1>10, Zenon DEF hex, n

(* The digits an address may have: all but the fill *)
AddressDigit == 0 .. 14

(* SemiOctets swaps the digits of each pair, the last one with a fill. *)
AreSemiOctets(hex, digits, n) ==
  /\ hex \in Seq(Nibble) /\ Len(hex) = 2 * n
  /\ \A k \in 1 .. n :
       /\ hex[2 * k] = digits[2 * k - 1]
       /\ hex[2 * k - 1] = IF 2 * k <= Len(digits) THEN digits[2 * k] ELSE 15

LEMMA SemiOctetsAre ==
  ASSUME NEW digits \in Seq(AddressDigit)
  PROVE  AreSemiOctets(SemiOctets(digits), digits, (Len(digits) + 1) \div 2)
<1> DEFINE len == Len(digits)
           n == (len + 1) \div 2
           padded == IF len % 2 = 1 THEN digits \o <<15>> ELSE digits
           a == [k \in 1 .. n |-> padded[2 * k]]
           b == [k \in 1 .. n |-> padded[2 * k - 1]]
           hex == SemiOctets(digits)
<1>1. len \in Nat /\ n \in Nat /\ \A i \in 1 .. len : digits[i] \in AddressDigit
  BY LenProperties, ElementOfSeq, SMT
<1>2. digits \in Seq(Nibble) /\ <<15>> \in Seq(Nibble) /\ Len(<<15>>) = 1 /\ <<15>>[1] = 15
  <2>1. AddressDigit \subseteq Nibble
    BY SMT DEF AddressDigit, Nibble
  <2>2. digits \in Seq(Nibble)
    BY <2>1, SeqMonotonic
  <2>3. <<15>> \in Seq(Nibble) /\ Len(<<15>>) = 1 /\ <<15>>[1] = 15
    BY SMT DEF Nibble
  <2>4. QED
    BY <2>2, <2>3, Zenon
<1>3. /\ padded \in Seq(Nibble) /\ Len(padded) = 2 * n
      /\ \A i \in 1 .. 2 * n : padded[i] = IF i <= len THEN digits[i] ELSE 15
  <2>1. CASE len % 2 = 1
    <3> DEFINE end == <<15>>
               joined == digits \o end
    <3>1. padded = joined
      BY <2>1, Zenon
    <3>2. end \in Seq(Nibble) /\ Len(end) = 1 /\ end[1] = 15
      BY <1>2
    <3> HIDE DEF end, padded
    <3>3. /\ joined \in Seq(Nibble) /\ Len(joined) = len + Len(end)
          /\ \A i \in 1 .. len + Len(end) :
               joined[i] = IF i <= len THEN digits[i] ELSE end[i - len]
      BY <1>2, <3>2, ConcatProperties
    <3> HIDE DEF joined, len
    <3>4. len + Len(end) = 2 * n /\ \A i \in 1 .. 2 * n : i <= len \/ i - len = 1
      BY <1>1, <2>1, <3>2, SMT
    <3>5. \A i \in 1 .. 2 * n : joined[i] = IF i <= len THEN digits[i] ELSE 15
      BY <3>2, <3>3, <3>4, Zenon
    <3>6. QED
      BY <3>1, <3>3, <3>4, <3>5, Zenon
  <2>2. CASE len % 2 # 1
    <3>1. padded = digits
      BY <2>2, Zenon
    <3>2. len = 2 * n /\ \A i \in 1 .. 2 * n : i <= len
      <4> HIDE DEF len
      <4>1. QED
        BY <1>1, <2>2, SMT
    <3> HIDE DEF padded
    <3>3. QED
      BY <1>2, <3>1, <3>2, Zenon
  <2>3. QED
    BY <2>1, <2>2, Zenon
<1>4. hex = Pairing(a, b, n)
  <2>1. hex = FlattenSeq([k \in 1 .. Len(padded) \div 2 |-> <<padded[2 * k], padded[2 * k - 1]>>])
    BY Zenon DEF SemiOctets
  <2> HIDE DEF padded
  <2>2. Len(padded) \div 2 = n
    <3> HIDE DEF n
    <3>1. QED
      BY <1>1, <1>3, SMT
  <2>3. [k \in 1 .. n |-> <<a[k], b[k]>>] = [k \in 1 .. n |-> <<padded[2 * k], padded[2 * k - 1]>>]
    <3>1. \A k \in 1 .. n : a[k] = padded[2 * k] /\ b[k] = padded[2 * k - 1]
      BY Zenon
    <3> HIDE DEF a, b
    <3>2. QED
      BY <3>1, Zenon
  <2> HIDE DEF a, b
  <2>4. QED
    BY <2>1, <2>2, <2>3, Zenon DEF Pairing
<1> HIDE DEF padded, n, hex
<1>5. \A k \in 1 .. n : 2 * k \in 1 .. 2 * n /\ 2 * k - 1 \in 1 .. 2 * n /\ 2 * k - 1 <= len
  BY <1>1, SMT DEF n
<1>6. a \in [1 .. n -> Nibble] /\ b \in [1 .. n -> Nibble]
  <2>1. \A i \in 1 .. 2 * n : padded[i] \in Nibble
    BY <1>3, ElementOfSeq, Zenon
  <2>2. QED
    BY <1>5, <2>1, Zenon
<1>7. \A k \in 1 .. n : a[k] = padded[2 * k] /\ b[k] = padded[2 * k - 1]
  BY Zenon
<1> HIDE DEF a, b
<1>8. IsPairing(hex, Nibble, a, b, n)
  BY <1>1, <1>4, <1>6, PairsFlat, Zenon
<1> HIDE DEF len
<1>9. AreSemiOctets(hex, digits, n)
  BY <1>3, <1>5, <1>7, <1>8, Zenon DEF IsPairing, AreSemiOctets, len
<1>10. QED
  BY <1>9, Zenon DEF hex, n, len

(* decodeSemiOctet gives the digits back, for numbers of any length and
   parity, and whatever the number of digits it is told, if it is no less. *)
LEMMA SemiOctetsRead ==
  ASSUME NEW digits \in Seq(AddressDigit), NEW count \in Nat, count >= Len(digits)
  PROVE  DecodeSemiOctet(SemiOctets(digits), count) = digits
<1> DEFINE hex == SemiOctets(digits)
           len == Len(digits)
           n == (len + 1) \div 2
           pairs == Pairs(hex)
           piece(p) == IF p[1] = 15 THEN <<p[2]>> ELSE <<p[2], p[1]>>
           pieces == [k \in DOMAIN pairs |-> piece(pairs[k])]
           result == FlattenSeq(pieces)
<1>1. len \in Nat /\ n \in Nat /\ \A i \in 1 .. len : digits[i] \in AddressDigit
  BY LenProperties, ElementOfSeq, SMT
<1>2. AreSemiOctets(hex, digits, n)
  BY SemiOctetsAre
<1>3. /\ DOMAIN pairs = 1 .. n
      /\ \A k \in 1 .. n : pairs[k] = <<hex[2 * k - 1], hex[2 * k]>>
  <2>1. Len(hex) = 2 * n
    BY <1>2, Zenon DEF AreSemiOctets
  <2> HIDE DEF hex, n
  <2>2. Len(hex) \div 2 = n
    BY <1>1, <2>1, SMT
  <2>3. pairs = [k \in 1 .. n |-> <<hex[2 * k - 1], hex[2 * k]>>]
    BY <2>2, Zenon DEF Pairs
  <2> HIDE DEF pairs
  <2>4. QED
    BY <2>3, Zenon
<1>4. DecodeSemiOctet(hex, count)
        = SubSeq(result, 1, IF Len(result) > count THEN count ELSE Len(result))
  BY Zenon DEF DecodeSemiOctet
<1>5. result = FlattenSeq([k \in 1 .. n |-> piece(pairs[k])])
  BY <1>3, Zenon
<1> HIDE DEF pairs, hex, result
<1>6. ASSUME NEW k \in 1 .. n
      PROVE  piece(pairs[k]) = IF 2 * k <= len THEN <<digits[2 * k - 1], digits[2 * k]>>
                               ELSE <<digits[2 * k - 1]>>
  <2> DEFINE p == pairs[k]
  <2>1. \A x, y : <<x, y>>[1] = x /\ <<x, y>>[2] = y
    OBVIOUS
  <2>2. p[1] = hex[2 * k - 1] /\ p[2] = hex[2 * k]
    <3> DEFINE x == hex[2 * k - 1]
               y == hex[2 * k]
    <3>1. p = <<x, y>>
      BY <1>3, Zenon
    <3> HIDE DEF p, x, y
    <3>2. p[1] = x /\ p[2] = y
      BY <3>1
    <3>3. QED
      BY <3>2, Zenon DEF x, y
  <2>3. /\ hex[2 * k] = digits[2 * k - 1]
        /\ hex[2 * k - 1] = IF 2 * k <= len THEN digits[2 * k] ELSE 15
    BY <1>2, Zenon DEF AreSemiOctets
  <2>4. 2 * k <= len => digits[2 * k] # 15
    <3>1. 2 * k <= len => 2 * k \in 1 .. len
      BY <1>1, SMT
    <3>2. \A d \in AddressDigit : d # 15
      BY SMT DEF AddressDigit
    <3>3. QED
      BY <1>1, <3>1, <3>2, Zenon
  <2> HIDE DEF p
  <2>5. CASE 2 * k <= len
    BY <2>2, <2>3, <2>4, <2>5, Zenon DEF p
  <2>6. CASE ~ (2 * k <= len)
    BY <2>2, <2>3, <2>6, Zenon DEF p
  <2>7. QED
    BY <2>5, <2>6, Zenon
<1> HIDE DEF piece
<1>7. result = digits
  <2>1. CASE len % 2 = 0
    <3>1. len = 2 * n /\ \A k \in 1 .. n : 2 * k <= len
      <4> HIDE DEF len
      <4>1. QED
        BY <1>1, <2>1, SMT
    <3>2. [k \in 1 .. n |-> piece(pairs[k])] = [k \in 1 .. n |-> <<digits[2 * k - 1], digits[2 * k]>>]
      BY <1>6, <3>1, Zenon
    <3> HIDE DEF n
    <3>3. FlattenSeq([k \in 1 .. n |-> <<digits[2 * k - 1], digits[2 * k]>>]) = digits
      BY <1>1, <3>1, PairsJoined, Zenon
    <3>4. QED
      BY <1>5, <3>2, <3>3, Zenon
  <2>2. CASE len % 2 # 0
    <3> DEFINE m == n - 1
               most == SubSeq(digits, 1, 2 * m)
               last == digits[len]
               front == [k \in 1 .. m |-> <<digits[2 * k - 1], digits[2 * k]>>]
               all == [k \in 1 .. n |-> piece(pairs[k])]
    <3>1. /\ m \in Nat /\ len = 2 * m + 1 /\ n = m + 1 /\ 2 * n - 1 = len /\ ~ (2 * n <= len)
          /\ \A k \in 1 .. m : k \in 1 .. n /\ 2 * k <= len
          /\ n \in 1 .. n /\ len \in 1 .. len
      <4> HIDE DEF len
      <4>1. QED
        BY <1>1, <2>2, SMT
    <3>2. last \in AddressDigit
      BY <1>1, <3>1, Zenon
    <3> HIDE DEF n, len
    <3>3. /\ most \in Seq(AddressDigit) /\ Len(most) = 2 * m
          /\ \A i \in 1 .. 2 * m : most[i] = digits[i]
      <4>1. \A i \in 1 .. 2 * m : digits[i] \in AddressDigit
        BY <1>1, <3>1, SMT
      <4>2. 2 * m \in Nat
        BY <3>1, SMT
      <4> DEFINE e == 2 * m
      <4> HIDE DEF e, m
      <4>3. /\ SubSeq(digits, 1, e) \in Seq(AddressDigit) /\ Len(SubSeq(digits, 1, e)) = e
            /\ \A i \in 1 .. e : SubSeq(digits, 1, e)[i] = digits[i]
        BY <4>1, <4>2, SubSeqProperties, SMT DEF e
      <4>4. QED
        BY <4>3, Zenon DEF e
    <3> HIDE DEF m, most, last
    <3>4. Append(most, last) = digits
      <4>1. /\ Append(most, last) \in Seq(AddressDigit) /\ Len(Append(most, last)) = Len(most) + 1
            /\ Append(most, last)[Len(most) + 1] = last
            /\ \A i \in 1 .. Len(most) : Append(most, last)[i] = most[i]
        BY <3>2, <3>3, AppendProperties
      <4>2. \A i \in 1 .. len : i \in 1 .. 2 * m \/ i = 2 * m + 1
        BY <3>1, SMT
      <4>3. \A i \in 1 .. len : Append(most, last)[i] = digits[i]
        BY <3>1, <3>3, <4>1, <4>2, Zenon DEF last
      <4>4. QED
        BY <3>1, <3>3, <4>1, <4>3, SeqEqual, Zenon DEF len
    <3>5. FlattenSeq(front) = most
      <4>1. FlattenSeq([k \in 1 .. m |-> <<most[2 * k - 1], most[2 * k]>>]) = most
        BY <3>1, <3>3, PairsJoined, Zenon
      <4>2. \A k \in 1 .. m : 2 * k - 1 \in 1 .. 2 * m /\ 2 * k \in 1 .. 2 * m
        BY <3>1, SMT
      <4>3. front = [k \in 1 .. m |-> <<most[2 * k - 1], most[2 * k]>>]
        BY <3>3, <4>2, Zenon
      <4>4. QED
        BY <4>1, <4>3, Zenon
    <3>6. front \in Seq(Seq(AddressDigit)) /\ Len(front) = m
      <4>1. \A k \in 1 .. m : digits[2 * k - 1] \in AddressDigit /\ digits[2 * k] \in AddressDigit
        <5>1. \A k \in 1 .. m : 2 * k - 1 \in 1 .. len /\ 2 * k \in 1 .. len
          BY <1>1, <3>1, SMT
        <5>2. QED
          BY <1>1, <5>1, Zenon DEF len
      <4>2. \A k \in 1 .. m : <<digits[2 * k - 1], digits[2 * k]>> \in Seq(AddressDigit)
        <5>1. \A x, y \in AddressDigit : <<x, y>> \in Seq(AddressDigit)
          BY SMT DEF AddressDigit
        <5>2. QED
          BY <4>1, <5>1, Zenon
      <4> DEFINE T == Seq(AddressDigit)
      <4>3. front \in [1 .. m -> T]
        BY <4>2, Zenon
      <4> HIDE DEF front, T
      <4>4. front \in Seq(T) /\ Len(front) = m
        BY <3>1, <4>3, FunctionsAreSeqs, Zenon
      <4>5. QED
        BY <4>4, Zenon DEF T
    <3>7. all = Append(front, <<last>>)
      <4> DEFINE T == Seq(AddressDigit)
                 end == <<last>>
      <4>1. \A k \in 1 .. n : all[k] = piece(pairs[k])
        BY Zenon
      <4>2. \A k \in 1 .. m : front[k] = <<digits[2 * k - 1], digits[2 * k]>>
        BY Zenon
      <4>3. end \in T
        BY <3>2, SMT
      <4>4. DOMAIN all = 1 .. n
        BY Zenon
      <4>5. \A k \in 1 .. m : all[k] = front[k]
        BY <1>6, <3>1, <4>1, <4>2, Zenon
      <4>6. all[n] = end
        BY <1>6, <3>1, <4>1, Zenon DEF last
      <4>7. \A k \in 1 .. m : front[k] \in T
        BY <3>6, ElementOfSeq, Zenon
      <4>8. \A k \in 1 .. n : k \in 1 .. m \/ k = n
        BY <3>1, SMT
      <4>9. all = [k \in 1 .. n |-> all[k]]
        BY <4>4, Zenon
      <4> HIDE DEF all, front, end, T
      <4>10. all \in [1 .. n -> T]
        BY <4>3, <4>5, <4>6, <4>7, <4>8, <4>9, Zenon
      <4>11. all \in Seq(T) /\ Len(all) = n
        BY <1>1, <4>10, FunctionsAreSeqs, Zenon DEF n
      <4> DEFINE other == Append(front, end)
      <4>12. /\ other \in Seq(T) /\ Len(other) = m + 1 /\ other[m + 1] = end
             /\ \A k \in 1 .. m : other[k] = front[k]
        BY <3>6, <4>3, AppendProperties DEF T
      <4> HIDE DEF other
      <4>13. \A k \in 1 .. n : all[k] = other[k]
        BY <3>1, <4>5, <4>6, <4>8, <4>12, Zenon
      <4>14. all = other
        BY <3>1, <4>11, <4>12, <4>13, SeqEqual, Zenon
      <4>15. QED
        BY <4>14, Zenon DEF other, end
    <3>8. FlattenSeq(Append(front, <<last>>)) = FlattenSeq(front) \o <<last>>
      <4>1. <<last>> \in Seq(AddressDigit)
        BY <3>2, SMT
      <4> HIDE DEF front
      <4>2. QED
        BY <3>6, <4>1, FlattenAppend, Zenon
    <3>9. most \o <<last>> = Append(most, last)
      BY <3>2, <3>3, AppendIsConcat, Zenon
    <3>10. QED
      BY <1>5, <3>4, <3>5, <3>7, <3>8, <3>9, Zenon
  <2>3. QED
    BY <2>1, <2>2, Zenon
<1>8. (IF Len(result) > count THEN count ELSE Len(result)) = Len(digits)
  <2> HIDE DEF n
  <2>1. QED
    BY <1>1, <1>7, SMT
<1>9. SubSeq(digits, 1, Len(digits)) = digits
  BY SubSeqFull
<1>10. QED
  BY <1>4, <1>7, <1>8, <1>9, Zenon DEF hex

(* decodeTimestamp gives the digits back: it counts the position of a
   separator in digits and meets none of the odd ones. *)
LEMMA TimestampRead ==
  ASSUME NEW t \in Seq(AddressDigit), NEW n \in Nat, Len(t) = 2 * n
  PROVE  DecodeTimestamp(SemiOctets(t)) = t
<1> DEFINE hex == SemiOctets(t)
           pairs == Pairs(hex)
           piece(k) == <<pairs[k][2], pairs[k][1]>> \o Separator(2 * (k - 1))
<1>1. AreSemiOctets(hex, t, n)
  <2>1. (2 * n + 1) \div 2 = n
    BY SMT
  <2>2. AreSemiOctets(SemiOctets(t), t, (Len(t) + 1) \div 2)
    BY SemiOctetsAre, Zenon
  <2>3. QED
    BY <2>1, <2>2, Zenon
<1>2. /\ DOMAIN pairs = 1 .. n
      /\ \A k \in 1 .. n : pairs[k] = <<hex[2 * k - 1], hex[2 * k]>>
  <2>1. Len(hex) = 2 * n
    BY <1>1, Zenon DEF AreSemiOctets
  <2> HIDE DEF hex
  <2>2. Len(hex) \div 2 = n
    BY <2>1, SMT
  <2>3. pairs = [k \in 1 .. n |-> <<hex[2 * k - 1], hex[2 * k]>>]
    BY <2>2, Zenon DEF Pairs
  <2> HIDE DEF pairs
  <2>4. QED
    BY <2>3, Zenon
<1>3. DecodeTimestamp(hex) = FlattenSeq([k \in 1 .. n |-> piece(k)])
  BY <1>2, Zenon DEF DecodeTimestamp
<1> HIDE DEF hex, pairs
<1>4. ASSUME NEW k \in 1 .. n
      PROVE  piece(k) = <<t[2 * k - 1], t[2 * k]>>
  <2> DEFINE x == hex[2 * k]
             y == hex[2 * k - 1]
             pair == <<x, y>>
  <2>1. pairs[k] = <<y, x>>
    BY <1>2, Zenon
  <2>2. /\ x = t[2 * k - 1] /\ y = t[2 * k] /\ x \in AddressDigit /\ y \in AddressDigit
    <3>1. 2 * k <= Len(t) /\ 2 * k \in 1 .. Len(t) /\ 2 * k - 1 \in 1 .. Len(t)
      BY SMT
    <3>2. x = t[2 * k - 1] /\ y = t[2 * k]
      BY <1>1, <3>1, Zenon DEF AreSemiOctets
    <3>3. t[2 * k - 1] \in AddressDigit /\ t[2 * k] \in AddressDigit
      BY <3>1, ElementOfSeq, Zenon
    <3>4. QED
      BY <3>2, <3>3, Zenon
  <2> HIDE DEF x, y
  <2>3. <<pairs[k][2], pairs[k][1]>> = pair
    <3>1. <<y, x>>[1] = y /\ <<y, x>>[2] = x
      OBVIOUS
    <3>2. QED
      BY <2>1, <3>1, Zenon
  <2>4. Separator(2 * (k - 1)) = <<>>
    <3>1. 2 * (k - 1) \notin {3, 5, 9, 11} /\ 2 * (k - 1) # 7
      BY SMT
    <3>2. QED
      BY <3>1, SMT DEF Separator
  <2>5. pair \in Seq(AddressDigit)
    BY <2>2, SMT
  <2> HIDE DEF pair
  <2>6. pair \o <<>> = pair
    BY <2>5, ConcatEmptySeq, Zenon
  <2>7. piece(k) = pair
    BY <2>3, <2>4, <2>6, Zenon
  <2>8. QED
    BY <2>2, <2>7, Zenon DEF pair
<1> HIDE DEF piece
<1>5. [k \in 1 .. n |-> piece(k)] = [k \in 1 .. n |-> <<t[2 * k - 1], t[2 * k]>>]
  BY <1>4, Zenon
<1>6. FlattenSeq([k \in 1 .. n |-> <<t[2 * k - 1], t[2 * k]>>]) = t
  BY PairsJoined, Zenon
<1>7. QED
  BY <1>3, <1>5, <1>6, Zenon DEF hex

(* A sequence cut into its elements is put together again. *)
LEMMA SinglesJoined ==
  ASSUME NEW S, NEW t \in Seq(S)
  PROVE  FlattenSeq([i \in 1 .. Len(t) |-> <<t[i]>>]) = t
<1> DEFINE n == Len(t)
           blocks == [i \in 1 .. n |-> <<t[i]>>]
           B == Blocks(S, 1)
           whole == FlattenSeq(blocks)
<1>1. n \in Nat /\ \A i \in 1 .. n : t[i] \in S
  BY LenProperties, ElementOfSeq
<1>2. \A i \in 1 .. n : <<t[i]>> \in B /\ <<t[i]>>[1] = t[i]
  <2>1. \A x \in S : <<x>> \in Seq(S) /\ Len(<<x>>) = 1 /\ <<x>>[1] = x
    OBVIOUS
  <2>2. QED
    BY <1>1, <2>1, Zenon DEF Blocks
<1>3. blocks \in [1 .. n -> B] /\ \A i \in 1 .. n : blocks[i] = <<t[i]>>
  BY <1>2, Zenon
<1> HIDE DEF blocks, n, B
<1>4. blocks \in Seq(B) /\ Len(blocks) = n
  BY <1>1, <1>3, FunctionsAreSeqs, Zenon
<1>5. whole \in Seq(S) /\ InBlocks(whole, blocks, 1)
  <2>1. 1 \in Nat
    OBVIOUS
  <2>2. QED
    BY <1>4, <2>1, FlattenBlocks, Zenon DEF B
<1> HIDE DEF whole
<1>6. Len(whole) = n
  <2>1. Len(whole) = 1 * n
    BY <1>4, <1>5, Zenon DEF InBlocks
  <2>2. QED
    BY <1>1, <2>1, SMT
<1>7. \A i \in 1 .. n : whole[i] = t[i]
  <2>1. 1 \in 1 .. 1
    BY SMT
  <2>2. \A i \in 1 .. n : whole[1 * (i - 1) + 1] = t[i]
    <3>1. \A i \in 1 .. n : \A j \in 1 .. 1 : whole[1 * (i - 1) + j] = blocks[i][j]
      BY <1>4, <1>5, Zenon DEF InBlocks
    <3>2. \A i \in 1 .. n : whole[1 * (i - 1) + 1] = blocks[i][1]
      BY <2>1, <3>1, Zenon
    <3>3. QED
      BY <1>2, <1>3, <3>2, Zenon
  <2>3. \A i \in 1 .. n : 1 * (i - 1) + 1 = i
    BY SMT
  <2>4. QED
    BY <2>2, <2>3, Zenon
<1>8. whole = t
  BY <1>5, <1>6, <1>7, SeqEqual, Zenon DEF n
<1>9. QED
  BY <1>8, Zenon DEF whole, blocks, n

LEMMA TimestampIs == Timestamp \in Seq(AddressDigit) /\ Len(Timestamp) = 2 * 7
<1>1. Timestamp \in Seq(0 .. 14) /\ Len(Timestamp) = 14
  BY SMT DEF Timestamp
<1>2. QED
  BY <1>1, SMT DEF AddressDigit

LEMMA TimestampDigits == DigitsOf(Timestamp) = Timestamp
<1> DEFINE t == Timestamp
<1>1. t \in Seq(AddressDigit) /\ DOMAIN t = 1 .. Len(t) /\ \A i \in 1 .. Len(t) : t[i] \in AddressDigit
  BY TimestampIs, LenProperties, ElementOfSeq
<1> HIDE DEF t
<1>2. \A i \in 1 .. Len(t) : t[i] < 16
  BY <1>1, SMT DEF AddressDigit
<1>3. [i \in DOMAIN t |-> IF t[i] < 16 THEN <<t[i]>> ELSE <<>>] = [i \in 1 .. Len(t) |-> <<t[i]>>]
  BY <1>1, <1>2, Zenon
<1>4. DigitsOf(t) = t
  BY <1>1, <1>3, SinglesJoined, Zenon DEF DigitsOf
<1>5. QED
  BY <1>4, Zenon DEF t

(* decodeUCS2 gives the text, each code unit in UTF-8, whatever is in front
   of it in the user data. *)
UnitPairs(text) ==
  FlattenSeq([i \in DOMAIN text |-> <<text[i] \div 256, text[i] % 256>>])

CodeUnits == {u \in Nat : u < 65536}

LEMMA UnitHalves ==
  \A u \in CodeUnits : /\ u \div 256 \in Byte /\ u % 256 \in Byte
                       /\ 256 * (u \div 256) + (u % 256) = u
<1> SUFFICES ASSUME NEW u \in CodeUnits
             PROVE  /\ u \div 256 \in Byte /\ u % 256 \in Byte
                    /\ 256 * (u \div 256) + (u % 256) = u
  BY Zenon
<1>1. u \in Nat /\ u < 65536
  BY SMT DEF CodeUnits
<1>2. u \div 256 \in Nat /\ u \div 256 < 256
  BY <1>1, SMT
<1>3. u % 256 \in Nat /\ u % 256 < 256
  BY <1>1, SMT
<1>4. 256 * (u \div 256) + (u % 256) = u
  BY <1>1, SMT
<1>5. \A o \in Nat : o < 256 => o \in Byte
  BY SMT DEF Byte
<1>6. QED
  BY <1>2, <1>3, <1>4, <1>5, Zenon

LEMMA UnitsInPairs ==
  ASSUME NEW text \in Seq(CodeUnits)
  PROVE  /\ UnitPairs(text) \in Seq(Byte) /\ Len(UnitPairs(text)) = 2 * Len(text)
         /\ \A k \in 1 .. Len(text) :
              256 * UnitPairs(text)[2 * k - 1] + UnitPairs(text)[2 * k] = text[k]
<1> DEFINE n == Len(text)
           a == [k \in 1 .. n |-> text[k] \div 256]
           b == [k \in 1 .. n |-> text[k] % 256]
           whole == Pairing(a, b, n)
<1>1. n \in Nat /\ DOMAIN text = 1 .. n /\ \A k \in 1 .. n : text[k] \in CodeUnits
  BY LenProperties, ElementOfSeq
<1> HIDE DEF n
<1>2. \A k \in 1 .. n : /\ text[k] \div 256 \in Byte /\ text[k] % 256 \in Byte
                        /\ 256 * (text[k] \div 256) + (text[k] % 256) = text[k]
  BY <1>1, UnitHalves, Zenon
<1>3. /\ a \in [1 .. n -> Byte] /\ b \in [1 .. n -> Byte]
      /\ \A k \in 1 .. n : a[k] = text[k] \div 256 /\ b[k] = text[k] % 256
  BY <1>2, ZenonT(60)
<1> HIDE DEF a, b
<1>4. UnitPairs(text) = whole
  <2>1. [k \in 1 .. n |-> <<a[k], b[k]>>] = [k \in 1 .. n |-> <<text[k] \div 256, text[k] % 256>>]
    BY <1>3, ZenonT(60)
  <2>2. QED
    BY <1>1, <2>1, Zenon DEF UnitPairs, Pairing
<1>5. IsPairing(whole, Byte, a, b, n)
  BY <1>1, <1>3, PairsFlat, Zenon
<1> HIDE DEF whole
<1>6. \A k \in 1 .. n : 256 * whole[2 * k - 1] + whole[2 * k] = text[k]
  <2>1. \A k \in 1 .. n : 256 * a[k] + b[k] = text[k]
    BY <1>2, <1>3, ZenonT(60)
  <2>2. \A k \in 1 .. n : whole[2 * k - 1] = a[k] /\ whole[2 * k] = b[k]
    BY <1>5, Zenon DEF IsPairing
  <2>3. QED
    BY <2>1, <2>2, Zenon
<1>7. whole \in Seq(Byte) /\ Len(whole) = 2 * n
  BY <1>5, Zenon DEF IsPairing
<1> HIDE DEF whole
<1>8. QED
  BY <1>4, <1>6, <1>7, Zenon DEF n

LEMMA Ucs2Read ==
  ASSUME NEW header \in Seq(Byte), NEW text \in Seq(CodeUnits)
  PROVE  DecodeUCS2(header \o UnitPairs(text), Len(header))
           = FlattenSeq([i \in DOMAIN text |-> Utf8(text[i])])
<1> DEFINE skip == Len(header)
           n == Len(text)
           pairs == UnitPairs(text)
           data == header \o pairs
           unit(k) == 256 * data[skip + 2 * k - 1] + data[skip + 2 * k]
<1>1. skip \in Nat /\ n \in Nat /\ DOMAIN text = 1 .. n
  BY LenProperties
<1>2. /\ pairs \in Seq(Byte) /\ Len(pairs) = 2 * n
      /\ \A k \in 1 .. n : 256 * pairs[2 * k - 1] + pairs[2 * k] = text[k]
  BY UnitsInPairs, Zenon
<1> HIDE DEF pairs
<1>3. /\ data \in Seq(Byte) /\ Len(data) = skip + Len(pairs)
      /\ \A i \in 1 .. skip + Len(pairs) :
           data[i] = IF i <= skip THEN header[i] ELSE pairs[i - skip]
  <2>1. pairs \in Seq(Byte)
    BY <1>2, Zenon
  <2>2. QED
    BY <2>1, ConcatProperties
<1> HIDE DEF data, skip, n
<1>4. (Len(data) - skip) \div 2 = n
  BY <1>1, <1>2, <1>3, SMT
<1>5. ASSUME NEW k \in 1 .. n
      PROVE  unit(k) = text[k]
  <2> DEFINE i == skip + 2 * k
             j == skip + 2 * k - 1
  <2>1. /\ i \in 1 .. skip + Len(pairs) /\ ~ (i <= skip) /\ i - skip = 2 * k
        /\ j \in 1 .. skip + Len(pairs) /\ ~ (j <= skip) /\ j - skip = 2 * k - 1
    BY <1>1, <1>2, SMT
  <2> HIDE DEF i, j
  <2>2. data[i] = pairs[2 * k] /\ data[j] = pairs[2 * k - 1]
    BY <1>3, <2>1, Zenon
  <2>3. QED
    BY <1>2, <2>2, ZenonT(60) DEF i, j
<1>6. DecodeUCS2(data, skip) = FlattenSeq([k \in 1 .. n |-> Utf8(unit(k))])
  BY <1>4, Zenon DEF DecodeUCS2
<1> HIDE DEF unit
<1>7. [k \in 1 .. n |-> Utf8(unit(k))] = [i \in DOMAIN text |-> Utf8(text[i])]
  BY <1>1, <1>5, Zenon
<1>8. QED
  BY <1>6, <1>7, Zenon DEF data, skip, pairs

-----------------------------------------------------------------------------
(* Septets packed into octets *)

Binary == {0, 1}

(* The value of seven and of eight bits, the lowest first *)
Seven(b1, b2, b3, b4, b5, b6, b7) ==
  b1 + 2 * b2 + 4 * b3 + 8 * b4 + 16 * b5 + 32 * b6 + 64 * b7

Eight(b1, b2, b3, b4, b5, b6, b7, b8) ==
  b1 + 2 * b2 + 4 * b3 + 8 * b4 + 16 * b5 + 32 * b6 + 64 * b7 + 128 * b8

LEMMA SmallPowers ==
  /\ 2 ^ 0 = 1 /\ 2 ^ 1 = 2 /\ 2 ^ 2 = 4 /\ 2 ^ 3 = 8
  /\ 2 ^ 4 = 16 /\ 2 ^ 5 = 32 /\ 2 ^ 6 = 64 /\ 2 ^ 7 = 128
BY SMT

LEMMA BitsAdded ==
  \A x \in Byte :
    /\ \A i \in 0 .. 7 : Bit(x, i) \in Binary
    /\ Eight(Bit(x, 0), Bit(x, 1), Bit(x, 2), Bit(x, 3), Bit(x, 4), Bit(x, 5), Bit(x, 6), Bit(x, 7)) = x
    /\ x < 128 => Seven(Bit(x, 0), Bit(x, 1), Bit(x, 2), Bit(x, 3), Bit(x, 4), Bit(x, 5), Bit(x, 6)) = x
<1> SUFFICES ASSUME NEW x \in Byte
             PROVE  /\ \A i \in 0 .. 7 : Bit(x, i) \in Binary
                    /\ Eight(Bit(x, 0), Bit(x, 1), Bit(x, 2), Bit(x, 3), Bit(x, 4), Bit(x, 5), Bit(x, 6), Bit(x, 7)) = x
                    /\ x < 128 => Seven(Bit(x, 0), Bit(x, 1), Bit(x, 2), Bit(x, 3), Bit(x, 4), Bit(x, 5), Bit(x, 6)) = x
  BY Zenon
<1>1. x \in Nat /\ x < 256
  BY SMT DEF Byte
<1>2. /\ Bit(x, 0) = x % 2 /\ Bit(x, 1) = (x \div 2) % 2 /\ Bit(x, 2) = (x \div 4) % 2
      /\ Bit(x, 3) = (x \div 8) % 2 /\ Bit(x, 4) = (x \div 16) % 2 /\ Bit(x, 5) = (x \div 32) % 2
      /\ Bit(x, 6) = (x \div 64) % 2 /\ Bit(x, 7) = (x \div 128) % 2
  <2>1. x \div 1 = x
    BY <1>1, SMT
  <2>2. QED
    BY <2>1, SmallPowers, Zenon DEF Bit
<1>3. \A i \in 0 .. 7 : Bit(x, i) \in Binary
  <2>1. \A i \in 0 .. 7 : i = 0 \/ i = 1 \/ i = 2 \/ i = 3 \/ i = 4 \/ i = 5 \/ i = 6 \/ i = 7
    BY SMT
  <2>2. \A y \in Nat : y % 2 \in Binary
    BY SMT DEF Binary
  <2>3. /\ x \div 2 \in Nat /\ x \div 4 \in Nat /\ x \div 8 \in Nat /\ x \div 16 \in Nat
        /\ x \div 32 \in Nat /\ x \div 64 \in Nat /\ x \div 128 \in Nat
    BY <1>1, SMT
  <2>4. /\ Bit(x, 0) \in Binary /\ Bit(x, 1) \in Binary /\ Bit(x, 2) \in Binary /\ Bit(x, 3) \in Binary
        /\ Bit(x, 4) \in Binary /\ Bit(x, 5) \in Binary /\ Bit(x, 6) \in Binary /\ Bit(x, 7) \in Binary
    <3>1. /\ x % 2 \in Binary /\ (x \div 2) % 2 \in Binary /\ (x \div 4) % 2 \in Binary
          /\ (x \div 8) % 2 \in Binary /\ (x \div 16) % 2 \in Binary /\ (x \div 32) % 2 \in Binary
          /\ (x \div 64) % 2 \in Binary /\ (x \div 128) % 2 \in Binary
      BY <1>1, <2>2, <2>3, Zenon
    <3>2. QED
      BY <1>2, <3>1
  <2>5. QED
    BY <2>1, <2>4, Zenon
<1>4. /\ x = 2 * (x \div 2) + (x % 2)
      /\ x \div 2 = 2 * (x \div 4) + ((x \div 2) % 2)
      /\ x \div 4 = 2 * (x \div 8) + ((x \div 4) % 2)
      /\ x \div 8 = 2 * (x \div 16) + ((x \div 8) % 2)
      /\ x \div 16 = 2 * (x \div 32) + ((x \div 16) % 2)
      /\ x \div 32 = 2 * (x \div 64) + ((x \div 32) % 2)
      /\ x \div 64 = 2 * (x \div 128) + ((x \div 64) % 2)
      /\ x \div 128 = (x \div 128) % 2
      /\ x < 128 => x \div 128 = 0
  BY <1>1, SMT
<1>5. /\ x \div 2 \in Nat /\ x \div 4 \in Nat /\ x \div 8 \in Nat /\ x \div 16 \in Nat
      /\ x \div 32 \in Nat /\ x \div 64 \in Nat /\ x \div 128 \in Nat
      /\ x % 2 \in Nat /\ (x \div 2) % 2 \in Nat /\ (x \div 4) % 2 \in Nat
      /\ (x \div 8) % 2 \in Nat /\ (x \div 16) % 2 \in Nat /\ (x \div 32) % 2 \in Nat
      /\ (x \div 64) % 2 \in Nat
  BY <1>1, SMT
<1>6. /\ Eight(x % 2, (x \div 2) % 2, (x \div 4) % 2, (x \div 8) % 2, (x \div 16) % 2,
               (x \div 32) % 2, (x \div 64) % 2, (x \div 128) % 2) = x
      /\ x < 128 => Seven(x % 2, (x \div 2) % 2, (x \div 4) % 2, (x \div 8) % 2, (x \div 16) % 2,
                          (x \div 32) % 2, (x \div 64) % 2) = x
  <2> DEFINE h1 == x \div 2
             h2 == x \div 4
             h3 == x \div 8
             h4 == x \div 16
             h5 == x \div 32
             h6 == x \div 64
             h7 == x \div 128
             r0 == x % 2
             r1 == h1 % 2
             r2 == h2 % 2
             r3 == h3 % 2
             r4 == h4 % 2
             r5 == h5 % 2
             r6 == h6 % 2
             r7 == h7 % 2
  <2>1. /\ x = 2 * h1 + r0 /\ h1 = 2 * h2 + r1 /\ h2 = 2 * h3 + r2 /\ h3 = 2 * h4 + r3
        /\ h4 = 2 * h5 + r4 /\ h5 = 2 * h6 + r5 /\ h6 = 2 * h7 + r6 /\ h7 = r7
        /\ x < 128 => h7 = 0
    BY <1>4, Zenon
  <2>2. /\ h1 \in Nat /\ h2 \in Nat /\ h3 \in Nat /\ h4 \in Nat /\ h5 \in Nat /\ h6 \in Nat
        /\ h7 \in Nat /\ r0 \in Nat /\ r1 \in Nat /\ r2 \in Nat /\ r3 \in Nat /\ r4 \in Nat
        /\ r5 \in Nat /\ r6 \in Nat
    BY <1>5, Zenon
  <2> HIDE DEF r0, r1, r2, r3, r4, r5, r6, r7
  <2> HIDE DEF h1, h2, h3, h4, h5, h6, h7
  <2>3. /\ Eight(r0, r1, r2, r3, r4, r5, r6, r7) = x
        /\ x < 128 => Seven(r0, r1, r2, r3, r4, r5, r6) = x
    BY <1>1, <2>1, <2>2, SMT DEF Eight, Seven
  <2>4. QED
    BY <2>3, Zenon DEF h1, h2, h3, h4, h5, h6, h7, r0, r1, r2, r3, r4, r5, r6, r7
<1>7. QED
  BY <1>2, <1>3, <1>6, Zenon

(* The bits of packed data, those after the last being zero *)
At(bits, i) == IF i <= Len(bits) THEN bits[i] ELSE 0

SevenAt(bits, i) ==
  Seven(At(bits, i + 1), At(bits, i + 2), At(bits, i + 3), At(bits, i + 4),
        At(bits, i + 5), At(bits, i + 6), At(bits, i + 7))

EightAt(bits, i) ==
  Eight(At(bits, i + 1), At(bits, i + 2), At(bits, i + 3), At(bits, i + 4),
        At(bits, i + 5), At(bits, i + 6), At(bits, i + 7), At(bits, i + 8))

LEMMA BitsAt ==
  ASSUME NEW bits \in Seq(Binary)
  PROVE  \A i \in Nat : At(bits, i + 1) \in Binary /\ (i >= Len(bits) => At(bits, i + 1) = 0)
<1> SUFFICES ASSUME NEW i \in Nat
             PROVE  At(bits, i + 1) \in Binary /\ (i >= Len(bits) => At(bits, i + 1) = 0)
  BY Zenon
<1>1. Len(bits) \in Nat /\ \A j \in 1 .. Len(bits) : bits[j] \in Binary
  BY LenProperties, ElementOfSeq
<1>2. CASE i + 1 <= Len(bits)
  <2>1. i + 1 \in 1 .. Len(bits) /\ ~ (i >= Len(bits))
    BY <1>1, <1>2, SMT
  <2>2. QED
    BY <1>1, <1>2, <2>1, Zenon DEF At
<1>3. CASE ~ (i + 1 <= Len(bits))
  <2>1. 0 \in Binary
    BY Zenon DEF Binary
  <2>2. QED
    BY <1>3, <2>1, Zenon DEF At
<1>4. QED
  BY <1>2, <1>3, Zenon

LEMMA OctetsAre ==
  ASSUME NEW bits \in Seq(Binary)
  PROVE  /\ OctetsOf(bits) = [o \in 1 .. (Len(bits) + 7) \div 8 |-> EightAt(bits, 8 * (o - 1))]
         /\ OctetsOf(bits) \in Seq(Byte) /\ Len(OctetsOf(bits)) = (Len(bits) + 7) \div 8
<1> DEFINE n == (Len(bits) + 7) \div 8
<1>1. n \in Nat
  <2>1. Len(bits) \in Nat
    BY LenProperties
  <2>2. QED
    BY <2>1, SMT
<1>2. OctetsOf(bits)
        = [o \in 1 .. n |-> Eight(At(bits, 8*o-7), At(bits, 8*o-6), At(bits, 8*o-5), At(bits, 8*o-4),
                                  At(bits, 8*o-3), At(bits, 8*o-2), At(bits, 8*o-1), At(bits, 8*o))]
  BY Zenon DEF OctetsOf, At, Eight
<1> HIDE DEF n
<1>3. \A o \in 1 .. n :
        /\ 8*o-7 = 8 * (o - 1) + 1 /\ 8*o-6 = 8 * (o - 1) + 2 /\ 8*o-5 = 8 * (o - 1) + 3
        /\ 8*o-4 = 8 * (o - 1) + 4 /\ 8*o-3 = 8 * (o - 1) + 5 /\ 8*o-2 = 8 * (o - 1) + 6
        /\ 8*o-1 = 8 * (o - 1) + 7 /\ 8*o = 8 * (o - 1) + 8
        /\ 8 * (o - 1) \in Nat
  BY SMT
<1>4. OctetsOf(bits) = [o \in 1 .. n |-> EightAt(bits, 8 * (o - 1))]
  BY <1>2, <1>3, Zenon DEF EightAt
<1>5. \A o \in 1 .. n : EightAt(bits, 8 * (o - 1)) \in Byte
  <2>1. \A b1, b2, b3, b4, b5, b6, b7, b8 \in Binary : Eight(b1, b2, b3, b4, b5, b6, b7, b8) \in Byte
    BY SMT DEF Binary, Eight, Byte
  <2>2. \A i \in Nat : /\ At(bits, i + 1) \in Binary /\ At(bits, i + 2) \in Binary
                       /\ At(bits, i + 3) \in Binary /\ At(bits, i + 4) \in Binary
                       /\ At(bits, i + 5) \in Binary /\ At(bits, i + 6) \in Binary
                       /\ At(bits, i + 7) \in Binary /\ At(bits, i + 8) \in Binary
    <3>1. \A i \in Nat : /\ i + 2 = (i + 1) + 1 /\ i + 3 = (i + 2) + 1 /\ i + 4 = (i + 3) + 1
                         /\ i + 5 = (i + 4) + 1 /\ i + 6 = (i + 5) + 1 /\ i + 7 = (i + 6) + 1
                         /\ i + 8 = (i + 7) + 1
                         /\ i + 1 \in Nat /\ i + 2 \in Nat /\ i + 3 \in Nat /\ i + 4 \in Nat
                         /\ i + 5 \in Nat /\ i + 6 \in Nat /\ i + 7 \in Nat
      BY SMT
    <3>2. QED
      BY <3>1, BitsAt, Zenon
  <2>3. QED
    BY <1>3, <2>1, <2>2, Zenon DEF EightAt
<1> DEFINE octets == OctetsOf(bits)
<1>6. octets \in [1 .. n -> Byte]
  BY <1>4, <1>5, Zenon
<1> HIDE DEF octets
<1>7. octets \in Seq(Byte) /\ Len(octets) = n
  BY <1>1, <1>6, FunctionsAreSeqs, Zenon
<1>8. QED
  BY <1>4, <1>7, Zenon DEF n, octets

(* One more bit of the same place *)
LEMMA BitsFrom ==
  ASSUME NEW bits \in Seq(Binary), NEW i \in Nat
  PROVE  /\ At(bits, i + 1) \in Binary /\ At(bits, i + 2) \in Binary /\ At(bits, i + 3) \in Binary
         /\ At(bits, i + 4) \in Binary /\ At(bits, i + 5) \in Binary /\ At(bits, i + 6) \in Binary
         /\ At(bits, i + 7) \in Binary /\ At(bits, i + 8) \in Binary
         /\ i >= Len(bits) =>
              /\ At(bits, i + 1) = 0 /\ At(bits, i + 2) = 0 /\ At(bits, i + 3) = 0
              /\ At(bits, i + 4) = 0 /\ At(bits, i + 5) = 0 /\ At(bits, i + 6) = 0
              /\ At(bits, i + 7) = 0 /\ At(bits, i + 8) = 0
<1>1. /\ i + 2 = (i + 1) + 1 /\ i + 3 = (i + 2) + 1 /\ i + 4 = (i + 3) + 1
      /\ i + 5 = (i + 4) + 1 /\ i + 6 = (i + 5) + 1 /\ i + 7 = (i + 6) + 1
      /\ i + 8 = (i + 7) + 1
      /\ i + 1 \in Nat /\ i + 2 \in Nat /\ i + 3 \in Nat /\ i + 4 \in Nat
      /\ i + 5 \in Nat /\ i + 6 \in Nat /\ i + 7 \in Nat
  BY SMT
<1>2. i >= Len(bits) =>
        /\ i + 1 >= Len(bits) /\ i + 2 >= Len(bits) /\ i + 3 >= Len(bits) /\ i + 4 >= Len(bits)
        /\ i + 5 >= Len(bits) /\ i + 6 >= Len(bits) /\ i + 7 >= Len(bits)
  <2>1. Len(bits) \in Nat
    BY LenProperties
  <2>2. QED
    BY <2>1, SMT
<1>3. QED
  BY <1>1, <1>2, BitsAt, ZenonT(60)

(* Septet reads seven bits of the stream that OctetsOf packs, also where
   they lie in two octets and where the second of them is not there. *)
LEMMA SeptetBits ==
  ASSUME NEW bits \in Seq(Binary), NEW i \in Nat, 7 * i < Len(bits)
  PROVE  Septet(OctetsOf(bits), i) = SevenAt(bits, 7 * i)
<1> DEFINE data == OctetsOf(bits)
           n == (Len(bits) + 7) \div 8
           m == (i * 7) \div 8
           b == (i * 7) % 8
           k == 8 * m
           x1 == At(bits, k + 1)
           x2 == At(bits, k + 2)
           x3 == At(bits, k + 3)
           x4 == At(bits, k + 4)
           x5 == At(bits, k + 5)
           x6 == At(bits, k + 6)
           x7 == At(bits, k + 7)
           x8 == At(bits, k + 8)
           y1 == At(bits, k + 9)
           y2 == At(bits, k + 10)
           y3 == At(bits, k + 11)
           y4 == At(bits, k + 12)
           y5 == At(bits, k + 13)
           y6 == At(bits, k + 14)
           y7 == At(bits, k + 15)
           y8 == At(bits, k + 16)
           x == Eight(x1, x2, x3, x4, x5, x6, x7, x8)
           y == Eight(y1, y2, y3, y4, y5, y6, y7, y8)
<1>1. Len(bits) \in Nat
  BY LenProperties
<1>2. /\ m \in Nat /\ b \in 0 .. 7 /\ 7 * i = 8 * m + b /\ k \in Nat /\ k + 8 \in Nat
  BY SMT
<1>3. /\ n \in Nat /\ m + 1 \in 1 .. n
      /\ m + 1 < n => m + 2 \in 1 .. n
      /\ ~ (m + 1 < n) => k + 8 >= Len(bits)
  <2> HIDE DEF m, b
  <2>1. QED
    BY <1>1, <1>2, SMT
<1>4. /\ data = [o \in 1 .. n |-> EightAt(bits, 8 * (o - 1))]
      /\ Len(data) = n
  BY OctetsAre, Zenon
<1> HIDE DEF m, b, n, data
<1>5. /\ k + 9 = (k + 8) + 1 /\ k + 10 = (k + 8) + 2 /\ k + 11 = (k + 8) + 3
      /\ k + 12 = (k + 8) + 4 /\ k + 13 = (k + 8) + 5 /\ k + 14 = (k + 8) + 6
      /\ k + 15 = (k + 8) + 7 /\ k + 16 = (k + 8) + 8
  BY <1>2, SMT
<1>6. data[m + 1] = x
  <2>1. 8 * ((m + 1) - 1) = k
    BY <1>2, SMT
  <2>2. data[m + 1] = EightAt(bits, 8 * ((m + 1) - 1))
    BY <1>3, <1>4, Zenon
  <2>3. QED
    BY <2>1, <2>2, Zenon DEF EightAt
<1>7. m + 1 < n => data[m + 2] = y
  <2>1. 8 * ((m + 2) - 1) = k + 8
    BY <1>2, SMT
  <2>2. m + 1 < n => data[m + 2] = EightAt(bits, 8 * ((m + 2) - 1))
    BY <1>3, <1>4, Zenon
  <2>3. EightAt(bits, k + 8) = y
    <3> HIDE DEF k
    <3>1. QED
      BY <1>5, Zenon DEF EightAt
  <2>4. QED
    BY <2>1, <2>2, <2>3, Zenon
<1>8. /\ x1 \in Binary /\ x2 \in Binary /\ x3 \in Binary /\ x4 \in Binary
      /\ x5 \in Binary /\ x6 \in Binary /\ x7 \in Binary /\ x8 \in Binary
  BY <1>2, BitsFrom, Zenon
<1>9. /\ y1 \in Binary /\ y2 \in Binary /\ y3 \in Binary /\ y4 \in Binary
      /\ y5 \in Binary /\ y6 \in Binary /\ y7 \in Binary /\ y8 \in Binary
      /\ ~ (m + 1 < n) => /\ y1 = 0 /\ y2 = 0 /\ y3 = 0 /\ y4 = 0 /\ y5 = 0 /\ y6 = 0
  <2> DEFINE e == k + 8
  <2>1. e \in Nat /\ (~ (m + 1 < n) => e >= Len(bits))
    BY <1>2, <1>3, Zenon
  <2> HIDE DEF e
  <2>2. /\ At(bits, e + 1) \in Binary /\ At(bits, e + 2) \in Binary /\ At(bits, e + 3) \in Binary
        /\ At(bits, e + 4) \in Binary /\ At(bits, e + 5) \in Binary /\ At(bits, e + 6) \in Binary
        /\ At(bits, e + 7) \in Binary /\ At(bits, e + 8) \in Binary
        /\ e >= Len(bits) =>
             /\ At(bits, e + 1) = 0 /\ At(bits, e + 2) = 0 /\ At(bits, e + 3) = 0
             /\ At(bits, e + 4) = 0 /\ At(bits, e + 5) = 0 /\ At(bits, e + 6) = 0
    BY <2>1, BitsFrom, Zenon
  <2> HIDE DEF k
  <2>3. QED
    BY <1>5, <2>1, <2>2, Zenon DEF e
<1> DEFINE left == (x \div 2 ^ b) % 128
           right == (y * 2 ^ (8 - b)) % 128
<1>10. Septet(data, i) = IF b > 1 /\ m + 1 < n THEN left + right ELSE left
  <2>1. Septet(data, i) = IF b > 1 /\ m + 1 < Len(data)
                          THEN ((data[m + 1] \div 2 ^ b) % 128) + ((data[m + 2] * 2 ^ (8 - b)) % 128)
                          ELSE (data[m + 1] \div 2 ^ b) % 128
    BY Zenon DEF Septet, m, b
  <2> HIDE DEF x, y
  <2>2. QED
    BY <1>4, <1>6, <1>7, <2>1, Zenon
<1> HIDE DEF k, x1, x2, x3, x4, x5, x6, x7, x8, y1, y2, y3, y4, y5, y6, y7, y8
<1>11. CASE b = 0
  <2>1. left = Seven(x1, x2, x3, x4, x5, x6, x7)
    <3>1. left = (x \div 1) % 128
      BY <1>11, SmallPowers, Zenon
    <3>2. (x \div 1) % 128 = Seven(x1, x2, x3, x4, x5, x6, x7)
      BY <1>8, SMT DEF Eight, Seven, Binary
    <3>3. QED
      BY <3>1, <3>2, Zenon
  <2>2. SevenAt(bits, 7 * i) = Seven(x1, x2, x3, x4, x5, x6, x7)
    <3>1. /\ 7 * i = k + 0
          /\ (k + 0) + 1 = k + 1 /\ (k + 0) + 2 = k + 2 /\ (k + 0) + 3 = k + 3 /\ (k + 0) + 4 = k + 4
          /\ (k + 0) + 5 = k + 5 /\ (k + 0) + 6 = k + 6 /\ (k + 0) + 7 = k + 7
      BY <1>2, <1>11, SMT DEF k
    <3>2. QED
      BY <3>1, Zenon DEF SevenAt, x1, x2, x3, x4, x5, x6, x7
  <2>3. ~ (b > 1)
    BY <1>11, SMT
  <2>4. QED
    BY <1>10, <2>1, <2>2, <2>3, Zenon DEF data
<1>12. CASE b = 1
  <2>1. left = Seven(x2, x3, x4, x5, x6, x7, x8)
    <3>1. left = (x \div 2) % 128
      BY <1>12, SmallPowers, Zenon
    <3>2. (x \div 2) % 128 = Seven(x2, x3, x4, x5, x6, x7, x8)
      BY <1>8, SMT DEF Eight, Seven, Binary
    <3>3. QED
      BY <3>1, <3>2, Zenon
  <2>2. SevenAt(bits, 7 * i) = Seven(x2, x3, x4, x5, x6, x7, x8)
    <3>1. /\ 7 * i = k + 1
          /\ (k + 1) + 1 = k + 2 /\ (k + 1) + 2 = k + 3 /\ (k + 1) + 3 = k + 4 /\ (k + 1) + 4 = k + 5
          /\ (k + 1) + 5 = k + 6 /\ (k + 1) + 6 = k + 7 /\ (k + 1) + 7 = k + 8
      BY <1>2, <1>12, SMT DEF k
    <3>2. QED
      BY <3>1, Zenon DEF SevenAt, x2, x3, x4, x5, x6, x7, x8
  <2>3. ~ (b > 1)
    BY <1>12, SMT
  <2>4. QED
    BY <1>10, <2>1, <2>2, <2>3, Zenon DEF data
<1>13. CASE b = 2
  <2>1. left = Seven(x3, x4, x5, x6, x7, x8, 0)
    <3>1. left = (x \div 4) % 128
      BY <1>13, SmallPowers, Zenon
    <3>2. (x \div 4) % 128 = Seven(x3, x4, x5, x6, x7, x8, 0)
      BY <1>8, SMT DEF Eight, Seven, Binary
    <3>3. QED
      BY <3>1, <3>2, Zenon
  <2>2. SevenAt(bits, 7 * i) = Seven(x3, x4, x5, x6, x7, x8, y1)
    <3>1. /\ 7 * i = k + 2
          /\ (k + 2) + 1 = k + 3 /\ (k + 2) + 2 = k + 4 /\ (k + 2) + 3 = k + 5 /\ (k + 2) + 4 = k + 6
          /\ (k + 2) + 5 = k + 7 /\ (k + 2) + 6 = k + 8 /\ (k + 2) + 7 = k + 9
      BY <1>2, <1>13, SMT DEF k
    <3>2. QED
      BY <3>1, Zenon DEF SevenAt, x3, x4, x5, x6, x7, x8, y1
  <2>3. right = Seven(0, 0, 0, 0, 0, 0, y1)
    <3>1. right = (y * 64) % 128
      <4>1. 8 - 2 = 6
        BY SMT
      <4>2. QED
        BY <1>13, <4>1, SmallPowers, Zenon
    <3>2. (y * 64) % 128 = Seven(0, 0, 0, 0, 0, 0, y1)
      BY <1>9, SMT DEF Eight, Seven, Binary
    <3>3. QED
      BY <3>1, <3>2, Zenon
  <2>4. Seven(x3, x4, x5, x6, x7, x8, 0) + Seven(0, 0, 0, 0, 0, 0, y1) = Seven(x3, x4, x5, x6, x7, x8, y1)
    BY <1>8, <1>9, SMT DEF Seven, Binary
  <2>5. ~ (m + 1 < n) => Seven(x3, x4, x5, x6, x7, x8, 0) = Seven(x3, x4, x5, x6, x7, x8, y1)
    BY <1>9, Zenon
  <2>6. b > 1
    BY <1>13, SMT
  <2>7. QED
    BY <1>10, <2>1, <2>2, <2>3, <2>4, <2>5, <2>6, Zenon DEF data
<1>14. CASE b = 3
  <2>1. left = Seven(x4, x5, x6, x7, x8, 0, 0)
    <3>1. left = (x \div 8) % 128
      BY <1>14, SmallPowers, Zenon
    <3>2. (x \div 8) % 128 = Seven(x4, x5, x6, x7, x8, 0, 0)
      BY <1>8, SMT DEF Eight, Seven, Binary
    <3>3. QED
      BY <3>1, <3>2, Zenon
  <2>2. SevenAt(bits, 7 * i) = Seven(x4, x5, x6, x7, x8, y1, y2)
    <3>1. /\ 7 * i = k + 3
          /\ (k + 3) + 1 = k + 4 /\ (k + 3) + 2 = k + 5 /\ (k + 3) + 3 = k + 6 /\ (k + 3) + 4 = k + 7
          /\ (k + 3) + 5 = k + 8 /\ (k + 3) + 6 = k + 9 /\ (k + 3) + 7 = k + 10
      BY <1>2, <1>14, SMT DEF k
    <3>2. QED
      BY <3>1, Zenon DEF SevenAt, x4, x5, x6, x7, x8, y1, y2
  <2>3. right = Seven(0, 0, 0, 0, 0, y1, y2)
    <3>1. right = (y * 32) % 128
      <4>1. 8 - 3 = 5
        BY SMT
      <4>2. QED
        BY <1>14, <4>1, SmallPowers, Zenon
    <3>2. (y * 32) % 128 = Seven(0, 0, 0, 0, 0, y1, y2)
      BY <1>9, SMT DEF Eight, Seven, Binary
    <3>3. QED
      BY <3>1, <3>2, Zenon
  <2>4. Seven(x4, x5, x6, x7, x8, 0, 0) + Seven(0, 0, 0, 0, 0, y1, y2) = Seven(x4, x5, x6, x7, x8, y1, y2)
    BY <1>8, <1>9, SMT DEF Seven, Binary
  <2>5. ~ (m + 1 < n) => Seven(x4, x5, x6, x7, x8, 0, 0) = Seven(x4, x5, x6, x7, x8, y1, y2)
    BY <1>9, Zenon
  <2>6. b > 1
    BY <1>14, SMT
  <2>7. QED
    BY <1>10, <2>1, <2>2, <2>3, <2>4, <2>5, <2>6, Zenon DEF data
<1>15. CASE b = 4
  <2>1. left = Seven(x5, x6, x7, x8, 0, 0, 0)
    <3>1. left = (x \div 16) % 128
      BY <1>15, SmallPowers, Zenon
    <3>2. (x \div 16) % 128 = Seven(x5, x6, x7, x8, 0, 0, 0)
      BY <1>8, SMT DEF Eight, Seven, Binary
    <3>3. QED
      BY <3>1, <3>2, Zenon
  <2>2. SevenAt(bits, 7 * i) = Seven(x5, x6, x7, x8, y1, y2, y3)
    <3>1. /\ 7 * i = k + 4
          /\ (k + 4) + 1 = k + 5 /\ (k + 4) + 2 = k + 6 /\ (k + 4) + 3 = k + 7 /\ (k + 4) + 4 = k + 8
          /\ (k + 4) + 5 = k + 9 /\ (k + 4) + 6 = k + 10 /\ (k + 4) + 7 = k + 11
      BY <1>2, <1>15, SMT DEF k
    <3>2. QED
      BY <3>1, Zenon DEF SevenAt, x5, x6, x7, x8, y1, y2, y3
  <2>3. right = Seven(0, 0, 0, 0, y1, y2, y3)
    <3>1. right = (y * 16) % 128
      <4>1. 8 - 4 = 4
        BY SMT
      <4>2. QED
        BY <1>15, <4>1, SmallPowers, Zenon
    <3>2. (y * 16) % 128 = Seven(0, 0, 0, 0, y1, y2, y3)
      BY <1>9, SMT DEF Eight, Seven, Binary
    <3>3. QED
      BY <3>1, <3>2, Zenon
  <2>4. Seven(x5, x6, x7, x8, 0, 0, 0) + Seven(0, 0, 0, 0, y1, y2, y3) = Seven(x5, x6, x7, x8, y1, y2, y3)
    BY <1>8, <1>9, SMT DEF Seven, Binary
  <2>5. ~ (m + 1 < n) => Seven(x5, x6, x7, x8, 0, 0, 0) = Seven(x5, x6, x7, x8, y1, y2, y3)
    BY <1>9, Zenon
  <2>6. b > 1
    BY <1>15, SMT
  <2>7. QED
    BY <1>10, <2>1, <2>2, <2>3, <2>4, <2>5, <2>6, Zenon DEF data
<1>16. CASE b = 5
  <2>1. left = Seven(x6, x7, x8, 0, 0, 0, 0)
    <3>1. left = (x \div 32) % 128
      BY <1>16, SmallPowers, Zenon
    <3>2. (x \div 32) % 128 = Seven(x6, x7, x8, 0, 0, 0, 0)
      BY <1>8, SMT DEF Eight, Seven, Binary
    <3>3. QED
      BY <3>1, <3>2, Zenon
  <2>2. SevenAt(bits, 7 * i) = Seven(x6, x7, x8, y1, y2, y3, y4)
    <3>1. /\ 7 * i = k + 5
          /\ (k + 5) + 1 = k + 6 /\ (k + 5) + 2 = k + 7 /\ (k + 5) + 3 = k + 8 /\ (k + 5) + 4 = k + 9
          /\ (k + 5) + 5 = k + 10 /\ (k + 5) + 6 = k + 11 /\ (k + 5) + 7 = k + 12
      BY <1>2, <1>16, SMT DEF k
    <3>2. QED
      BY <3>1, Zenon DEF SevenAt, x6, x7, x8, y1, y2, y3, y4
  <2>3. right = Seven(0, 0, 0, y1, y2, y3, y4)
    <3>1. right = (y * 8) % 128
      <4>1. 8 - 5 = 3
        BY SMT
      <4>2. QED
        BY <1>16, <4>1, SmallPowers, Zenon
    <3>2. (y * 8) % 128 = Seven(0, 0, 0, y1, y2, y3, y4)
      BY <1>9, SMT DEF Eight, Seven, Binary
    <3>3. QED
      BY <3>1, <3>2, Zenon
  <2>4. Seven(x6, x7, x8, 0, 0, 0, 0) + Seven(0, 0, 0, y1, y2, y3, y4) = Seven(x6, x7, x8, y1, y2, y3, y4)
    BY <1>8, <1>9, SMT DEF Seven, Binary
  <2>5. ~ (m + 1 < n) => Seven(x6, x7, x8, 0, 0, 0, 0) = Seven(x6, x7, x8, y1, y2, y3, y4)
    BY <1>9, Zenon
  <2>6. b > 1
    BY <1>16, SMT
  <2>7. QED
    BY <1>10, <2>1, <2>2, <2>3, <2>4, <2>5, <2>6, Zenon DEF data
<1>17. CASE b = 6
  <2>1. left = Seven(x7, x8, 0, 0, 0, 0, 0)
    <3>1. left = (x \div 64) % 128
      BY <1>17, SmallPowers, Zenon
    <3>2. (x \div 64) % 128 = Seven(x7, x8, 0, 0, 0, 0, 0)
      BY <1>8, SMT DEF Eight, Seven, Binary
    <3>3. QED
      BY <3>1, <3>2, Zenon
  <2>2. SevenAt(bits, 7 * i) = Seven(x7, x8, y1, y2, y3, y4, y5)
    <3>1. /\ 7 * i = k + 6
          /\ (k + 6) + 1 = k + 7 /\ (k + 6) + 2 = k + 8 /\ (k + 6) + 3 = k + 9 /\ (k + 6) + 4 = k + 10
          /\ (k + 6) + 5 = k + 11 /\ (k + 6) + 6 = k + 12 /\ (k + 6) + 7 = k + 13
      BY <1>2, <1>17, SMT DEF k
    <3>2. QED
      BY <3>1, Zenon DEF SevenAt, x7, x8, y1, y2, y3, y4, y5
  <2>3. right = Seven(0, 0, y1, y2, y3, y4, y5)
    <3>1. right = (y * 4) % 128
      <4>1. 8 - 6 = 2
        BY SMT
      <4>2. QED
        BY <1>17, <4>1, SmallPowers, Zenon
    <3>2. (y * 4) % 128 = Seven(0, 0, y1, y2, y3, y4, y5)
      BY <1>9, SMT DEF Eight, Seven, Binary
    <3>3. QED
      BY <3>1, <3>2, Zenon
  <2>4. Seven(x7, x8, 0, 0, 0, 0, 0) + Seven(0, 0, y1, y2, y3, y4, y5) = Seven(x7, x8, y1, y2, y3, y4, y5)
    BY <1>8, <1>9, SMT DEF Seven, Binary
  <2>5. ~ (m + 1 < n) => Seven(x7, x8, 0, 0, 0, 0, 0) = Seven(x7, x8, y1, y2, y3, y4, y5)
    BY <1>9, Zenon
  <2>6. b > 1
    BY <1>17, SMT
  <2>7. QED
    BY <1>10, <2>1, <2>2, <2>3, <2>4, <2>5, <2>6, Zenon DEF data
<1>18. CASE b = 7
  <2>1. left = Seven(x8, 0, 0, 0, 0, 0, 0)
    <3>1. left = (x \div 128) % 128
      BY <1>18, SmallPowers, Zenon
    <3>2. (x \div 128) % 128 = Seven(x8, 0, 0, 0, 0, 0, 0)
      BY <1>8, SMT DEF Eight, Seven, Binary
    <3>3. QED
      BY <3>1, <3>2, Zenon
  <2>2. SevenAt(bits, 7 * i) = Seven(x8, y1, y2, y3, y4, y5, y6)
    <3>1. /\ 7 * i = k + 7
          /\ (k + 7) + 1 = k + 8 /\ (k + 7) + 2 = k + 9 /\ (k + 7) + 3 = k + 10 /\ (k + 7) + 4 = k + 11
          /\ (k + 7) + 5 = k + 12 /\ (k + 7) + 6 = k + 13 /\ (k + 7) + 7 = k + 14
      BY <1>2, <1>18, SMT DEF k
    <3>2. QED
      BY <3>1, Zenon DEF SevenAt, x8, y1, y2, y3, y4, y5, y6
  <2>3. right = Seven(0, y1, y2, y3, y4, y5, y6)
    <3>1. right = (y * 2) % 128
      <4>1. 8 - 7 = 1
        BY SMT
      <4>2. QED
        BY <1>18, <4>1, SmallPowers, Zenon
    <3>2. (y * 2) % 128 = Seven(0, y1, y2, y3, y4, y5, y6)
      BY <1>9, SMT DEF Eight, Seven, Binary
    <3>3. QED
      BY <3>1, <3>2, Zenon
  <2>4. Seven(x8, 0, 0, 0, 0, 0, 0) + Seven(0, y1, y2, y3, y4, y5, y6) = Seven(x8, y1, y2, y3, y4, y5, y6)
    BY <1>8, <1>9, SMT DEF Seven, Binary
  <2>5. ~ (m + 1 < n) => Seven(x8, 0, 0, 0, 0, 0, 0) = Seven(x8, y1, y2, y3, y4, y5, y6)
    BY <1>9, Zenon
  <2>6. b > 1
    BY <1>18, SMT
  <2>7. QED
    BY <1>10, <2>1, <2>2, <2>3, <2>4, <2>5, <2>6, Zenon DEF data
<1>19. b = 0 \/ b = 1 \/ b = 2 \/ b = 3 \/ b = 4 \/ b = 5 \/ b = 6 \/ b = 7
  BY <1>2, SMT
<1>20. QED
  BY <1>11, <1>12, <1>13, <1>14, <1>15, <1>16, <1>17, <1>18, <1>19, Zenon

LEMMA BitsOfAre ==
  ASSUME NEW numbers \in Seq(Byte), NEW w \in 1 .. 8
  PROVE  /\ BitsOf(numbers, w) \in Seq(Binary) /\ Len(BitsOf(numbers, w)) = w * Len(numbers)
         /\ \A i \in 1 .. Len(numbers) : \A j \in 1 .. w :
              BitsOf(numbers, w)[w * (i - 1) + j] = Bit(numbers[i], j - 1)
<1> DEFINE n == Len(numbers)
           B == Blocks(Binary, w)
           block(i) == [k \in 1 .. w |-> Bit(numbers[i], k - 1)]
           blocks == [i \in 1 .. n |-> block(i)]
           whole == FlattenSeq(blocks)
<1>1. /\ n \in Nat /\ DOMAIN numbers = 1 .. n /\ \A i \in 1 .. n : numbers[i] \in Byte
      /\ w \in Nat
  BY LenProperties, ElementOfSeq, SMT
<1>2. BitsOf(numbers, w) = whole
  BY <1>1, Zenon DEF BitsOf
<1>3. \A i \in 1 .. n : block(i) \in B
  <2> SUFFICES ASSUME NEW i \in 1 .. n
               PROVE  block(i) \in B
    BY Zenon
  <2>1. \A k \in 1 .. w : k - 1 \in 0 .. 7
    BY SMT
  <2>2. \A k \in 1 .. w : Bit(numbers[i], k - 1) \in Binary
    BY <1>1, <2>1, BitsAdded, Zenon
  <2>3. block(i) \in [1 .. w -> Binary]
    BY <2>2, Zenon
  <2> HIDE DEF block
  <2>4. block(i) \in Seq(Binary) /\ Len(block(i)) = w
    BY <1>1, <2>3, FunctionsAreSeqs, Zenon
  <2>5. QED
    BY <2>4, Zenon DEF Blocks
<1>4. \A i \in 1 .. n : \A j \in 1 .. w : block(i)[j] = Bit(numbers[i], j - 1)
  BY Zenon
<1> HIDE DEF block, n
<1>5. blocks \in [1 .. n -> B] /\ \A i \in 1 .. n : blocks[i] = block(i)
  BY <1>3, Zenon
<1> HIDE DEF blocks, B
<1>6. blocks \in Seq(B) /\ Len(blocks) = n
  BY <1>1, <1>5, FunctionsAreSeqs, Zenon
<1>7. whole \in Seq(Binary) /\ InBlocks(whole, blocks, w)
  BY <1>1, <1>6, FlattenBlocks, Zenon DEF B
<1>8. \A i \in 1 .. n : \A j \in 1 .. w : whole[w * (i - 1) + j] = blocks[i][j]
  BY <1>6, <1>7, Zenon DEF InBlocks
<1>9. Len(whole) = w * n
  BY <1>6, <1>7, Zenon DEF InBlocks
<1> HIDE DEF whole
<1>10. \A i \in 1 .. n : \A j \in 1 .. w : whole[w * (i - 1) + j] = Bit(numbers[i], j - 1)
  BY <1>4, <1>5, <1>8, ZenonT(60)
<1>11. QED
  BY <1>2, <1>7, <1>9, <1>10, Zenon DEF n

Septets == 0 .. 127

(* A header, the bits up to the next septet, and a text, as one stream *)
IsStream(bits, header, septets) ==
  LET size == Len(header)
      start == HeaderSeptets(header)
  IN  /\ bits \in Seq(Binary) /\ Len(bits) = 7 * start + 7 * Len(septets)
      /\ start \in Nat /\ 8 * size <= 7 * start
      /\ \A o \in 1 .. size : \A j \in 1 .. 8 : At(bits, 8 * (o - 1) + j) = Bit(header[o], j - 1)
      /\ \A i \in 8 * size + 1 .. 7 * start : At(bits, i) = 0
      /\ \A k \in 1 .. Len(septets) : \A j \in 1 .. 7 :
           At(bits, 7 * (start + (k - 1)) + j) = Bit(septets[k], j - 1)

Stream(header, septets) ==
  BitsOf(header, 8) \o [i \in 1 .. (7 - ((8 * Len(header)) % 7)) % 7 |-> 0] \o BitsOf(septets, 7)

LEMMA SeptetsAreBytes == \A septets \in Seq(Septets) : septets \in Seq(Byte)
<1>1. Septets \subseteq Byte
  BY SMT DEF Septets, Byte
<1>2. QED
  BY <1>1, SeqMonotonic, Zenon

LEMMA StreamIs ==
  ASSUME NEW header \in Seq(Byte), NEW septets \in Seq(Septets)
  PROVE  IsStream(Stream(header, septets), header, septets)
<1> DEFINE size == Len(header)
           count == Len(septets)
           start == HeaderSeptets(header)
           f == (7 - ((8 * size) % 7)) % 7
           bh == BitsOf(header, 8)
           fill == [i \in 1 .. f |-> 0]
           front == bh \o fill
           bs == BitsOf(septets, 7)
           bits == front \o bs
<1>1. size \in Nat /\ count \in Nat
  BY LenProperties
<1>2. f \in Nat /\ start \in Nat /\ 8 * size + f = 7 * start
  <2>1. start = (8 * size + 6) \div 7
    BY Zenon DEF HeaderSeptets
  <2> HIDE DEF size, start
  <2>2. QED
    BY <1>1, <2>1, SMT
<1>3. /\ bh \in Seq(Binary) /\ Len(bh) = 8 * size
      /\ \A o \in 1 .. size : \A j \in 1 .. 8 : bh[8 * (o - 1) + j] = Bit(header[o], j - 1)
  <2>1. 8 \in 1 .. 8
    BY SMT
  <2>2. QED
    BY <2>1, BitsOfAre, Zenon
<1>4. /\ bs \in Seq(Binary) /\ Len(bs) = 7 * count
      /\ \A k \in 1 .. count : \A j \in 1 .. 7 : bs[7 * (k - 1) + j] = Bit(septets[k], j - 1)
  <2>1. 7 \in 1 .. 8 /\ septets \in Seq(Byte)
    BY SeptetsAreBytes, SMT
  <2>2. QED
    BY <2>1, BitsOfAre, Zenon
<1> HIDE DEF f, start
<1>5. fill \in Seq(Binary) /\ Len(fill) = f /\ \A i \in 1 .. f : fill[i] = 0
  <2>1. fill \in [1 .. f -> Binary] /\ \A i \in 1 .. f : fill[i] = 0
    BY Zenon DEF Binary
  <2> HIDE DEF fill
  <2>2. QED
    BY <1>2, <2>1, FunctionsAreSeqs, Zenon
<1>6. Stream(header, septets) = bits
  BY Zenon DEF Stream, f
<1> HIDE DEF size, count, bh, bs, fill
<1>7. /\ front \in Seq(Binary) /\ Len(front) = Len(bh) + Len(fill)
      /\ \A i \in 1 .. Len(bh) + Len(fill) :
           front[i] = IF i <= Len(bh) THEN bh[i] ELSE fill[i - Len(bh)]
  <2>1. bh \in Seq(Binary) /\ fill \in Seq(Binary)
    BY <1>3, <1>5, Zenon
  <2>2. QED
    BY <2>1, ConcatProperties
<1> HIDE DEF front
<1>8. /\ bits \in Seq(Binary) /\ Len(bits) = Len(front) + Len(bs)
      /\ \A i \in 1 .. Len(front) + Len(bs) :
           bits[i] = IF i <= Len(front) THEN front[i] ELSE bs[i - Len(front)]
  <2>1. bs \in Seq(Binary) /\ front \in Seq(Binary)
    BY <1>4, <1>7, Zenon
  <2>2. QED
    BY <2>1, ConcatProperties
<1> HIDE DEF bits
<1>9. Len(front) = 7 * start /\ Len(bits) = 7 * start + 7 * count
  BY <1>2, <1>3, <1>4, <1>5, <1>7, <1>8, SMT
<1>10. ASSUME NEW o \in 1 .. size, NEW j \in 1 .. 8
       PROVE  At(bits, 8 * (o - 1) + j) = Bit(header[o], j - 1)
  <2> DEFINE i == 8 * (o - 1) + j
  <2>1. /\ i \in 1 .. Len(bh) + Len(fill) /\ i <= Len(bh)
        /\ i \in 1 .. Len(front) + Len(bs) /\ i <= Len(front) /\ i <= Len(bits)
    BY <1>1, <1>2, <1>3, <1>4, <1>5, <1>7, <1>8, SMTT(60)
  <2> HIDE DEF i
  <2>2. bits[i] = bh[i]
    BY <1>7, <1>8, <2>1, Zenon
  <2>3. QED
    BY <1>3, <2>1, <2>2, Zenon DEF At, i
<1>11. ASSUME NEW i \in 8 * size + 1 .. 7 * start
       PROVE  At(bits, i) = 0
  <2>1. /\ i \in 1 .. Len(bh) + Len(fill) /\ ~ (i <= Len(bh)) /\ i - Len(bh) \in 1 .. f
        /\ i \in 1 .. Len(front) + Len(bs) /\ i <= Len(front) /\ i <= Len(bits)
    BY <1>1, <1>2, <1>3, <1>4, <1>5, <1>7, <1>8, SMT
  <2>2. bits[i] = fill[i - Len(bh)]
    BY <1>7, <1>8, <2>1, Zenon
  <2>3. QED
    BY <1>5, <2>1, <2>2, Zenon DEF At
<1>12. ASSUME NEW k \in 1 .. count, NEW j \in 1 .. 7
       PROVE  At(bits, 7 * (start + (k - 1)) + j) = Bit(septets[k], j - 1)
  <2> DEFINE i == 7 * (start + (k - 1)) + j
  <2>1. /\ i \in 1 .. Len(front) + Len(bs) /\ ~ (i <= Len(front)) /\ i <= Len(bits)
        /\ i - Len(front) = 7 * (k - 1) + j
    BY <1>1, <1>2, <1>4, <1>8, <1>9, SMT
  <2> HIDE DEF i
  <2>2. bits[i] = bs[7 * (k - 1) + j]
    BY <1>8, <2>1, Zenon
  <2>3. QED
    BY <1>4, <2>1, <2>2, Zenon DEF At, i
<1>13. 8 * size <= 7 * start
  BY <1>1, <1>2, SMT
<1>14. IsStream(bits, header, septets)
  BY <1>2, <1>8, <1>9, <1>10, <1>11, <1>12, <1>13, Zenon DEF IsStream, size, count, start
<1>15. QED
  BY <1>6, <1>14, Zenon

(* What is read from packed data: the octets of the header, and from the
   septet after them on the text. *)
IsPacked(data, header, septets) ==
  /\ data \in Seq(Byte) /\ Len(header) <= Len(data)
  /\ \A o \in 1 .. Len(header) : data[o] = header[o]
  /\ \A k \in 1 .. Len(septets) : Septet(data, HeaderSeptets(header) + (k - 1)) = septets[k]

LEMMA PackedIs ==
  ASSUME NEW header \in Seq(Byte), NEW septets \in Seq(Septets)
  PROVE  IsPacked(Packed(header, septets), header, septets)
<1> DEFINE bits == Stream(header, septets)
           data == OctetsOf(bits)
           size == Len(header)
           count == Len(septets)
           start == HeaderSeptets(header)
           n == (Len(bits) + 7) \div 8
<1>1. Packed(header, septets) = data
  BY Zenon DEF Packed, Stream
<1>2. IsStream(bits, header, septets)
  BY StreamIs
<1>3. /\ bits \in Seq(Binary) /\ Len(bits) = 7 * start + 7 * count
      /\ start \in Nat /\ 8 * size <= 7 * start
      /\ \A o \in 1 .. size : \A j \in 1 .. 8 : At(bits, 8 * (o - 1) + j) = Bit(header[o], j - 1)
      /\ \A k \in 1 .. count : \A j \in 1 .. 7 :
           At(bits, 7 * (start + (k - 1)) + j) = Bit(septets[k], j - 1)
  BY <1>2, Zenon DEF IsStream
<1>4. /\ size \in Nat /\ count \in Nat
      /\ \A o \in 1 .. size : header[o] \in Byte
      /\ \A k \in 1 .. count : septets[k] \in Septets
  BY LenProperties, ElementOfSeq
<1> HIDE DEF bits
<1>5. /\ data = [o \in 1 .. n |-> EightAt(bits, 8 * (o - 1))]
      /\ data \in Seq(Byte) /\ Len(data) = n
  BY <1>3, OctetsAre, Zenon
<1> HIDE DEF start, size, count, data
<1>6. n \in Nat /\ size <= n
  <2>1. /\ size \in Nat /\ count \in Nat /\ start \in Nat /\ 8 * size <= 7 * start
        /\ Len(bits) = 7 * start + 7 * count
    BY <1>3, <1>4, Zenon
  <2>2. QED
    BY <2>1, SMT
<1> HIDE DEF n
<1>7. ASSUME NEW o \in 1 .. size
      PROVE  data[o] = header[o]
  <2> DEFINE e == 8 * (o - 1)
             x == header[o]
  <2>1. o \in 1 .. n
    BY <1>4, <1>6, SMT
  <2>2. data[o] = EightAt(bits, e)
    BY <1>5, <2>1, Zenon
  <2>3. \A j \in 1 .. 8 : At(bits, e + j) = Bit(x, j - 1)
    BY <1>3, Zenon
  <2>4. /\ 1 - 1 = 0 /\ 2 - 1 = 1 /\ 3 - 1 = 2 /\ 4 - 1 = 3
        /\ 5 - 1 = 4 /\ 6 - 1 = 5 /\ 7 - 1 = 6 /\ 8 - 1 = 7
        /\ 1 \in 1 .. 8 /\ 2 \in 1 .. 8 /\ 3 \in 1 .. 8 /\ 4 \in 1 .. 8
        /\ 5 \in 1 .. 8 /\ 6 \in 1 .. 8 /\ 7 \in 1 .. 8 /\ 8 \in 1 .. 8
    BY SMT
  <2> HIDE DEF e, x
  <2>5. /\ At(bits, e + 1) = Bit(x, 0) /\ At(bits, e + 2) = Bit(x, 1)
        /\ At(bits, e + 3) = Bit(x, 2) /\ At(bits, e + 4) = Bit(x, 3)
        /\ At(bits, e + 5) = Bit(x, 4) /\ At(bits, e + 6) = Bit(x, 5)
        /\ At(bits, e + 7) = Bit(x, 6) /\ At(bits, e + 8) = Bit(x, 7)
    BY <2>3, <2>4, Zenon
  <2>6. Eight(Bit(x, 0), Bit(x, 1), Bit(x, 2), Bit(x, 3), Bit(x, 4), Bit(x, 5), Bit(x, 6), Bit(x, 7)) = x
    BY <1>4, BitsAdded, Zenon DEF x
  <2>7. QED
    BY <2>2, <2>5, <2>6, Zenon DEF EightAt, x
<1>8. ASSUME NEW k \in 1 .. count
      PROVE  Septet(data, start + (k - 1)) = septets[k]
  <2> DEFINE i == start + (k - 1)
             e == 7 * i
             x == septets[k]
  <2>1. i \in Nat /\ 7 * i < Len(bits)
    <3>1. start \in Nat /\ count \in Nat /\ Len(bits) = 7 * start + 7 * count
      BY <1>3, <1>4, Zenon
    <3>2. QED
      BY <3>1, SMT
  <2>2. Septet(data, i) = SevenAt(bits, e)
    <3> HIDE DEF i
    <3>1. QED
      BY <1>3, <2>1, SeptetBits, Zenon DEF data
  <2>3. \A j \in 1 .. 7 : At(bits, e + j) = Bit(x, j - 1)
    BY <1>3, Zenon
  <2>4. /\ 1 - 1 = 0 /\ 2 - 1 = 1 /\ 3 - 1 = 2 /\ 4 - 1 = 3
        /\ 5 - 1 = 4 /\ 6 - 1 = 5 /\ 7 - 1 = 6
        /\ 1 \in 1 .. 7 /\ 2 \in 1 .. 7 /\ 3 \in 1 .. 7 /\ 4 \in 1 .. 7
        /\ 5 \in 1 .. 7 /\ 6 \in 1 .. 7 /\ 7 \in 1 .. 7
    BY SMT
  <2> HIDE DEF e, x
  <2>5. /\ At(bits, e + 1) = Bit(x, 0) /\ At(bits, e + 2) = Bit(x, 1)
        /\ At(bits, e + 3) = Bit(x, 2) /\ At(bits, e + 4) = Bit(x, 3)
        /\ At(bits, e + 5) = Bit(x, 4) /\ At(bits, e + 6) = Bit(x, 5)
        /\ At(bits, e + 7) = Bit(x, 6)
    BY <2>3, <2>4, Zenon
  <2>6. Seven(Bit(x, 0), Bit(x, 1), Bit(x, 2), Bit(x, 3), Bit(x, 4), Bit(x, 5), Bit(x, 6)) = x
    <3>1. x \in Byte /\ x < 128
      <4>1. x \in Septets
        BY <1>4, Zenon DEF x
      <4>2. QED
        BY <4>1, SMT DEF Septets, Byte
    <3>2. QED
      BY <3>1, BitsAdded, Zenon
  <2>7. QED
    BY <2>2, <2>5, <2>6, Zenon DEF SevenAt, x
<1>9. IsPacked(data, header, septets)
  BY <1>4, <1>5, <1>6, <1>7, <1>8, Zenon DEF IsPacked, size, count, start
<1>10. QED
  BY <1>1, <1>9, Zenon

(* The septet that decodeGSM7 takes for the first of the text, after a
   header of six or seven octets: what is left of its last octet *)
LEMMA SeptetInHeader ==
  ASSUME NEW header \in Seq(Byte), NEW septets \in Seq(Septets)
  PROVE  /\ Len(header) = 6 => Septet(Packed(header, septets), 6) = header[6] \div 4
         /\ Len(header) = 7 => Septet(Packed(header, septets), 7) = header[7] \div 2
<1> DEFINE bits == Stream(header, septets)
           data == OctetsOf(bits)
<1>1. Packed(header, septets) = data
  BY Zenon DEF Packed, Stream
<1>2. IsStream(bits, header, septets)
  BY StreamIs
<1> HIDE DEF bits
<1>3. Len(septets) \in Nat
  BY LenProperties
<1>4. \A x \in Byte :
        /\ Seven(Bit(x, 2), Bit(x, 3), Bit(x, 4), Bit(x, 5), Bit(x, 6), Bit(x, 7), 0) = x \div 4
        /\ Seven(Bit(x, 1), Bit(x, 2), Bit(x, 3), Bit(x, 4), Bit(x, 5), Bit(x, 6), Bit(x, 7)) = x \div 2
  <2> SUFFICES ASSUME NEW x \in Byte
               PROVE  /\ Seven(Bit(x, 2), Bit(x, 3), Bit(x, 4), Bit(x, 5), Bit(x, 6), Bit(x, 7), 0) = x \div 4
                      /\ Seven(Bit(x, 1), Bit(x, 2), Bit(x, 3), Bit(x, 4), Bit(x, 5), Bit(x, 6), Bit(x, 7)) = x \div 2
    BY Zenon
  <2> DEFINE b0 == Bit(x, 0)
             b1 == Bit(x, 1)
             b2 == Bit(x, 2)
             b3 == Bit(x, 3)
             b4 == Bit(x, 4)
             b5 == Bit(x, 5)
             b6 == Bit(x, 6)
             b7 == Bit(x, 7)
  <2>1. /\ b0 \in Binary /\ b1 \in Binary /\ b2 \in Binary /\ b3 \in Binary
        /\ b4 \in Binary /\ b5 \in Binary /\ b6 \in Binary /\ b7 \in Binary
    <3>1. /\ 0 \in 0 .. 7 /\ 1 \in 0 .. 7 /\ 2 \in 0 .. 7 /\ 3 \in 0 .. 7
          /\ 4 \in 0 .. 7 /\ 5 \in 0 .. 7 /\ 6 \in 0 .. 7 /\ 7 \in 0 .. 7
      BY SMT
    <3>2. QED
      BY <3>1, BitsAdded, Zenon
  <2>2. x = Eight(b0, b1, b2, b3, b4, b5, b6, b7)
    BY BitsAdded, Zenon
  <2> HIDE DEF b0, b1, b2, b3, b4, b5, b6, b7
  <2>3. /\ Seven(b2, b3, b4, b5, b6, b7, 0) = x \div 4
        /\ Seven(b1, b2, b3, b4, b5, b6, b7) = x \div 2
    BY <2>1, <2>2, SMT DEF Eight, Seven, Binary
  <2>4. QED
    BY <2>3, Zenon DEF b1, b2, b3, b4, b5, b6, b7
<1>5. ASSUME Len(header) = 6
      PROVE  Septet(data, 6) = header[6] \div 4
  <2> DEFINE x == header[6]
  <2>1. HeaderSeptets(header) = 7
    BY <1>5, SMT DEF HeaderSeptets
  <2>2. /\ bits \in Seq(Binary) /\ Len(bits) = 49 + 7 * Len(septets)
        /\ \A j \in 1 .. 8 : At(bits, 40 + j) = Bit(x, j - 1)
        /\ At(bits, 49) = 0
    <3>1. /\ bits \in Seq(Binary) /\ Len(bits) = 7 * 7 + 7 * Len(septets)
          /\ \A o \in 1 .. 6 : \A j \in 1 .. 8 : At(bits, 8 * (o - 1) + j) = Bit(header[o], j - 1)
          /\ \A i \in 8 * 6 + 1 .. 7 * 7 : At(bits, i) = 0
      BY <1>2, <1>5, <2>1, Zenon DEF IsStream
    <3>2. 6 \in 1 .. 6 /\ 8 * (6 - 1) = 40 /\ 7 * 7 = 49 /\ 49 \in 8 * 6 + 1 .. 7 * 7
      BY SMT
    <3>3. \A j \in 1 .. 8 : At(bits, 8 * (6 - 1) + j) = Bit(header[6], j - 1)
      BY <3>1, <3>2, Zenon
    <3>4. QED
      BY <3>1, <3>2, <3>3, Zenon
  <2>3. 6 \in Nat /\ 7 * 6 < Len(bits) /\ 7 * 6 = 42
    BY <1>3, <2>2, SMT
  <2>4. Septet(data, 6) = SevenAt(bits, 42)
    BY <2>2, <2>3, SeptetBits, Zenon
  <2>5. /\ 42 + 1 = 40 + 3 /\ 42 + 2 = 40 + 4 /\ 42 + 3 = 40 + 5 /\ 42 + 4 = 40 + 6
        /\ 42 + 5 = 40 + 7 /\ 42 + 6 = 40 + 8 /\ 42 + 7 = 49
        /\ 3 - 1 = 2 /\ 4 - 1 = 3 /\ 5 - 1 = 4 /\ 6 - 1 = 5 /\ 7 - 1 = 6 /\ 8 - 1 = 7
        /\ 3 \in 1 .. 8 /\ 4 \in 1 .. 8 /\ 5 \in 1 .. 8 /\ 6 \in 1 .. 8 /\ 7 \in 1 .. 8 /\ 8 \in 1 .. 8
    BY SMT
  <2>6. x \in Byte
    <3>1. 6 \in 1 .. 6
      BY SMT
    <3>2. QED
      BY <1>5, <3>1, ElementOfSeq, Zenon
  <2> HIDE DEF x
  <2>7. /\ At(bits, 42 + 1) = Bit(x, 2) /\ At(bits, 42 + 2) = Bit(x, 3) /\ At(bits, 42 + 3) = Bit(x, 4)
        /\ At(bits, 42 + 4) = Bit(x, 5) /\ At(bits, 42 + 5) = Bit(x, 6) /\ At(bits, 42 + 6) = Bit(x, 7)
        /\ At(bits, 42 + 7) = 0
    BY <2>2, <2>5, ZenonT(60)
  <2>8. QED
    BY <1>4, <2>4, <2>6, <2>7, Zenon DEF SevenAt, x
<1>6. ASSUME Len(header) = 7
      PROVE  Septet(data, 7) = header[7] \div 2
  <2> DEFINE x == header[7]
  <2>1. HeaderSeptets(header) = 8
    BY <1>6, SMT DEF HeaderSeptets
  <2>2. /\ bits \in Seq(Binary) /\ Len(bits) = 56 + 7 * Len(septets)
        /\ \A j \in 1 .. 8 : At(bits, 48 + j) = Bit(x, j - 1)
    <3>1. /\ bits \in Seq(Binary) /\ Len(bits) = 7 * 8 + 7 * Len(septets)
          /\ \A o \in 1 .. 7 : \A j \in 1 .. 8 : At(bits, 8 * (o - 1) + j) = Bit(header[o], j - 1)
      BY <1>2, <1>6, <2>1, Zenon DEF IsStream
    <3>2. 7 \in 1 .. 7 /\ 8 * (7 - 1) = 48 /\ 7 * 8 = 56
      BY SMT
    <3>3. \A j \in 1 .. 8 : At(bits, 8 * (7 - 1) + j) = Bit(header[7], j - 1)
      BY <3>1, <3>2, Zenon
    <3>4. QED
      BY <3>1, <3>2, <3>3, Zenon
  <2>3. 7 \in Nat /\ 7 * 7 < Len(bits) /\ 7 * 7 = 49
    BY <1>3, <2>2, SMT
  <2>4. Septet(data, 7) = SevenAt(bits, 49)
    BY <2>2, <2>3, SeptetBits, ZenonT(60)
  <2>5. /\ 49 + 1 = 48 + 2 /\ 49 + 2 = 48 + 3 /\ 49 + 3 = 48 + 4 /\ 49 + 4 = 48 + 5
        /\ 49 + 5 = 48 + 6 /\ 49 + 6 = 48 + 7 /\ 49 + 7 = 48 + 8
        /\ 2 - 1 = 1 /\ 3 - 1 = 2 /\ 4 - 1 = 3 /\ 5 - 1 = 4 /\ 6 - 1 = 5 /\ 7 - 1 = 6 /\ 8 - 1 = 7
        /\ 2 \in 1 .. 8 /\ 3 \in 1 .. 8 /\ 4 \in 1 .. 8 /\ 5 \in 1 .. 8 /\ 6 \in 1 .. 8 /\ 7 \in 1 .. 8
        /\ 8 \in 1 .. 8
    BY SMT
  <2>6. x \in Byte
    <3>1. 7 \in 1 .. 7
      BY SMT
    <3>2. QED
      BY <1>6, <3>1, ElementOfSeq, Zenon
  <2> HIDE DEF x
  <2>7. /\ At(bits, 49 + 1) = Bit(x, 1) /\ At(bits, 49 + 2) = Bit(x, 2) /\ At(bits, 49 + 3) = Bit(x, 3)
        /\ At(bits, 49 + 4) = Bit(x, 4) /\ At(bits, 49 + 5) = Bit(x, 5) /\ At(bits, 49 + 6) = Bit(x, 6)
        /\ At(bits, 49 + 7) = Bit(x, 7)
    BY <2>2, <2>5, ZenonT(60)
  <2>8. QED
    BY <1>4, <2>4, <2>6, <2>7, Zenon DEF SevenAt, x
<1>7. QED
  BY <1>1, <1>5, <1>6, Zenon

-----------------------------------------------------------------------------
(* A PDU and its fields *)

(* A part of a sequence, after the first k elements *)
Holds(whole, k, part) ==
  k + Len(part) <= Len(whole) /\ \A i \in 1 .. Len(part) : whole[k + i] = part[i]

Begins(whole, front) ==
  Len(front) <= Len(whole) /\ \A i \in 1 .. Len(front) : whole[i] = front[i]

LEMMA JoinHolds ==
  \A S : \A a, b \in Seq(S) :
    /\ a \o b \in Seq(S) /\ Len(a \o b) = Len(a) + Len(b)
    /\ Holds(a \o b, Len(a), b) /\ Begins(a \o b, a)
<1> SUFFICES ASSUME NEW S, NEW a \in Seq(S), NEW b \in Seq(S)
             PROVE  /\ a \o b \in Seq(S) /\ Len(a \o b) = Len(a) + Len(b)
                    /\ Holds(a \o b, Len(a), b) /\ Begins(a \o b, a)
  BY Zenon
<1> DEFINE whole == a \o b
<1>1. /\ whole \in Seq(S) /\ Len(whole) = Len(a) + Len(b)
      /\ \A i \in 1 .. Len(a) + Len(b) : whole[i] = IF i <= Len(a) THEN a[i] ELSE b[i - Len(a)]
  BY ConcatProperties
<1>2. Len(a) \in Nat /\ Len(b) \in Nat
  BY LenProperties
<1> HIDE DEF whole
<1>3. \A i \in 1 .. Len(a) : i \in 1 .. Len(a) + Len(b) /\ i <= Len(a)
  BY <1>2, SMT
<1>4. \A i \in 1 .. Len(b) : /\ Len(a) + i \in 1 .. Len(a) + Len(b) /\ ~ (Len(a) + i <= Len(a))
                             /\ (Len(a) + i) - Len(a) = i
  BY <1>2, SMT
<1>5. Len(a) + Len(b) <= Len(whole) /\ Len(a) <= Len(whole)
  BY <1>1, <1>2, SMT
<1>6. QED
  BY <1>1, <1>3, <1>4, <1>5, Zenon DEF whole, Holds, Begins

LEMMA BeginsStill ==
  \A S : \A a, b, c \in Seq(S) : Begins(a, b) /\ Begins(b, c) => Begins(a, c)
<1> SUFFICES ASSUME NEW S, NEW a \in Seq(S), NEW b \in Seq(S), NEW c \in Seq(S),
                    Begins(a, b), Begins(b, c)
             PROVE  Begins(a, c)
  BY Zenon
<1>1. Len(a) \in Nat /\ Len(b) \in Nat /\ Len(c) \in Nat
  BY LenProperties
<1>2. Len(c) <= Len(a) /\ \A i \in 1 .. Len(c) : i \in 1 .. Len(b)
  BY <1>1, SMT DEF Begins
<1>3. QED
  BY <1>2, Zenon DEF Begins

LEMMA HoldsStill ==
  \A S : \A a, b, c \in Seq(S) : \A k \in Nat : Begins(a, b) /\ Holds(b, k, c) => Holds(a, k, c)
<1> SUFFICES ASSUME NEW S, NEW a \in Seq(S), NEW b \in Seq(S), NEW c \in Seq(S), NEW k \in Nat,
                    Begins(a, b), Holds(b, k, c)
             PROVE  Holds(a, k, c)
  BY Zenon
<1>1. Len(a) \in Nat /\ Len(b) \in Nat /\ Len(c) \in Nat
  BY LenProperties
<1>2. k + Len(c) <= Len(a) /\ \A i \in 1 .. Len(c) : k + i \in 1 .. Len(b)
  BY <1>1, SMT DEF Begins, Holds
<1>3. QED
  BY <1>2, Zenon DEF Begins, Holds

(* What the constructor cuts out is what is there. *)
LEMMA SubstrIs ==
  \A S : \A whole, part \in Seq(S) : \A k \in Nat :
    Holds(whole, k, part) => Substr(whole, k, Len(part)) = part
<1> SUFFICES ASSUME NEW S, NEW whole \in Seq(S), NEW part \in Seq(S), NEW k \in Nat,
                    Holds(whole, k, part)
             PROVE  Substr(whole, k, Len(part)) = part
  BY Zenon
<1> DEFINE size == Len(part)
           cut == SubSeq(whole, k + 1, k + size)
<1>1. Len(whole) \in Nat /\ size \in Nat
  BY LenProperties
<1>2. \A i \in k + 1 .. k + size : whole[i] \in S
  <2>1. \A i \in k + 1 .. k + size : i \in 1 .. Len(whole)
    BY <1>1, SMT DEF Holds
  <2>2. QED
    BY <2>1, ElementOfSeq, Zenon
<1> HIDE DEF size
<1>3. cut \in Seq(S) /\ Len(cut) = size /\ \A i \in 1 .. size : cut[i] = whole[k + i]
  <2> DEFINE m == k + 1
             n == k + size
  <2>1. m \in Nat /\ n \in Nat /\ n - m + 1 = size /\ n - k = size /\ m <= n + 1
    BY <1>1, SMT
  <2>2. \A i \in 1 .. size : m + i - 1 = k + i
    BY <1>1, SMT
  <2>3. \A i \in m .. n : whole[i] \in S
    BY <1>2, Zenon
  <2> HIDE DEF m, n
  <2>4. m \in Int /\ n \in Int
    BY <2>1, SMT
  <2>5. /\ SubSeq(whole, m, n) \in Seq(S)
        /\ Len(SubSeq(whole, m, n)) = IF m <= n THEN n - m + 1 ELSE 0
        /\ \A i \in 1 .. n - m + 1 : SubSeq(whole, m, n)[i] = whole[m + i - 1]
    BY <2>3, <2>4, SubSeqProperties
  <2>6. (IF m <= n THEN n - m + 1 ELSE 0) = size
    BY <1>1, <2>1, SMT
  <2>7. \A i \in 1 .. size : SubSeq(whole, m, n)[i] = whole[k + i]
    BY <2>1, <2>2, <2>5, Zenon
  <2>8. Len(SubSeq(whole, m, n)) = size
    BY <2>5, <2>6, Zenon
  <2>9. QED
    BY <2>5, <2>7, <2>8, Zenon DEF m, n
<1> HIDE DEF cut
<1>4. \A i \in 1 .. size : cut[i] = part[i]
  BY <1>3, Zenon DEF Holds, size
<1>5. cut = part
  BY <1>3, <1>4, SeqEqual, Zenon DEF size
<1>6. QED
  BY <1>5, Zenon DEF Substr, cut, size

LEMMA OctetIs ==
  \A whole \in Seq(Nibble) : \A k \in Nat : \A octet \in Byte :
    Holds(whole, k, Hex(octet)) => OctetAt(whole, k) = octet
<1> SUFFICES ASSUME NEW whole \in Seq(Nibble), NEW k \in Nat, NEW octet \in Byte,
                    Holds(whole, k, Hex(octet))
             PROVE  OctetAt(whole, k) = octet
  BY Zenon
<1>1. Len(Hex(octet)) = 2 /\ 16 * Hex(octet)[1] + Hex(octet)[2] = octet
  BY HexIs, Zenon
<1>2. 1 \in 1 .. 2 /\ 2 \in 1 .. 2
  BY SMT
<1>3. whole[k + 1] = Hex(octet)[1] /\ whole[k + 2] = Hex(octet)[2]
  BY <1>1, <1>2, Zenon DEF Holds
<1>4. QED
  BY <1>1, <1>3, Zenon DEF OctetAt

(* The parts of an SMS-DELIVER after the address of the service center *)
Laid(head, fo, sender, dcs, udl, ud) ==
  head \o Hex(fo) \o Hex(Len(sender)) \o <<9, 1>> \o SemiOctets(sender) \o <<0, 0>> \o Hex(dcs)
  \o SemiOctets(Timestamp) \o Hex(udl) \o HexOf(ud)

IsLaid(pdu, head, fo, sender, dcs, udl, ud) ==
  LET first == Len(head)
      pid == first + 6 + SenderOctets(Len(sender))
  IN  /\ pdu \in Seq(Nibble) /\ Begins(pdu, head)
      /\ OctetAt(pdu, first) = fo
      /\ OctetAt(pdu, first + 2) = Len(sender)
      /\ Substr(pdu, first + 6, SenderOctets(Len(sender))) = SemiOctets(sender)
      /\ OctetAt(pdu, pid + 2) = dcs
      /\ Substr(pdu, pid + 4, 14) = SemiOctets(Timestamp)
      /\ OctetAt(pdu, pid + 18) = udl
      /\ SubSeq(pdu, pid + 21, Len(pdu)) = HexOf(ud)

LEMMA PduIsLaid ==
  ASSUME NEW head \in Seq(Nibble), NEW fo \in Byte,
         NEW sender \in Seq(AddressDigit), Len(sender) \in Byte,
         NEW dcs \in Byte, NEW udl \in Byte, NEW ud \in Seq(Byte)
  PROVE  IsLaid(Laid(head, fo, sender, dcs, udl, ud), head, fo, sender, dcs, udl, ud)
<1> DEFINE first == Len(head)
           octets == SenderOctets(Len(sender))
           pid == first + 6 + octets
           p2 == Hex(fo)
           p3 == Hex(Len(sender))
           p4 == <<9, 1>>
           p5 == SemiOctets(sender)
           p6 == <<0, 0>>
           p7 == Hex(dcs)
           p8 == SemiOctets(Timestamp)
           p9 == Hex(udl)
           p10 == HexOf(ud)
           q2 == head \o p2
           q3 == q2 \o p3
           q4 == q3 \o p4
           q5 == q4 \o p5
           q6 == q5 \o p6
           q7 == q6 \o p7
           q8 == q7 \o p8
           q9 == q8 \o p9
           pdu == q9 \o p10
           T == Seq(Nibble)
<1>1. Laid(head, fo, sender, dcs, udl, ud) = pdu
  BY Zenon DEF Laid
<1>2. /\ p2 \in T /\ Len(p2) = 2 /\ p3 \in T /\ Len(p3) = 2
      /\ p7 \in T /\ Len(p7) = 2 /\ p9 \in T /\ Len(p9) = 2
  BY HexIs, Zenon
<1>3. p4 \in T /\ Len(p4) = 2 /\ p6 \in T /\ Len(p6) = 2
  BY SMT DEF Nibble
<1>4. p5 \in T /\ Len(p5) = octets /\ octets \in Nat
  <2>1. AreSemiOctets(p5, sender, (Len(sender) + 1) \div 2)
    BY SemiOctetsAre
  <2>2. Len(p5) = 2 * ((Len(sender) + 1) \div 2) /\ p5 \in T
    BY <2>1, Zenon DEF AreSemiOctets
  <2>3. octets = 2 * ((Len(sender) + 1) \div 2)
    BY SMT DEF SenderOctets, Byte
  <2>4. octets \in Nat
    BY SMT DEF SenderOctets, Byte
  <2>5. QED
    BY <2>2, <2>3, <2>4, Zenon
<1>5. p8 \in T /\ Len(p8) = 14
  <2>1. AreSemiOctets(p8, Timestamp, (Len(Timestamp) + 1) \div 2)
    BY SemiOctetsAre, TimestampIs, Zenon
  <2>2. 2 * ((2 * 7 + 1) \div 2) = 14
    BY SMT
  <2>3. QED
    BY <2>1, <2>2, TimestampIs, Zenon DEF AreSemiOctets
<1>6. p10 \in T /\ Len(p10) \in Nat
  BY HexRead, LenProperties
<1>7. head \in T /\ first \in Nat
  BY LenProperties
<1> HIDE DEF p2, p3, p4, p5, p6, p7, p8, p9, p10, octets, first
<1>8. /\ q2 \in T /\ Len(q2) = first + Len(p2) /\ Holds(q2, first, p2) /\ Begins(q2, head)
  BY <1>2, <1>7, JoinHolds, Zenon DEF first
<1> HIDE DEF q2
<1>9. /\ q3 \in T /\ Len(q3) = Len(q2) + Len(p3) /\ Holds(q3, Len(q2), p3) /\ Begins(q3, q2)
  BY <1>2, <1>8, JoinHolds, Zenon
<1> HIDE DEF q3
<1>10. /\ q4 \in T /\ Len(q4) = Len(q3) + Len(p4) /\ Begins(q4, q3)
  BY <1>3, <1>9, JoinHolds, Zenon
<1> HIDE DEF q4
<1>11. /\ q5 \in T /\ Len(q5) = Len(q4) + Len(p5) /\ Holds(q5, Len(q4), p5) /\ Begins(q5, q4)
  BY <1>4, <1>10, JoinHolds, Zenon
<1> HIDE DEF q5
<1>12. /\ q6 \in T /\ Len(q6) = Len(q5) + Len(p6) /\ Begins(q6, q5)
  BY <1>3, <1>11, JoinHolds, Zenon
<1> HIDE DEF q6
<1>13. /\ q7 \in T /\ Len(q7) = Len(q6) + Len(p7) /\ Holds(q7, Len(q6), p7) /\ Begins(q7, q6)
  BY <1>2, <1>12, JoinHolds, Zenon
<1> HIDE DEF q7
<1>14. /\ q8 \in T /\ Len(q8) = Len(q7) + Len(p8) /\ Holds(q8, Len(q7), p8) /\ Begins(q8, q7)
  BY <1>5, <1>13, JoinHolds, Zenon
<1> HIDE DEF q8
<1>15. /\ q9 \in T /\ Len(q9) = Len(q8) + Len(p9) /\ Holds(q9, Len(q8), p9) /\ Begins(q9, q8)
  BY <1>2, <1>14, JoinHolds, Zenon
<1> HIDE DEF q9
<1>16. /\ pdu \in T /\ Len(pdu) = Len(q9) + Len(p10) /\ Holds(pdu, Len(q9), p10) /\ Begins(pdu, q9)
  BY <1>6, <1>15, JoinHolds, Zenon
<1> HIDE DEF pdu
<1>17. Begins(pdu, q8) /\ Begins(pdu, q9)
  BY <1>14, <1>15, <1>16, BeginsStill, Zenon
<1>18. Begins(pdu, q7) /\ Begins(pdu, q6)
  <2>1. Begins(pdu, q7)
    BY <1>13, <1>14, <1>16, <1>17, BeginsStill, Zenon
  <2>2. QED
    BY <1>12, <1>13, <1>16, <2>1, BeginsStill, Zenon
<1>19. Begins(pdu, q5) /\ Begins(pdu, q4)
  <2>1. Begins(pdu, q5)
    BY <1>11, <1>12, <1>16, <1>18, BeginsStill, Zenon
  <2>2. QED
    BY <1>10, <1>11, <1>16, <2>1, BeginsStill, Zenon
<1>20. Begins(pdu, q3) /\ Begins(pdu, q2)
  <2>1. Begins(pdu, q3)
    BY <1>9, <1>10, <1>16, <1>19, BeginsStill, Zenon
  <2>2. QED
    BY <1>8, <1>9, <1>16, <2>1, BeginsStill, Zenon
<1>21. Begins(pdu, head)
  BY <1>7, <1>8, <1>16, <1>20, BeginsStill, Zenon
<1>22. /\ Len(q2) = first + 2 /\ Len(q4) = first + 6 /\ Len(q6) = pid + 2
       /\ Len(q7) = pid + 4 /\ Len(q8) = pid + 18 /\ Len(q9) = pid + 20
       /\ first \in Nat /\ first + 2 \in Nat /\ first + 6 \in Nat /\ pid + 2 \in Nat
       /\ pid + 4 \in Nat /\ pid + 18 \in Nat /\ pid + 20 \in Nat
  BY <1>2, <1>3, <1>4, <1>5, <1>7, <1>8, <1>9, <1>10, <1>11, <1>12, <1>13, <1>14, <1>15, SMT
<1>23. pid + 21 = (pid + 20) + 1 /\ Len(pdu) = (pid + 20) + Len(p10)
  BY <1>4, <1>7, <1>16, <1>22, SMT
<1> HIDE DEF pid
<1>24. /\ Holds(pdu, first, p2) /\ Holds(pdu, first + 2, p3) /\ Holds(pdu, first + 6, p5)
       /\ Holds(pdu, pid + 2, p7) /\ Holds(pdu, pid + 4, p8) /\ Holds(pdu, pid + 18, p9)
       /\ Holds(pdu, pid + 20, p10)
  <2>1. Holds(pdu, first, p2)
    BY <1>2, <1>8, <1>16, <1>20, <1>22, HoldsStill, Zenon
  <2>2. Holds(pdu, first + 2, p3)
    BY <1>2, <1>9, <1>16, <1>20, <1>22, HoldsStill, Zenon
  <2>3. Holds(pdu, first + 6, p5)
    BY <1>4, <1>11, <1>16, <1>19, <1>22, HoldsStill, Zenon
  <2>4. Holds(pdu, pid + 2, p7)
    BY <1>2, <1>13, <1>16, <1>18, <1>22, HoldsStill, Zenon
  <2>5. Holds(pdu, pid + 4, p8)
    BY <1>5, <1>14, <1>16, <1>17, <1>22, HoldsStill, Zenon
  <2>6. Holds(pdu, pid + 18, p9)
    BY <1>2, <1>15, <1>16, <1>17, <1>22, HoldsStill, Zenon
  <2>7. QED
    BY <1>16, <1>22, <2>1, <2>2, <2>3, <2>4, <2>5, <2>6, Zenon
<1>25. /\ OctetAt(pdu, first) = fo /\ OctetAt(pdu, first + 2) = Len(sender)
       /\ OctetAt(pdu, pid + 2) = dcs /\ OctetAt(pdu, pid + 18) = udl
  BY <1>16, <1>22, <1>24, OctetIs, Zenon DEF p2, p3, p7, p9
<1>26. Substr(pdu, first + 6, octets) = p5
  <2>1. Substr(pdu, first + 6, Len(p5)) = p5
    BY <1>4, <1>16, <1>22, <1>24, SubstrIs, Zenon
  <2>2. QED
    BY <1>4, <2>1, Zenon
<1>27. Substr(pdu, pid + 4, 14) = p8
  <2>1. Substr(pdu, pid + 4, Len(p8)) = p8
    BY <1>5, <1>16, <1>22, <1>24, SubstrIs, Zenon
  <2>2. QED
    BY <1>5, <2>1, Zenon
<1>28. SubSeq(pdu, pid + 21, Len(pdu)) = p10
  <2>1. Substr(pdu, pid + 20, Len(p10)) = p10
    BY <1>6, <1>16, <1>22, <1>24, SubstrIs, Zenon
  <2>2. QED
    BY <1>23, <2>1, Zenon DEF Substr
<1>29. IsLaid(pdu, head, fo, sender, dcs, udl, ud)
  BY <1>16, <1>21, <1>25, <1>26, <1>27, <1>28, Zenon DEF IsLaid, first, octets, pid, p5, p8, p10, T
<1>30. QED
  BY <1>1, <1>29, Zenon

(* The address of the service center, or a zero for none *)
Center(smsc) ==
  IF smsc = <<>> THEN <<0, 0>>
  ELSE Hex(1 + (Len(smsc) + 1) \div 2) \o <<9, 1>> \o SemiOctets(smsc)

IsCentered(pdu, smsc) ==
  LET smscLen == OctetAt(pdu, 0)
  IN  /\ smscLen \in Nat /\ Len(Center(smsc)) = 2 + 2 * smscLen
      /\ smsc = <<>> => ~ (smscLen > 0)
      /\ smsc # <<>> =>
           /\ smscLen > 0
           /\ Substr(pdu, 4, 2 * smscLen - 2) = SemiOctets(smsc)
           /\ 2 * (smscLen - 1) \in Nat /\ 2 * (smscLen - 1) >= Len(smsc)

LEMMA CenterRead ==
  ASSUME NEW smsc \in Seq(AddressDigit), 1 + (Len(smsc) + 1) \div 2 \in Byte
  PROVE  /\ Center(smsc) \in Seq(Nibble)
         /\ \A pdu \in Seq(Nibble) : Begins(pdu, Center(smsc)) => IsCentered(pdu, smsc)
<1> DEFINE T == Seq(Nibble)
           head == Center(smsc)
<1>1. CASE smsc = <<>>
  <2> DEFINE p == Hex(0)
  <2>1. head = p
    <3>1. 0 \div 16 = 0 /\ 0 % 16 = 0
      BY SMT
    <3>2. QED
      BY <1>1, <3>1, Zenon DEF Center, Hex
  <2>2. 0 \in Byte
    BY SMT DEF Byte
  <2>3. p \in T /\ Len(p) = 2
    BY <2>2, HexIs, Zenon
  <2> HIDE DEF head
  <2>4. ASSUME NEW pdu \in T, Begins(pdu, head)
        PROVE  IsCentered(pdu, smsc)
    <3>1. Holds(pdu, 0, p)
      <4>1. 0 + Len(p) = Len(p) /\ \A i \in 1 .. Len(p) : 0 + i = i
        BY <2>3, SMT
      <4> HIDE DEF p
      <4>2. QED
        BY <2>1, <2>4, <4>1, Zenon DEF Begins, Holds
    <3>2. OctetAt(pdu, 0) = 0
      <4>1. 0 \in Nat
        OBVIOUS
      <4>2. QED
        BY <2>2, <3>1, <4>1, OctetIs, Zenon
    <3>3. 0 \in Nat /\ 2 = 2 + 2 * 0 /\ ~ (0 > 0)
      BY SMT
    <3> HIDE DEF p
    <3>4. QED
      BY <1>1, <2>1, <2>3, <3>2, <3>3, Zenon DEF IsCentered, head
  <2>5. QED
    BY <2>1, <2>3, <2>4, Zenon DEF head
<1>2. CASE smsc # <<>>
  <2> DEFINE half == (Len(smsc) + 1) \div 2
             size == 1 + half
             a == Hex(size)
             b == <<9, 1>>
             c == SemiOctets(smsc)
             ab == a \o b
             abc == ab \o c
  <2>1. head = abc
    BY <1>2, Zenon DEF Center
  <2>2. Len(smsc) \in Nat
    BY LenProperties
  <2>3. /\ half \in Nat /\ size \in Byte /\ size \in Nat /\ size > 0
        /\ 2 * (size - 1) \in Nat /\ 2 * (size - 1) >= Len(smsc) /\ 2 * size - 2 = 2 * half
        /\ 2 * half \in Nat /\ 2 + 2 * size = 4 + 2 * half
    BY <2>2, SMT
  <2>4. a \in T /\ Len(a) = 2 /\ b \in T /\ Len(b) = 2
    <3>1. a \in T /\ Len(a) = 2
      BY <2>3, HexIs, Zenon
    <3>2. b \in T /\ Len(b) = 2
      BY SMT DEF Nibble
    <3>3. QED
      BY <3>1, <3>2, Zenon
  <2>5. c \in T /\ Len(c) = 2 * half
    <3>1. AreSemiOctets(c, smsc, half)
      BY SemiOctetsAre
    <3>2. QED
      BY <3>1, Zenon DEF AreSemiOctets
  <2> HIDE DEF a, b, c, size, half
  <2>6. ab \in T /\ Len(ab) = Len(a) + Len(b) /\ Begins(ab, a)
    BY <2>4, JoinHolds, Zenon
  <2> HIDE DEF ab
  <2>7. abc \in T /\ Len(abc) = Len(ab) + Len(c) /\ Holds(abc, Len(ab), c) /\ Begins(abc, ab)
    BY <2>5, <2>6, JoinHolds, Zenon
  <2> HIDE DEF abc, head
  <2>8. Len(ab) = 4 /\ Len(abc) = 2 + 2 * size
    BY <2>3, <2>4, <2>5, <2>6, <2>7, SMT
  <2>9. ASSUME NEW pdu \in T, Begins(pdu, head)
        PROVE  IsCentered(pdu, smsc)
    <3>1. Begins(pdu, a)
      BY <2>1, <2>4, <2>6, <2>7, <2>9, BeginsStill, Zenon
    <3>2. Holds(pdu, 0, a)
      <4>1. 0 + Len(a) = Len(a) /\ \A i \in 1 .. Len(a) : 0 + i = i
        BY <2>4, SMT
      <4>2. QED
        BY <3>1, <4>1, Zenon DEF Begins, Holds
    <3>3. OctetAt(pdu, 0) = size
      <4>1. 0 \in Nat
        OBVIOUS
      <4>2. QED
        BY <2>3, <3>2, <4>1, OctetIs, Zenon DEF a
    <3>4. Substr(pdu, 4, 2 * half) = c
      <4>1. 4 \in Nat
        OBVIOUS
      <4>2. Holds(pdu, 4, c)
        BY <2>1, <2>5, <2>7, <2>8, <2>9, <4>1, HoldsStill, Zenon
      <4>3. Substr(pdu, 4, Len(c)) = c
        BY <2>5, <4>1, <4>2, SubstrIs, Zenon
      <4>4. QED
        BY <2>5, <4>3, Zenon
    <3>5. QED
      BY <1>2, <2>1, <2>3, <2>8, <3>3, <3>4, Zenon DEF IsCentered, head, c
  <2>10. QED
    BY <2>1, <2>7, <2>9, Zenon DEF head
<1>3. QED
  BY <1>1, <1>2, Zenon

(* The SMS that an SMS-DELIVER can carry: addresses, header and text of any
   length that the length octets of the PDU can state *)
AnyPdu ==
  {s \in [ kind : {"pdu"}, smsc : Seq(AddressDigit), sender : Seq(AddressDigit),
           reference : {"none", "short", "long"}, number : Byte,
           ucs2 : BOOLEAN, text : Seq(CodeUnits) ] :
     /\ ~ s.ucs2 => s.text \in Seq(Septets)
     /\ 1 + (Len(s.smsc) + 1) \div 2 \in Byte
     /\ Len(s.sender) \in Byte
     /\ UserDataLength(s) \in Byte}

LEMMA HeaderIs ==
  ASSUME NEW s \in AnyPdu
  PROVE  /\ Header(s) \in Seq(Byte)
         /\ s.reference = "none" => Header(s) = <<>> /\ Len(Header(s)) = 0
         /\ s.reference = "short" =>
              /\ Len(Header(s)) = 6 /\ Header(s)[1] = 5 /\ Header(s)[3] = 3 /\ Header(s)[4] = 77
              /\ Header(s)[5] = 3 /\ Header(s)[6] = s.number
         /\ s.reference = "long" =>
              /\ Len(Header(s)) = 7 /\ Header(s)[1] = 6 /\ Header(s)[3] = 4 /\ Header(s)[4] = 1
              /\ Header(s)[5] = 77 /\ Header(s)[6] = 3 /\ Header(s)[7] = s.number
<1> DEFINE number == s.number
           short == <<5, 0, 3, 77, 3, number>>
           long == <<6, 8, 4, 1, 77, 3, number>>
<1>1. number \in Byte /\ s.reference \in {"none", "short", "long"}
  BY Zenon DEF AnyPdu
<1> HIDE DEF number
<1>2. <<>> \in Seq(Byte) /\ Len(<<>>) = 0
  BY EmptySeq, Zenon
<1>3. /\ short \in Seq(Byte) /\ Len(short) = 6 /\ short[1] = 5 /\ short[3] = 3
      /\ short[4] = 77 /\ short[5] = 3 /\ short[6] = number
  <2>1. short \in Seq(Byte)
    BY <1>1, SMT DEF Byte
  <2>2. /\ Len(short) = 6 /\ short[1] = 5 /\ short[3] = 3
        /\ short[4] = 77 /\ short[5] = 3 /\ short[6] = number
    OBVIOUS
  <2>3. QED
    BY <2>1, <2>2, Zenon
<1>4. /\ long \in Seq(Byte) /\ Len(long) = 7 /\ long[1] = 6 /\ long[3] = 4 /\ long[4] = 1
      /\ long[5] = 77 /\ long[6] = 3 /\ long[7] = number
  <2>1. long \in Seq(Byte)
    BY <1>1, SMT DEF Byte
  <2>2. /\ Len(long) = 7 /\ long[1] = 6 /\ long[3] = 4 /\ long[4] = 1
        /\ long[5] = 77 /\ long[6] = 3 /\ long[7] = number
    OBVIOUS
  <2>3. QED
    BY <2>1, <2>2, Zenon
<1>5. s.reference = "none" => Header(s) = <<>>
  BY Zenon DEF Header
<1>6. s.reference = "short" => Header(s) = short
  BY SMT DEF Header, number
<1>7. s.reference = "long" => Header(s) = long
  BY SMT DEF Header, number
<1> HIDE DEF short, long
<1>8. QED
  BY <1>1, <1>2, <1>3, <1>4, <1>5, <1>6, <1>7, Zenon DEF number

LEMMA Utf8IsText == \A u \in CodeUnits : Utf8(u) \in Seq(Nat)
<1> SUFFICES ASSUME NEW u \in CodeUnits
             PROVE  Utf8(u) \in Seq(Nat)
  BY Zenon
<1>1. u \in Nat
  BY SMT DEF CodeUnits
<1> DEFINE a == u \div 64
           b == u % 64
           c == u \div 4096
           d == (u \div 64) % 64
<1>2. a \in Nat /\ b \in Nat /\ c \in Nat /\ d \in Nat
  BY <1>1, SMT
<1>3. Utf8(u) = IF u < 128 THEN <<u>>
                ELSE IF u < 2048 THEN <<192 + a, 128 + b>>
                ELSE <<224 + c, 128 + d, 128 + b>>
  BY Zenon DEF Utf8
<1> HIDE DEF a, b, c, d
<1>4. <<u>> \in Seq(Nat) /\ <<192 + a, 128 + b>> \in Seq(Nat)
      /\ <<224 + c, 128 + d, 128 + b>> \in Seq(Nat)
  BY <1>1, <1>2, SMT
<1> DEFINE one == <<u>>
           two == <<192 + a, 128 + b>>
           three == <<224 + c, 128 + d, 128 + b>>
           more == IF u < 2048 THEN two ELSE three
<1>5. Utf8(u) = IF u < 128 THEN one ELSE more
  BY <1>3, Zenon
<1> HIDE DEF one, two, three
<1>6. more = two \/ more = three
  OBVIOUS
<1> HIDE DEF more
<1>7. Utf8(u) = one \/ Utf8(u) = more
  BY <1>5, Zenon
<1>8. one \in Seq(Nat) /\ two \in Seq(Nat) /\ three \in Seq(Nat)
  BY <1>4, Zenon DEF one, two, three
<1>9. QED
  BY <1>6, <1>7, <1>8, Zenon

LEMMA Utf8Texts ==
  ASSUME NEW text \in Seq(CodeUnits)
  PROVE  FlattenSeq([i \in DOMAIN text |-> Utf8(text[i])]) \in Seq(Nat)
<1> DEFINE n == Len(text)
           T == Seq(Nat)
           pieces == [i \in DOMAIN text |-> Utf8(text[i])]
<1>1. n \in Nat /\ DOMAIN text = 1 .. n /\ \A i \in 1 .. n : text[i] \in CodeUnits
  BY LenProperties, ElementOfSeq
<1>2. \A u \in CodeUnits : Utf8(u) \in T
  BY Utf8IsText, Zenon
<1> HIDE DEF n, T
<1>3. pieces \in [1 .. n -> T]
  BY <1>1, <1>2, Zenon
<1> HIDE DEF pieces
<1>4. pieces \in Seq(T)
  BY <1>1, <1>3, FunctionsAreSeqs, Zenon
<1>5. <<>> \in Seq(Nat) /\ pieces \in Seq(Seq(Nat))
  BY <1>4, EmptySeq, Zenon DEF T
<1>6. FlattenSeq(pieces) \in Seq(Nat)
  BY <1>5, FlattenAppend, Zenon
<1>7. QED
  BY <1>6, Zenon DEF pieces

(* The bits that the 7-bit decoder reads as a character before the text: it
   skips as many septets as the header has octets, one too few. *)
Extra(s) ==
  IF s.ucs2 THEN <<>>
  ELSE CASE s.reference = "none"  -> <<>>
         [] s.reference = "short" -> <<s.number \div 4>>
         [] s.reference = "long"  -> <<s.number \div 2>>

(* What the decoders make of the text itself *)
Text(s) ==
  IF s.ucs2 THEN FlattenSeq([i \in DOMAIN s.text |-> Utf8(s.text[i])]) ELSE s.text

(* The user data as the constructor reads it: the header, and the text that
   the decoder of its alphabet makes of the rest *)
IsUserData(ud, s) ==
  /\ ud \in Seq(Byte)
  /\ \A o \in 1 .. Len(Header(s)) : ud[o] = Header(s)[o]
  /\ Content(ud, Len(Header(s)), IF s.ucs2 THEN 8 ELSE 0, UserDataLength(s)) = Extra(s) \o Text(s)

LEMMA UnitsRead ==
  ASSUME NEW s \in AnyPdu, s.ucs2
  PROVE  IsUserData(UserData(s), s)
<1> DEFINE header == Header(s)
           text == s.text
           pairs == UnitPairs(text)
           ud == header \o pairs
           all == FlattenSeq([i \in DOMAIN text |-> Utf8(text[i])])
<1>1. header \in Seq(Byte) /\ text \in Seq(CodeUnits)
  BY HeaderIs, Zenon DEF AnyPdu
<1>2. pairs \in Seq(Byte)
  BY <1>1, UnitsInPairs, Zenon
<1>3. UserData(s) = ud
  BY Zenon DEF UserData, UnitPairs
<1>4. DecodeUCS2(ud, Len(header)) = all
  <2> HIDE DEF header, text
  <2>1. QED
    BY <1>1, Ucs2Read, Zenon
<1>5. Extra(s) \o Text(s) = all
  <2>1. Extra(s) = <<>> /\ Text(s) = all
    BY Zenon DEF Extra, Text
  <2>2. all \in Seq(Nat)
    <3> HIDE DEF text
    <3>1. QED
      BY <1>1, Utf8Texts, Zenon
  <2> HIDE DEF all
  <2>3. <<>> \o all = all
    BY <2>2, ConcatEmptySeq, Zenon
  <2>4. QED
    BY <2>1, <2>3, Zenon
<1> HIDE DEF header, pairs, text, all
<1>6. /\ ud \in Seq(Byte) /\ Begins(ud, header)
  BY <1>1, <1>2, JoinHolds, Zenon
<1> HIDE DEF ud
<1>7. (8 \div 4) % 4 = 2
  BY SMT
<1>8. Content(ud, Len(header), 8, UserDataLength(s)) = DecodeUCS2(ud, Len(header))
  BY <1>7, Zenon DEF Content
<1>9. QED
  BY <1>3, <1>4, <1>5, <1>6, <1>8, Zenon DEF IsUserData, Begins, header

LEMMA SeptetsRead ==
  ASSUME NEW s \in AnyPdu, ~ s.ucs2
  PROVE  IsUserData(UserData(s), s)
<1> DEFINE header == Header(s)
           text == s.text
           ud == Packed(header, text)
           size == Len(header)
           count == Len(text)
           start == HeaderSeptets(header)
           number == s.number
           read == [k \in 1 .. (start + count) - size |-> Septet(ud, size + k - 1)]
<1>1. /\ header \in Seq(Byte) /\ text \in Seq(Septets) /\ number \in Byte
      /\ s.reference \in {"none", "short", "long"}
  BY HeaderIs, Zenon DEF AnyPdu
<1>2. UserData(s) = ud /\ UserDataLength(s) = start + count
  BY Zenon DEF UserData, UserDataLength
<1>3. /\ ud \in Seq(Byte) /\ \A o \in 1 .. size : ud[o] = header[o]
      /\ \A k \in 1 .. count : Septet(ud, start + (k - 1)) = text[k]
  <2>1. IsPacked(ud, header, text)
    BY <1>1, PackedIs, Zenon
  <2>2. QED
    BY <2>1, Zenon DEF IsPacked
<1>4. Content(ud, size, 0, start + count) = read
  <2>1. (0 \div 4) % 4 # 2
    BY SMT
  <2>2. QED
    BY <2>1, Zenon DEF Content, DecodeGSM7
<1>5. count \in Nat /\ text \in Seq(Nat) /\ \A k \in 1 .. count : text[k] \in Nat
  <2>1. Septets \subseteq Nat
    BY SMT DEF Septets
  <2>2. text \in Seq(Nat)
    <3> HIDE DEF text
    <3>1. QED
      BY <1>1, <2>1, SeqMonotonic, Zenon
  <2>3. QED
    BY <2>2, LenProperties, ElementOfSeq
<1>6. Text(s) = text
  BY Zenon DEF Text
<1>7. start = (8 * size + 6) \div 7
  BY Zenon DEF HeaderSeptets
<1>8. CASE s.reference = "none"
  <2>1. size = 0 /\ Extra(s) = <<>>
    BY <1>8, HeaderIs, Zenon DEF Extra
  <2> HIDE DEF header, ud, start, count, text, size
  <2>2. (start + count) - size = count /\ \A k \in 1 .. count : size + k - 1 = start + (k - 1)
    BY <1>5, <1>7, <2>1, SMT
  <2>3. read = [k \in 1 .. count |-> text[k]]
    BY <1>3, <2>2, Zenon
  <2>4. [k \in 1 .. count |-> text[k]] = text
    <3>1. text \in [1 .. count -> Nat]
      BY <1>5, LenProperties DEF count
    <3>2. QED
      BY <3>1, Zenon
  <2>5. <<>> \o text = text
    BY <1>5, ConcatEmptySeq, Zenon
  <2>6. read = Extra(s) \o Text(s)
    BY <1>6, <2>1, <2>3, <2>4, <2>5, Zenon
  <2> HIDE DEF read
  <2>7. QED
    BY <1>2, <1>3, <1>4, <2>6, Zenon DEF IsUserData, header, size
<1>9. CASE s.reference # "none"
  <2> DEFINE extra == Septet(ud, size)
             one == <<extra>>
             whole == one \o text
  <2>1. (size = 6 \/ size = 7) /\ start = size + 1 /\ Extra(s) = one /\ extra \in Nat
    <3>1. CASE s.reference = "short"
      <4>1. size = 6 /\ header[6] = number
        BY <3>1, HeaderIs, Zenon
      <4>2. extra = number \div 4
        <5> HIDE DEF header, text, number
        <5>1. QED
          BY <1>1, <4>1, SeptetInHeader, Zenon
      <4>3. Extra(s) = <<number \div 4>>
        BY <3>1, SMT DEF Extra
      <4> HIDE DEF extra, start, size, number, header
      <4>4. number \div 4 \in Nat /\ start = size + 1
        BY <1>1, <1>7, <4>1, SMT DEF Byte
      <4>5. QED
        BY <4>1, <4>2, <4>3, <4>4, Zenon
    <3>2. CASE s.reference = "long"
      <4>1. size = 7 /\ header[7] = number
        BY <3>2, HeaderIs, Zenon
      <4>2. extra = number \div 2
        <5> HIDE DEF header, text, number
        <5>1. QED
          BY <1>1, <4>1, SeptetInHeader, Zenon
      <4>3. Extra(s) = <<number \div 2>>
        BY <3>2, SMT DEF Extra
      <4> HIDE DEF extra, start, size, number, header
      <4>4. number \div 2 \in Nat /\ start = size + 1
        BY <1>1, <1>7, <4>1, SMT DEF Byte
      <4>5. QED
        BY <4>1, <4>2, <4>3, <4>4, Zenon
    <3>3. QED
      BY <1>1, <1>9, <3>1, <3>2, Zenon
  <2> HIDE DEF header, ud, start, count, text, size
  <2>2. /\ (start + count) - size = count + 1 /\ count + 1 \in Nat
        /\ \A k \in 1 .. count + 1 : k = 1 \/ (k - 1 \in 1 .. count /\ ~ (k <= 1) /\ k # 1)
        /\ \A k \in 1 .. count + 1 : k # 1 => size + k - 1 = start + ((k - 1) - 1)
        /\ size + 1 - 1 = size /\ 1 <= 1 /\ 1 + count = count + 1
    BY <1>5, <2>1, SMT
  <2> HIDE DEF extra
  <2>3. one \in Seq(Nat) /\ Len(one) = 1 /\ one[1] = extra
    BY <2>1, SMT
  <2> HIDE DEF one
  <2>4. /\ whole \in Seq(Nat) /\ Len(whole) = Len(one) + Len(text)
        /\ \A i \in 1 .. Len(one) + Len(text) :
             whole[i] = IF i <= Len(one) THEN one[i] ELSE text[i - Len(one)]
    BY <1>5, <2>3, ConcatProperties
  <2> HIDE DEF whole
  <2>5. whole \in [1 .. count + 1 -> Nat]
    <3>1. Len(whole) = count + 1
      BY <2>2, <2>3, <2>4, Zenon DEF count
    <3>2. QED
      BY <2>4, <3>1, LenProperties
  <2>6. \A k \in 1 .. count + 1 : whole[k] = IF k <= 1 THEN one[k] ELSE text[k - 1]
    BY <2>2, <2>3, <2>4, Zenon DEF count
  <2>7. ASSUME NEW k \in 1 .. count + 1
        PROVE  Septet(ud, size + k - 1) = whole[k]
    <3>1. CASE k = 1
      BY <2>2, <2>3, <2>6, <3>1, Zenon DEF extra
    <3>2. CASE k # 1
      <4>1. Septet(ud, start + ((k - 1) - 1)) = text[k - 1]
        BY <1>3, <2>2, <3>2, Zenon
      <4>2. QED
        BY <2>2, <2>6, <3>2, <4>1, Zenon
    <3>3. QED
      BY <3>1, <3>2, Zenon
  <2>8. read = [k \in 1 .. count + 1 |-> whole[k]]
    BY <2>2, <2>7, Zenon
  <2>9. [k \in 1 .. count + 1 |-> whole[k]] = whole
    BY <2>5, Zenon
  <2>10. read = Extra(s) \o Text(s)
    BY <1>6, <2>1, <2>8, <2>9, Zenon DEF whole
  <2> HIDE DEF read
  <2>11. QED
    BY <1>2, <1>3, <1>4, <2>10, Zenon DEF IsUserData, header, size
<1>10. QED
  BY <1>8, <1>9, Zenon

LEMMA UserDataRead == \A s \in AnyPdu : IsUserData(UserData(s), s)
BY UnitsRead, SeptetsRead, Zenon

(* The record that the constructor fills, from the octets it reads *)
Filled(pdu, smscLen, first, fo, senderLen, pid, dcs, udl, ud) ==
  LET udhi == (fo \div 64) % 2 = 1
      skip == IF udhi THEN ud[1] + 1 ELSE 0
  IN  [ smsc      |-> IF smscLen > 0
                      THEN DecodeSemiOctet(Substr(pdu, 4, 2 * smscLen - 2), 2 * (smscLen - 1))
                      ELSE <<>>,
        sender    |-> DecodeSemiOctet(Substr(pdu, first + 6, SenderOctets(senderLen)), senderLen),
        timestamp |-> DecodeTimestamp(Substr(pdu, pid + 4, 14)),
        segment   |-> IF udhi THEN <<Reference(ud), Count(ud), Number(ud)>> ELSE <<>>,
        content   |-> Content(ud, skip, dcs, udl) ]

AreRead(pdu, smscLen, first, fo, senderLen, pid, dcs, udl, ud) ==
  /\ OctetAt(pdu, 0) = smscLen /\ 2 + 2 * smscLen = first
  /\ OctetAt(pdu, first) = fo /\ OctetAt(pdu, first + 2) = senderLen
  /\ first + 6 + SenderOctets(senderLen) = pid
  /\ OctetAt(pdu, pid + 2) = dcs /\ OctetAt(pdu, pid + 18) = udl
  /\ HexToBytes(SubSeq(pdu, pid + 21, Len(pdu))) = ud

LEMMA ParsedIsFilled ==
  \A pdu, smscLen, first, fo, senderLen, pid, dcs, udl, ud :
    AreRead(pdu, smscLen, first, fo, senderLen, pid, dcs, udl, ud) =>
      Parsed(pdu) = Filled(pdu, smscLen, first, fo, senderLen, pid, dcs, udl, ud)
<1> SUFFICES ASSUME NEW pdu, NEW smscLen, NEW first, NEW fo, NEW senderLen, NEW pid, NEW dcs,
                    NEW udl, NEW ud, AreRead(pdu, smscLen, first, fo, senderLen, pid, dcs, udl, ud)
             PROVE  Parsed(pdu) = Filled(pdu, smscLen, first, fo, senderLen, pid, dcs, udl, ud)
  BY Zenon
<1>1. OctetAt(pdu, 0) = smscLen
  BY Zenon DEF AreRead
<1>2. 2 + 2 * smscLen = first
  BY Zenon DEF AreRead
<1>3. OctetAt(pdu, first) = fo
  BY Zenon DEF AreRead
<1>4. OctetAt(pdu, first + 2) = senderLen
  BY Zenon DEF AreRead
<1>5. first + 6 + SenderOctets(senderLen) = pid
  BY Zenon DEF AreRead
<1>6. OctetAt(pdu, pid + 2) = dcs
  BY Zenon DEF AreRead
<1>7. OctetAt(pdu, pid + 18) = udl
  BY Zenon DEF AreRead
<1>8. HexToBytes(SubSeq(pdu, pid + 21, Len(pdu))) = ud
  BY Zenon DEF AreRead
<1>9. QED
  BY <1>1, <1>2, <1>3, <1>4, <1>5, <1>6, <1>7, <1>8, Zenon DEF Parsed, Filled

(* What the constructor makes of an SMS *)
Delivered(s) ==
  [ smsc      |-> s.smsc,
    sender    |-> s.sender,
    timestamp |-> Timestamp,
    segment   |-> CASE s.reference = "none"  -> <<>>
                    [] s.reference = "short" -> <<77, 3, s.number>>
                    [] s.reference = "long"  -> <<333, 3, s.number>>,
    content   |-> Extra(s) \o Text(s) ]

LEMMA SegmentRead ==
  ASSUME NEW s \in AnyPdu, NEW ud, IsUserData(ud, s)
  PROVE  LET udhi == ((IF s.reference = "none" THEN 4 ELSE 68) \div 64) % 2 = 1
         IN  /\ (IF udhi THEN ud[1] + 1 ELSE 0) = Len(Header(s))
             /\ (IF udhi THEN <<Reference(ud), Count(ud), Number(ud)>> ELSE <<>>)
                  = Delivered(s).segment
<1> DEFINE header == Header(s)
           udhi == ((IF s.reference = "none" THEN 4 ELSE 68) \div 64) % 2 = 1
           segment == CASE s.reference = "none"  -> <<>>
                        [] s.reference = "short" -> <<77, 3, s.number>>
                        [] s.reference = "long"  -> <<333, 3, s.number>>
<1>1. s.reference \in {"none", "short", "long"} /\ s.number \in Byte
  BY Zenon DEF AnyPdu
<1>2. \A o \in 1 .. Len(header) : ud[o] = header[o]
  BY Zenon DEF IsUserData
<1>3. Delivered(s).segment = segment
  BY Zenon DEF Delivered
<1>4. (4 \div 64) % 2 # 1 /\ (68 \div 64) % 2 = 1
  BY SMT
<1>5. CASE s.reference = "none"
  <2>1. ~ udhi
    BY <1>4, <1>5, Zenon
  <2>2. segment = <<>>
    BY <1>5, Zenon
  <2>3. Len(header) = 0
    BY <1>5, HeaderIs, Zenon
  <2> HIDE DEF header, segment, udhi
  <2>4. QED
    BY <1>3, <2>1, <2>2, <2>3, Zenon DEF header, udhi
<1>6. CASE s.reference = "short"
  <2>1. "short" # "none" /\ "short" # "long"
    OBVIOUS
  <2>2. udhi
    BY <1>4, <1>6, <2>1, Zenon
  <2>3. segment = <<77, 3, s.number>>
    BY <1>6, SMT
  <2>4. /\ Len(header) = 6 /\ header[1] = 5 /\ header[3] = 3 /\ header[4] = 77
        /\ header[5] = 3 /\ header[6] = s.number
    BY <1>6, HeaderIs, Zenon
  <2>5. /\ 1 \in 1 .. 6 /\ 3 \in 1 .. 6 /\ 4 \in 1 .. 6 /\ 5 \in 1 .. 6 /\ 6 \in 1 .. 6
        /\ 3 + 2 = 5 /\ 3 + 3 = 6 /\ 5 + 1 = 6
    BY SMT
  <2> HIDE DEF header, segment, udhi
  <2>6. /\ ud[1] = 5 /\ ud[3] = 3 /\ ud[4] = 77 /\ ud[5] = 3 /\ ud[6] = s.number
    BY <1>2, <2>4, <2>5, ZenonT(60)
  <2>7. Reference(ud) = 77 /\ Count(ud) = 3 /\ Number(ud) = s.number
    BY <2>5, <2>6, ZenonT(60) DEF Reference, Count, Number
  <2>8. QED
    BY <1>3, <2>2, <2>3, <2>4, <2>5, <2>6, <2>7, Zenon DEF header, udhi
<1>7. CASE s.reference = "long"
  <2>1. "long" # "none" /\ "long" # "short"
    OBVIOUS
  <2>2. udhi
    BY <1>4, <1>7, <2>1, Zenon
  <2>3. segment = <<333, 3, s.number>>
    BY <1>7, SMT
  <2>4. /\ Len(header) = 7 /\ header[1] = 6 /\ header[3] = 4 /\ header[4] = 1
        /\ header[5] = 77 /\ header[6] = 3 /\ header[7] = s.number
    BY <1>7, HeaderIs, Zenon
  <2>5. /\ 1 \in 1 .. 7 /\ 3 \in 1 .. 7 /\ 4 \in 1 .. 7 /\ 5 \in 1 .. 7 /\ 6 \in 1 .. 7 /\ 7 \in 1 .. 7
        /\ 4 + 2 = 6 /\ 4 + 3 = 7 /\ 6 + 1 = 7 /\ 256 * 1 + 77 = 333 /\ 4 # 3
    BY SMT
  <2> HIDE DEF header, segment, udhi
  <2>6. /\ ud[1] = 6 /\ ud[3] = 4 /\ ud[4] = 1 /\ ud[5] = 77 /\ ud[6] = 3 /\ ud[7] = s.number
    <3>1. \A o \in 1 .. 7 : ud[o] = header[o]
      BY <1>2, <2>4, Zenon
    <3>2. ud[1] = header[1] /\ ud[3] = header[3] /\ ud[4] = header[4]
      BY <2>5, <3>1, ZenonT(60)
    <3>3. ud[5] = header[5] /\ ud[6] = header[6] /\ ud[7] = header[7]
      BY <2>5, <3>1, ZenonT(60)
    <3>4. QED
      BY <2>4, <3>2, <3>3, Zenon
  <2>7. Reference(ud) = 333 /\ Count(ud) = 3 /\ Number(ud) = s.number
    <3>1. ud[3] + 2 = 6 /\ ud[3] + 3 = 7 /\ ud[3] # 3
      BY <2>5, <2>6, ZenonT(60)
    <3>2. 256 * ud[4] + ud[5] = 333
      BY <2>6, SMT
    <3>3. Reference(ud) = 333
      BY <3>1, <3>2, Zenon DEF Reference
    <3>4. Count(ud) = 3 /\ Number(ud) = s.number
      BY <2>6, <3>1, Zenon DEF Count, Number
    <3>5. QED
      BY <3>3, <3>4, Zenon
  <2>8. QED
    BY <1>3, <2>2, <2>3, <2>4, <2>5, <2>6, <2>7, ZenonT(60) DEF header, udhi
<1>8. QED
  BY <1>1, <1>5, <1>6, <1>7, Zenon

(* For every SMS that fits the length octets of a PDU: the constructor of
   SMS (sms.cpp) reads from its PDU the two addresses, the time stamp, the
   reference, count and number of its segment, and as the text the code units
   in UTF-8 or the septets, after one character too many of a 7-bit segment.
   What the reader of the mail sees in them is TextRead's. *)
THEOREM PduRead == \A s \in AnyPdu : Parsed(Encoded(s)) = Delivered(s)
<1> SUFFICES ASSUME NEW s \in AnyPdu
             PROVE  Parsed(Encoded(s)) = Delivered(s)
  BY Zenon
<1> DEFINE head == Center(s.smsc)
           fo == IF s.reference = "none" THEN 4 ELSE 68
           dcs == IF s.ucs2 THEN 8 ELSE 0
           udl == UserDataLength(s)
           ud == UserData(s)
           pdu == Laid(head, fo, s.sender, dcs, udl, ud)
           first == Len(head)
           senderLen == Len(s.sender)
           pid == first + 6 + SenderOctets(senderLen)
           smscLen == OctetAt(pdu, 0)
<1>1. Encoded(s) = pdu
  BY Zenon DEF Encoded, Laid, Center
<1>2. /\ s.smsc \in Seq(AddressDigit) /\ s.sender \in Seq(AddressDigit)
      /\ 1 + (Len(s.smsc) + 1) \div 2 \in Byte /\ senderLen \in Byte /\ udl \in Byte
  BY Zenon DEF AnyPdu
<1>3. IsUserData(ud, s) /\ ud \in Seq(Byte)
  BY UserDataRead, Zenon DEF IsUserData
<1>4. /\ head \in Seq(Nibble)
      /\ \A p \in Seq(Nibble) : Begins(p, head) => IsCentered(p, s.smsc)
  BY <1>2, CenterRead, Zenon
<1>5. fo \in Byte /\ dcs \in Byte
  <2>1. 4 \in Byte /\ 68 \in Byte /\ 8 \in Byte /\ 0 \in Byte
    BY SMT DEF Byte
  <2>2. (fo = 4 \/ fo = 68) /\ (dcs = 8 \/ dcs = 0)
    OBVIOUS
  <2>3. QED
    BY <2>1, <2>2, Zenon
<1> HIDE DEF head, fo, dcs, udl, ud
<1>6. IsLaid(pdu, head, fo, s.sender, dcs, udl, ud)
  BY <1>2, <1>3, <1>4, <1>5, PduIsLaid, Zenon
<1> HIDE DEF pdu
<1>7. IsCentered(pdu, s.smsc)
  BY <1>4, <1>6, Zenon DEF IsLaid
<1>8. /\ 2 + 2 * smscLen = first
      /\ s.smsc = <<>> => ~ (smscLen > 0)
      /\ s.smsc # <<>> =>
           /\ smscLen > 0
           /\ Substr(pdu, 4, 2 * smscLen - 2) = SemiOctets(s.smsc)
           /\ 2 * (smscLen - 1) \in Nat /\ 2 * (smscLen - 1) >= Len(s.smsc)
  BY <1>7, Zenon DEF IsCentered, head
<1>9. /\ OctetAt(pdu, first) = fo /\ OctetAt(pdu, first + 2) = senderLen
      /\ Substr(pdu, first + 6, SenderOctets(senderLen)) = SemiOctets(s.sender)
      /\ OctetAt(pdu, pid + 2) = dcs
      /\ Substr(pdu, pid + 4, 14) = SemiOctets(Timestamp)
      /\ OctetAt(pdu, pid + 18) = udl
      /\ SubSeq(pdu, pid + 21, Len(pdu)) = HexOf(ud)
  BY <1>6, Zenon DEF IsLaid
<1>10. HexToBytes(SubSeq(pdu, pid + 21, Len(pdu))) = ud
  BY <1>3, <1>9, HexRead, Zenon
<1> HIDE DEF first, senderLen, pid, smscLen
<1>11. Parsed(pdu) = Filled(pdu, smscLen, first, fo, senderLen, pid, dcs, udl, ud)
  <2>1. AreRead(pdu, smscLen, first, fo, senderLen, pid, dcs, udl, ud)
    BY <1>8, <1>9, <1>10, Zenon DEF AreRead, smscLen, pid
  <2>2. QED
    BY <2>1, ParsedIsFilled, Zenon
<1>12. DecodeSemiOctet(SemiOctets(s.sender), senderLen) = s.sender
  <2>1. senderLen \in Nat /\ senderLen >= senderLen
    BY <1>2, LenProperties, SMT DEF senderLen
  <2>2. QED
    BY <1>2, <2>1, SemiOctetsRead, Zenon DEF senderLen
<1>13. (IF smscLen > 0 THEN DecodeSemiOctet(Substr(pdu, 4, 2 * smscLen - 2), 2 * (smscLen - 1))
        ELSE <<>>) = s.smsc
  <2>1. CASE s.smsc = <<>>
    BY <1>8, <2>1, Zenon
  <2>2. CASE s.smsc # <<>>
    <3>1. DecodeSemiOctet(SemiOctets(s.smsc), 2 * (smscLen - 1)) = s.smsc
      BY <1>2, <1>8, <2>2, SemiOctetsRead, Zenon
    <3>2. QED
      BY <1>8, <2>2, <3>1, Zenon
  <2>3. QED
    BY <2>1, <2>2, Zenon
<1>14. DecodeTimestamp(SemiOctets(Timestamp)) = Timestamp
  <2>1. 7 \in Nat
    OBVIOUS
  <2>2. QED
    BY <2>1, TimestampIs, TimestampRead, Zenon
<1> DEFINE udhi == (fo \div 64) % 2 = 1
           skip == IF udhi THEN ud[1] + 1 ELSE 0
           segment == IF udhi THEN <<Reference(ud), Count(ud), Number(ud)>> ELSE <<>>
<1>15. skip = Len(Header(s)) /\ segment = Delivered(s).segment
  BY <1>3, SegmentRead, Zenon DEF fo
<1>16. Content(ud, skip, dcs, udl) = Extra(s) \o Text(s)
  BY <1>3, <1>15, Zenon DEF IsUserData, dcs, udl
<1>17. Filled(pdu, smscLen, first, fo, senderLen, pid, dcs, udl, ud)
         = [ smsc |-> s.smsc, sender |-> s.sender, timestamp |-> Timestamp,
             segment |-> segment, content |-> Content(ud, skip, dcs, udl) ]
  BY <1>9, <1>12, <1>13, <1>14, Zenon DEF Filled
<1> HIDE DEF segment, skip
<1>18. QED
  BY <1>1, <1>11, <1>15, <1>16, <1>17, Zenon DEF Delivered

-----------------------------------------------------------------------------
(* The samples *)

LEMMA SamplesPicked ==
  Spec => [](/\ sample.kind = "pdu" => sample \in PduSamples
             /\ sample.kind = "message" => sample \in PrintSamples
             /\ sample.kind = "pair" => sample \in PairSamples
             /\ sample.kind = "mail" => sample \in MailSamples)
<1> DEFINE Inv == sample \in {Nothing} \cup PduSamples \cup PrintSamples \cup PairSamples
                               \cup MailSamples
<1>1. Init => Inv
  BY DEF Init
<1>2. Inv /\ [Next]_sample => Inv'
  BY DEF Next, Pick
<1>3. Inv => /\ sample.kind = "pdu" => sample \in PduSamples
             /\ sample.kind = "message" => sample \in PrintSamples
             /\ sample.kind = "pair" => sample \in PairSamples
             /\ sample.kind = "mail" => sample \in MailSamples
  <2>1. sample \in PduSamples => sample.kind = "pdu"
    BY DEF PduSamples
  <2>2. sample \in PrintSamples => sample.kind = "message"
    BY DEF PrintSamples
  <2>3. sample \in PairSamples => sample.kind = "pair"
    BY DEF PairSamples
  <2>4. sample \in MailSamples => sample.kind = "mail"
    BY DEF MailSamples
  <2>5. Nothing.kind = "nothing"
    BY DEF Nothing
  <2>6. QED
    BY <2>1, <2>2, <2>3, <2>4, <2>5
<1>4. QED
  BY <1>1, <1>2, <1>3, PTL DEF Spec

(* The samples are small; Utf8Holds says it of every code unit. *)
THEOREM Utf8Shortest == Spec => []Utf8IsShortest
<1>1. ASSUME NEW s \in PduSamples, s.ucs2, NEW i \in DOMAIN s.text
      PROVE  s.text[i] \in Nat
  <2>1. PICK u \in BOOLEAN :
          s \in [ kind : {"pdu"}, smsc : {<<>>, <<4, 4, 7>>, <<4, 9, 1, 7>>},
                  sender : {<<1, 2, 3>>, <<4, 9, 1, 5>>},
                  reference : {"none", "short", "long"}, number : {1, 3, 254},
                  ucs2 : {u}, text : Texts(u) ]
    BY <1>1, ZenonT(60) DEF PduSamples
  <2> DEFINE units == {65, 127, 128, 2047, 2048, 55357, 56832, 65535}
  <2>2. s.text \in Upto(units, 3)
    <3>1. s.ucs2 \in {u} /\ s.text \in Texts(u)
      BY <2>1, SMT
    <3>2. s.ucs2 = u
      BY <3>1, Zenon
    <3>3. u = TRUE
      BY <1>1, <3>2, SMT
    <3> DEFINE texts == Upto(units, 3)
    <3>4. Texts(TRUE) = texts
      BY SMT DEF Texts
    <3> HIDE DEF texts
    <3>5. s.text \in Texts(TRUE)
      BY <3>1, <3>3
    <3>6. s.text \in texts
      BY <3>4, <3>5
    <3>7. QED
      BY <3>6 DEF texts
  <2>3. PICK k \in 0 .. 3 : s.text \in [1 .. k -> units]
    BY <2>2 DEF Upto
  <2>4. s.text[i] \in units
    BY <2>3
  <2>5. QED
    BY <2>4, SMT
<1>2. (sample.kind = "pdu" => sample \in PduSamples) => Utf8IsShortest
  BY <1>1, Utf8Holds DEF Utf8IsShortest
<1>3. QED
  BY <1>2, SamplesPicked, PTL

(* The length octet of the user data, from the lengths of its parts *)
HasShortText(s) ==
  /\ s.reference \in {"none", "short", "long"} /\ s.number \in Byte /\ s.ucs2 \in BOOLEAN
  /\ s.text \in Seq(CodeUnits) /\ Len(s.text) <= 100
  /\ ~ s.ucs2 => s.text \in Seq(Septets)

LEMMA ShortSums ==
  \A h \in 0 .. 7 : \A n \in Nat :
    n <= 100 => h + 2 * n \in Byte /\ (8 * h + 6) \div 7 + n \in Byte
BY SMT DEF Byte

LEMMA SeptetsAreUnits == Septets \subseteq CodeUnits
<1>1. \A x \in Septets : x \in Nat /\ x <= 127
  BY SMT DEF Septets
<1>2. \A x \in Nat : x <= 127 => x \in CodeUnits
  BY SMT DEF CodeUnits
<1>3. QED
  BY <1>1, <1>2, Zenon

LEMMA LengthOctet == \A s : HasShortText(s) => UserDataLength(s) \in Byte
<1> SUFFICES ASSUME NEW s, HasShortText(s)
             PROVE  UserDataLength(s) \in Byte
  BY Zenon
<1> DEFINE header == Header(s)
           text == s.text
           number == s.number
<1>1. header \in Seq(Byte) /\ Len(header) \in 0 .. 7
  <2>1. \/ header = <<>> \/ header = <<5, 0, 3, 77, 3, number>>
        \/ header = <<6, 8, 4, 1, 77, 3, number>>
    <3>1. s.reference \in {"none", "short", "long"}
      BY Zenon DEF HasShortText
    <3>2. QED
      BY <3>1, SMT DEF Header
  <2>2. number \in Byte
    BY Zenon DEF HasShortText
  <2> HIDE DEF header, number
  <2>3. <<>> \in Seq(Byte) /\ Len(<<>>) = 0
    BY EmptySeq, Zenon
  <2> DEFINE short == <<5, 0, 3, 77, 3, number>>
             long == <<6, 8, 4, 1, 77, 3, number>>
  <2>4. short \in Seq(Byte) /\ Len(short) = 6
    BY <2>2, SMT DEF Byte
  <2>5. long \in Seq(Byte) /\ Len(long) = 7
    BY <2>2, SMT DEF Byte
  <2>6. 0 \in 0 .. 7 /\ 6 \in 0 .. 7 /\ 7 \in 0 .. 7
    BY SMT
  <2> HIDE DEF short, long
  <2>7. header = <<>> \/ header = short \/ header = long
    BY <2>1, Zenon DEF short, long
  <2>8. QED
    BY <2>3, <2>4, <2>5, <2>6, <2>7, Zenon
<1>2. text \in Seq(CodeUnits) /\ Len(text) \in Nat /\ Len(text) <= 100
  BY LenProperties DEF HasShortText
<1>3. CASE s.ucs2
  <2> DEFINE pairs == UnitPairs(text)
             ud == header \o pairs
  <2>1. UserDataLength(s) = Len(ud)
    BY <1>3, Zenon DEF UserDataLength, UserData, UnitPairs
  <2> HIDE DEF header, text
  <2>2. pairs \in Seq(Byte) /\ Len(pairs) = 2 * Len(text)
    BY <1>2, UnitsInPairs, Zenon
  <2> HIDE DEF pairs
  <2>3. Len(ud) = Len(header) + Len(pairs)
    BY <1>1, <2>2, JoinHolds, Zenon
  <2> HIDE DEF ud
  <2>4. Len(ud) \in Byte
    BY <1>1, <1>2, <2>2, <2>3, ShortSums, Zenon
  <2>5. QED
    BY <2>1, <2>4, Zenon
<1>4. CASE ~ s.ucs2
  <2>1. UserDataLength(s) = HeaderSeptets(header) + Len(text)
    BY <1>4, Zenon DEF UserDataLength
  <2> HIDE DEF header, text
  <2>2. HeaderSeptets(header) = (8 * Len(header) + 6) \div 7
    BY Zenon DEF HeaderSeptets
  <2>3. HeaderSeptets(header) + Len(text) \in Byte
    BY <1>1, <1>2, <2>2, ShortSums, Zenon
  <2>4. QED
    BY <2>1, <2>3, Zenon
<1>5. QED
  BY <1>3, <1>4, Zenon

LEMMA UptoIs ==
  \A S : \A n \in Nat : \A t \in Upto(S, n) : t \in Seq(S) /\ Len(t) <= n
<1> SUFFICES ASSUME NEW S, NEW n \in Nat, NEW t \in Upto(S, n)
             PROVE  t \in Seq(S) /\ Len(t) <= n
  BY Zenon
<1>1. PICK k \in 0 .. n : t \in [1 .. k -> S]
  BY Zenon DEF Upto
<1>2. k \in Nat /\ k <= n
  BY SMT
<1>3. QED
  BY <1>1, <1>2, FunctionsAreSeqs, Zenon

LEMMA TextsFit ==
  /\ \A t \in Texts(TRUE) : t \in Seq(CodeUnits) /\ Len(t) <= 100
  /\ \A t \in Texts(FALSE) : t \in Seq(Septets) /\ Len(t) <= 100
<1> DEFINE units == {65, 127, 128, 2047, 2048, 55357, 56832, 65535}
           few == {0, 42, 127}
           long == [i \in 1 .. 17 |-> (37 * i) % 128]
           letters == [i \in 1 .. 17 |-> 97 + ((5 * i) % 26)]
<1>1. units \subseteq CodeUnits /\ few \subseteq Septets
  BY SMT DEF CodeUnits, Septets
<1>2. /\ long \in Seq(Septets) /\ Len(long) = 17
      /\ letters \in Seq(Septets) /\ Len(letters) = 17
  <2>1. \A i \in 1 .. 17 : (37 * i) % 128 \in Septets /\ 97 + ((5 * i) % 26) \in Septets
    BY SMT DEF Septets
  <2>2. long \in [1 .. 17 -> Septets] /\ letters \in [1 .. 17 -> Septets] /\ 17 \in Nat
    BY <2>1, Zenon
  <2> HIDE DEF long, letters
  <2>3. QED
    BY <2>2, FunctionsAreSeqs, ZenonT(60)
<1>3. Texts(TRUE) = Upto(units, 3)
  BY SMT DEF Texts
<1>4. Texts(FALSE) = Upto(few, 4) \cup {long, letters}
  BY SMT DEF Texts
<1> HIDE DEF units, few, long, letters
<1>5. 3 \in Nat /\ 4 \in Nat /\ \A n \in Nat : (n <= 3 \/ n <= 4 \/ n = 17) => n <= 100
  BY SMT
<1>6. ASSUME NEW t \in Texts(TRUE)
      PROVE  t \in Seq(CodeUnits) /\ Len(t) <= 100
  <2>1. t \in Seq(units) /\ Len(t) <= 3
    BY <1>3, <1>5, UptoIs, Zenon
  <2>2. t \in Seq(CodeUnits)
    BY <1>1, <2>1, SeqMonotonic, Zenon
  <2>3. QED
    BY <1>5, <2>1, <2>2, LenProperties, Zenon
<1>7. ASSUME NEW t \in Texts(FALSE)
      PROVE  t \in Seq(Septets) /\ Len(t) <= 100
  <2>1. CASE t \in Upto(few, 4)
    <3>1. t \in Seq(few) /\ Len(t) <= 4
      BY <1>5, <2>1, UptoIs, Zenon
    <3>2. t \in Seq(Septets)
      BY <1>1, <3>1, SeqMonotonic, Zenon
    <3>3. QED
      BY <1>5, <3>1, <3>2, LenProperties, Zenon
  <2>2. CASE t = long \/ t = letters
    BY <1>2, <1>5, <2>2, LenProperties, Zenon
  <2>3. QED
    BY <1>4, <2>1, <2>2, Zenon
<1>8. QED
  BY <1>6, <1>7, Zenon

LEMMA SamplesAreAny == \A s \in PduSamples : s \in AnyPdu
<1> SUFFICES ASSUME NEW s \in PduSamples
             PROVE  s \in AnyPdu
  BY Zenon
<1>1. PICK u \in BOOLEAN :
        s \in [ kind : {"pdu"}, smsc : {<<>>, <<4, 4, 7>>, <<4, 9, 1, 7>>},
                sender : {<<1, 2, 3>>, <<4, 9, 1, 5>>},
                reference : {"none", "short", "long"}, number : {1, 3, 254},
                ucs2 : {u}, text : Texts(u) ]
  BY ZenonT(60) DEF PduSamples
<1> DEFINE centers == {<<>>, <<4, 4, 7>>, <<4, 9, 1, 7>>}
           senders == {<<1, 2, 3>>, <<4, 9, 1, 5>>}
<1>2. /\ s.smsc \in centers /\ s.sender \in senders
      /\ s.reference \in {"none", "short", "long"} /\ s.number \in {1, 3, 254}
      /\ s.ucs2 \in {u} /\ s.text \in Texts(u)
  BY <1>1, Zenon
<1>3. /\ \A t \in centers : t \in Seq(AddressDigit) /\ Len(t) \in 0 .. 4
      /\ \A t \in senders : t \in Seq(AddressDigit) /\ Len(t) \in 0 .. 4
  <2>1. <<>> \in Seq(AddressDigit) /\ Len(<<>>) = 0
    BY EmptySeq, Zenon
  <2>2. \A a, b, c, d \in AddressDigit : /\ <<a, b, c>> \in Seq(AddressDigit) /\ Len(<<a, b, c>>) = 3
                                         /\ <<a, b, c, d>> \in Seq(AddressDigit)
                                         /\ Len(<<a, b, c, d>>) = 4
    OBVIOUS
  <2>3. 1 \in AddressDigit /\ 2 \in AddressDigit /\ 3 \in AddressDigit /\ 4 \in AddressDigit
        /\ 5 \in AddressDigit /\ 7 \in AddressDigit /\ 9 \in AddressDigit
    BY SMT DEF AddressDigit
  <2>4. 0 \in 0 .. 4 /\ 3 \in 0 .. 4 /\ 4 \in 0 .. 4
    BY SMT
  <2> DEFINE a == <<4, 4, 7>>
             b == <<4, 9, 1, 7>>
             c == <<1, 2, 3>>
             d == <<4, 9, 1, 5>>
  <2>5. /\ a \in Seq(AddressDigit) /\ Len(a) = 3 /\ b \in Seq(AddressDigit) /\ Len(b) = 4
        /\ c \in Seq(AddressDigit) /\ Len(c) = 3 /\ d \in Seq(AddressDigit) /\ Len(d) = 4
    BY <2>2, <2>3, Zenon
  <2>6. /\ \A t \in centers : t = <<>> \/ t = a \/ t = b
        /\ \A t \in senders : t = c \/ t = d
    BY Zenon
  <2> HIDE DEF a, b, c, d, centers, senders
  <2>7. QED
    BY <2>1, <2>4, <2>5, <2>6, Zenon
<1>4. {1, 3, 254} \subseteq Byte
  BY SMT DEF Byte
<1>5. s.ucs2 = u
  BY <1>2, Zenon
<1>6. s.text \in Seq(CodeUnits) /\ (~ s.ucs2 => s.text \in Seq(Septets)) /\ Len(s.text) <= 100
  <2> DEFINE t == s.text
  <2>1. CASE u = TRUE
    <3>1. t \in Texts(TRUE) /\ s.ucs2
      BY <1>2, <1>5, <2>1, Zenon
    <3>2. QED
      BY <3>1, TextsFit, Zenon
  <2>2. CASE u = FALSE
    <3>1. t \in Texts(FALSE)
      BY <1>2, <2>2, Zenon
    <3>2. t \in Seq(Septets) /\ Len(t) <= 100
      BY <3>1, TextsFit, Zenon
    <3>3. t \in Seq(CodeUnits)
      BY <3>2, SeptetsAreUnits, SeqMonotonic, Zenon
    <3>4. QED
      BY <1>5, <2>2, <3>2, <3>3, Zenon
  <2>3. QED
    BY <2>1, <2>2, Zenon
<1>7. /\ s.smsc \in Seq(AddressDigit) /\ Len(s.smsc) \in 0 .. 4
      /\ s.sender \in Seq(AddressDigit) /\ Len(s.sender) \in 0 .. 4
  <2> DEFINE center == s.smsc
             sender == s.sender
  <2>1. center \in centers /\ sender \in senders
    BY <1>2, Zenon
  <2> HIDE DEF centers, senders, center, sender
  <2>2. /\ center \in Seq(AddressDigit) /\ Len(center) \in 0 .. 4
        /\ sender \in Seq(AddressDigit) /\ Len(sender) \in 0 .. 4
    BY <1>3, <2>1, Zenon
  <2>3. QED
    BY <2>2, Zenon DEF center, sender
<1>8. 1 + (Len(s.smsc) + 1) \div 2 \in Byte /\ Len(s.sender) \in Byte
  <2>1. \A n \in 0 .. 4 : 1 + (n + 1) \div 2 \in Byte /\ n \in Byte
    BY SMT DEF Byte
  <2>2. QED
    BY <1>7, <2>1, Zenon
<1>9. s.number \in Byte /\ s.ucs2 \in BOOLEAN
  BY <1>2, <1>4, <1>5, Zenon
<1>10. UserDataLength(s) \in Byte
  <2>1. HasShortText(s)
    BY <1>2, <1>6, <1>9, Zenon DEF HasShortText
  <2>2. QED
    BY <2>1, LengthOctet, Zenon
<1>11. s \in [ kind : {"pdu"}, smsc : Seq(AddressDigit), sender : Seq(AddressDigit),
               reference : {"none", "short", "long"}, number : Byte,
               ucs2 : BOOLEAN, text : Seq(CodeUnits) ]
  <2>1. /\ s = [ kind |-> s.kind, smsc |-> s.smsc, sender |-> s.sender, reference |-> s.reference,
                 number |-> s.number, ucs2 |-> s.ucs2, text |-> s.text ]
        /\ s.kind = "pdu"
    BY <1>1
  <2>2. QED
    BY <1>2, <1>6, <1>7, <1>9, <2>1, Zenon
<1>12. QED
  BY <1>6, <1>8, <1>10, <1>11, Zenon DEF AnyPdu

(* PduRead for the samples: the fields *)
THEOREM FieldsRead == Spec => []FieldsAreRead
<1>1. (sample.kind = "pdu" => sample \in PduSamples) => FieldsAreRead
  <2> SUFFICES ASSUME sample \in PduSamples, sample.kind = "pdu"
               PROVE  FieldsAreRead
    BY Zenon DEF FieldsAreRead
  <2>1. Parsed(Encoded(sample)) = Delivered(sample)
    BY SamplesAreAny, PduRead, Zenon
  <2> DEFINE sms == Delivered(sample)
             segment == CASE sample.reference = "none"  -> <<>>
                          [] sample.reference = "short" -> <<77, 3, sample.number>>
                          [] sample.reference = "long"  -> <<333, 3, sample.number>>
  <2>2. /\ sms.smsc = sample.smsc /\ sms.sender = sample.sender
        /\ sms.timestamp = Timestamp /\ sms.segment = segment
    BY Zenon DEF Delivered
  <2> HIDE DEF sms
  <2>3. DigitsOf(sms.timestamp) = Timestamp
    BY <2>2, TimestampDigits, Zenon
  <2>4. FieldsAreRead
    <3>1. Parsed(Encoded(sample)) = sms
      BY <2>1, Zenon DEF sms
    <3> HIDE DEF segment
    <3>2. sample.kind = "pdu" =>
            /\ Parsed(Encoded(sample)).smsc = sample.smsc
            /\ Parsed(Encoded(sample)).sender = sample.sender
            /\ DigitsOf(Parsed(Encoded(sample)).timestamp) = Timestamp
            /\ Parsed(Encoded(sample)).segment = segment
      BY <2>2, <2>3, <3>1, Zenon
    <3>3. QED
      BY <3>2, Zenon DEF FieldsAreRead, segment
  <2>5. QED
    BY <2>4, Zenon
<1>2. QED
  BY <1>1, SamplesPicked, PTL

-----------------------------------------------------------------------------
(* The text that was sent *)

(* Where FlattenSeq puts the k-th element of the i-th text *)
PieceAt(texts, i, k) == Len(FlattenSeq(SubSeq(texts, 1, i - 1))) + k

IsWhole(texts) ==
  \A i \in 1 .. Len(texts) : \A k \in 1 .. Len(texts[i]) :
    /\ PieceAt(texts, i, k) \in 1 .. Len(FlattenSeq(texts))
    /\ FlattenSeq(texts)[PieceAt(texts, i, k)] = texts[i][k]

LEMMA AppendedAt ==
  ASSUME NEW T, NEW texts \in Seq(T), NEW t \in T
  PROVE  LET more == Append(texts, t)
             n == Len(texts)
         IN  /\ n \in Nat /\ Len(more) = n + 1 /\ more[n + 1] = t
             /\ \A i \in 1 .. n : more[i] = texts[i]
             /\ \A i \in 1 .. n + 1 : SubSeq(more, 1, i - 1) = SubSeq(texts, 1, i - 1)
             /\ SubSeq(texts, 1, n) = texts
<1> DEFINE more == Append(texts, t)
           n == Len(texts)
<1>1. /\ n \in Nat /\ more \in Seq(T) /\ Len(more) = n + 1 /\ more[n + 1] = t
      /\ \A i \in 1 .. n : more[i] = texts[i]
  BY AppendProperties, LenProperties
<1>2. ASSUME NEW i \in 1 .. n + 1
      PROVE  SubSeq(more, 1, i - 1) = SubSeq(texts, 1, i - 1)
  <2>1. SubSeq(more, 1, i - 1) = [j \in 1 .. i - 1 |-> more[j]]
    BY <1>1, SMT
  <2>2. SubSeq(texts, 1, i - 1) = [j \in 1 .. i - 1 |-> texts[j]]
    BY <1>1, SMT
  <2>3. \A j \in 1 .. i - 1 : j \in 1 .. n
    BY <1>1, SMT
  <2> HIDE DEF more
  <2>4. QED
    BY <1>1, <2>1, <2>2, <2>3, Zenon
<1>3. SubSeq(texts, 1, n) = texts
  BY SMT
<1>4. QED
  BY <1>1, <1>2, <1>3, Zenon

LEMMA PiecesKept ==
  ASSUME NEW S
  PROVE  \A texts \in Seq(Seq(S)) : IsWhole(texts)
<1> DEFINE T == Seq(S)
           Good == {texts \in Seq(T) : IsWhole(texts)}
<1>1. <<>> \in Good
  <2>1. <<>> \in Seq(T) /\ 1 .. Len(<<>>) = {}
    BY EmptySeq, SMT
  <2>2. QED
    BY <2>1, Zenon DEF IsWhole
<1>2. ASSUME NEW texts \in Seq(T), texts \in Good, NEW t \in T
      PROVE  Append(texts, t) \in Good
  <2> DEFINE more == Append(texts, t)
             n == Len(texts)
             flat == FlattenSeq(texts)
             whole == FlattenSeq(more)
  <2>1. /\ n \in Nat /\ Len(more) = n + 1 /\ more[n + 1] = t
        /\ \A i \in 1 .. n : more[i] = texts[i]
        /\ \A i \in 1 .. n + 1 : SubSeq(more, 1, i - 1) = SubSeq(texts, 1, i - 1)
        /\ SubSeq(texts, 1, n) = texts
    BY AppendedAt
  <2>2. flat \in Seq(S) /\ whole = flat \o t /\ t \in Seq(S)
    BY FlattenAppend, Zenon
  <2>3. more \in Seq(T)
    BY AppendProperties
  <2> HIDE DEF more, n, flat, whole
  <2>4. /\ Len(flat) \in Nat /\ Len(t) \in Nat /\ Len(whole) = Len(flat) + Len(t)
        /\ \A j \in 1 .. Len(flat) : whole[j] = flat[j]
        /\ \A k \in 1 .. Len(t) : whole[Len(flat) + k] = t[k]
    BY <2>2, ConcatProperties, LenProperties
  <2>5. ASSUME NEW i \in 1 .. Len(more), NEW k \in 1 .. Len(more[i])
        PROVE  /\ PieceAt(more, i, k) \in 1 .. Len(whole)
               /\ whole[PieceAt(more, i, k)] = more[i][k]
    <3>1. i \in 1 .. n \/ i = n + 1
      BY <2>1, SMT
    <3>2. PieceAt(more, i, k) = PieceAt(texts, i, k)
      BY <2>1, Zenon DEF PieceAt
    <3>3. CASE i \in 1 .. n
      <4>1. k \in 1 .. Len(texts[i]) /\ more[i] = texts[i]
        BY <2>1, <3>3
      <4>2. PieceAt(texts, i, k) \in 1 .. Len(flat) /\ flat[PieceAt(texts, i, k)] = texts[i][k]
        BY <1>2, <3>3, <4>1, Zenon DEF IsWhole, flat, n
      <4>3. 1 .. Len(flat) \subseteq 1 .. Len(whole)
        BY <2>4, SMT
      <4>4. QED
        BY <2>4, <3>2, <4>1, <4>2, <4>3, Zenon
    <3>4. CASE i = n + 1
      <4>1. more[i] = t /\ k \in 1 .. Len(t)
        BY <2>1, <3>4
      <4>2. i - 1 = n
        BY <2>1, <3>4, SMT
      <4>3. PieceAt(texts, i, k) = Len(flat) + k
        BY <2>1, <4>2, Zenon DEF PieceAt, flat
      <4>4. Len(flat) + k \in 1 .. Len(whole)
        BY <2>4, <4>1, SMT
      <4>5. QED
        BY <2>4, <3>2, <4>1, <4>3, <4>4, Zenon
    <3>5. QED
      BY <3>1, <3>3, <3>4, Zenon
  <2>6. IsWhole(more)
    BY <2>5, Zenon DEF IsWhole, whole
  <2>7. QED
    BY <2>3, <2>6, Zenon DEF more
<1> HIDE DEF Good
<1>3. \A texts \in Seq(T) : texts \in Good
  BY <1>1, <1>2, TextInduction, Zenon
<1>4. QED
  BY <1>3, Zenon DEF Good

(* What decodeUCS2 begins every surrogate with *)
SurrogateLead == 237

(* The first octet of a form of UTF-8 *)
LEMMA FirstOctet ==
  ASSUME NEW u \in Nat
  PROVE  /\ Len(Utf8(u)) \in Nat /\ 1 \in 1 .. Len(Utf8(u))
         /\ u < 128 => Utf8(u) = <<u>>
         /\ ~ (u < 128) => ~ (Utf8(u)[1] < 128)
         /\ u \in HighHalves \cup LowHalves => Utf8(u)[1] = SurrogateLead
<1> DEFINE a == u \div 64
           b == u % 64
           c == u \div 4096
           d == (u \div 64) % 64
           one == <<u>>
           two == <<192 + a, 128 + b>>
           three == <<224 + c, 128 + d, 128 + b>>
<1>1. /\ a \in Nat /\ b \in Nat /\ c \in Nat /\ d \in Nat
      /\ u \in HighHalves \cup LowHalves => c = 13 /\ ~ (u < 128) /\ ~ (u < 2048)
  <2>1. a \in Nat /\ b \in Nat /\ c \in Nat
    BY SMT
  <2>2. d \in Nat
    BY SMT
  <2>3. u \in HighHalves \cup LowHalves => u \in 55296 .. 57343
    BY SMT DEF HighHalves, LowHalves
  <2>4. u \in 55296 .. 57343 => c = 13 /\ ~ (u < 128) /\ ~ (u < 2048)
    BY SMT
  <2> HIDE DEF a, b, c, d
  <2>5. QED
    BY <2>1, <2>2, <2>3, <2>4, SMT
<1>2. Utf8(u) = IF u < 128 THEN one ELSE IF u < 2048 THEN two ELSE three
  BY Zenon DEF Utf8
<1> HIDE DEF a, b, c, d
<1>3. /\ Len(one) = 1 /\ Len(two) = 2 /\ Len(three) = 3
      /\ two[1] = 192 + a /\ three[1] = 224 + c
  BY <1>1, SMT
<1>4. /\ ~ (192 + a < 128) /\ ~ (224 + c < 128) /\ (c = 13 => 224 + c = 237)
      /\ 1 \in Nat /\ 2 \in Nat /\ 3 \in Nat
      /\ 1 \in 1 .. 1 /\ 1 \in 1 .. 2 /\ 1 \in 1 .. 3
  BY <1>1, SMT
<1> HIDE DEF one, two, three
<1>5. CASE u < 128
  <2>1. Utf8(u) = one
    BY <1>2, <1>5, SMT
  <2>2. Len(Utf8(u)) = 1 /\ Utf8(u) = <<u>> /\ u \notin HighHalves \cup LowHalves
    BY <1>1, <1>3, <1>5, <2>1 DEF one
  <2>3. QED
    BY <1>4, <1>5, <2>2, SMT
<1>6. CASE ~ (u < 128) /\ u < 2048
  <2>1. Utf8(u) = two
    BY <1>2, <1>6, SMT
  <2>2. /\ Len(Utf8(u)) = 2 /\ ~ (Utf8(u)[1] < 128)
        /\ u \notin HighHalves \cup LowHalves
    BY <1>1, <1>3, <1>4, <1>6, <2>1
  <2>3. QED
    BY <1>4, <1>6, <2>2, SMT
<1>7. CASE ~ (u < 128) /\ ~ (u < 2048)
  <2>1. Utf8(u) = three
    BY <1>2, <1>7, SMT
  <2>2. /\ Len(Utf8(u)) = 3 /\ ~ (Utf8(u)[1] < 128)
        /\ u \in HighHalves \cup LowHalves => Utf8(u)[1] = SurrogateLead
    BY <1>1, <1>3, <1>4, <2>1 DEF SurrogateLead
  <2>3. QED
    BY <1>4, <1>7, <2>2, SMT
<1>8. QED
  BY <1>5, <1>6, <1>7, SMT

LEMMA GsmIsUnit == \A c \in Septets : Gsm(c) \in CodeUnits
<1> SUFFICES ASSUME NEW c \in Septets
             PROVE  Gsm(c) \in CodeUnits
  BY Zenon
<1> DEFINE low == <<64, 163, 36, 165, 232, 233, 249, 236, 242, 199, 10,
                    216, 248, 13, 197, 229, 916, 95, 934, 915, 923, 937,
                    928, 936, 931, 920, 926, 32, 198, 230, 223, 201>>
           middle == <<196, 214, 209, 220, 167, 191>>
           high == <<228, 246, 241, 252, 224>>
<1>1. /\ low \in Seq(CodeUnits) /\ Len(low) = 32
      /\ middle \in Seq(CodeUnits) /\ Len(middle) = 6
      /\ high \in Seq(CodeUnits) /\ Len(high) = 5
  BY SMT DEF CodeUnits
<1>2. /\ c < 32 => c + 1 \in 1 .. 32
      /\ c \in 91 .. 96 => c - 90 \in 1 .. 6
      /\ c > 122 => c - 122 \in 1 .. 5
      /\ c \in CodeUnits /\ 164 \in CodeUnits /\ 161 \in CodeUnits
  BY SMT DEF Septets, CodeUnits
<1> HIDE DEF low, middle, high
<1>3. \A text \in Seq(CodeUnits) : \A i \in 1 .. Len(text) : text[i] \in CodeUnits
  BY ElementOfSeq, Zenon
<1>4. Gsm(c) = CASE c < 32         -> low[c + 1]
                 [] c = 36         -> 164
                 [] c = 64         -> 161
                 [] c \in 91 .. 96 -> middle[c - 90]
                 [] c > 122        -> high[c - 122]
                 [] OTHER          -> c
  BY Zenon DEF Gsm, low, middle, high
<1>5. \/ c < 32 /\ Gsm(c) = low[c + 1]
      \/ Gsm(c) = 164 \/ Gsm(c) = 161 \/ Gsm(c) = c
      \/ c \in 91 .. 96 /\ Gsm(c) = middle[c - 90]
      \/ c > 122 /\ Gsm(c) = high[c - 122]
  BY <1>4, SMT
<1>6. /\ \A i \in 1 .. 32 : low[i] \in CodeUnits
      /\ \A i \in 1 .. 6 : middle[i] \in CodeUnits
      /\ \A i \in 1 .. 5 : high[i] \in CodeUnits
  <2>1. 1 .. 32 = 1 .. Len(low) /\ 1 .. 6 = 1 .. Len(middle) /\ 1 .. 5 = 1 .. Len(high)
    BY <1>1
  <2>2. QED
    BY <1>1, <1>3, <2>1, Zenon
<1>7. QED
  BY <1>2, <1>5, <1>6, SMT

(* The text of an SMS in septets *)
LEMMA SeptetsSent ==
  ASSUME NEW s \in AnyPdu, ~ s.ucs2
  PROVE  Extra(s) \o Text(s) = Sent(s) <=> Readable(s)
<1> DEFINE text == s.text
           n == Len(text)
           content == Extra(s) \o Text(s)
           pieces == [i \in 1 .. n |-> Utf8(Gsm(text[i]))]
           ascii == [i \in 1 .. n |-> Gsm(text[i])]
<1>1. /\ text \in Seq(Septets) /\ s.reference \in {"none", "short", "long"}
      /\ s.number \in Byte
  BY Zenon DEF AnyPdu
<1>2. n \in Nat /\ DOMAIN text = 1 .. n /\ \A i \in 1 .. n : text[i] \in Septets
  BY <1>1, LenProperties, ElementOfSeq
<1>3. Text(s) = text
  BY Zenon DEF Text
<1>4. Sent(s) = FlattenSeq(pieces)
  BY <1>2, Zenon DEF Sent
<1>5. Readable(s) <=> s.reference = "none" /\ \A i \in 1 .. n : Gsm(text[i]) = text[i]
  BY <1>2, Zenon DEF Readable
<1>6. /\ Extra(s) \in Seq(Septets)
      /\ s.reference = "none" => Extra(s) = <<>>
      /\ s.reference # "none" => Len(Extra(s)) = 1
  <2> DEFINE quarter == s.number \div 4
             half == s.number \div 2
  <2>1. quarter \in Septets /\ half \in Septets
    <3>1. \A k \in Byte : k \div 4 \in Septets /\ k \div 2 \in Septets
      BY SMT DEF Byte, Septets
    <3>2. QED
      BY <1>1, <3>1, Zenon
  <2>2. Extra(s) = CASE s.reference = "none"  -> <<>>
                     [] s.reference = "short" -> <<quarter>>
                     [] s.reference = "long"  -> <<half>>
    BY Zenon DEF Extra
  <2> HIDE DEF quarter, half
  <2>3. \/ s.reference = "none" /\ Extra(s) = <<>>
        \/ s.reference # "none" /\ (Extra(s) = <<quarter>> \/ Extra(s) = <<half>>)
    BY <1>1, <2>2, SMT
  <2>4. \A x \in Septets : <<x>> \in Seq(Septets) /\ Len(<<x>>) = 1
    OBVIOUS
  <2>5. <<>> \in Seq(Septets)
    BY EmptySeq, Zenon
  <2>6. QED
    BY <2>1, <2>3, <2>4, <2>5, Zenon
<1>7. /\ content \in Seq(Septets)
      /\ s.reference = "none" => content = text
      /\ s.reference # "none" => Len(content) = 1 + n
  <2> HIDE DEF text
  <2>1. content \in Seq(Septets) /\ Len(content) = Len(Extra(s)) + n
    BY <1>1, <1>3, <1>6, ConcatProperties DEF n
  <2>2. <<>> \o text = text
    BY <1>1, ConcatEmptySeq, Zenon
  <2>3. QED
    BY <1>3, <1>6, <2>1, <2>2, Zenon
<1> HIDE DEF text, n, content
<1>8. \A i \in 1 .. n : Gsm(text[i]) \in Nat
  <2>1. CodeUnits \subseteq Nat
    BY SMT DEF CodeUnits
  <2>2. QED
    BY <1>2, <2>1, GsmIsUnit, Zenon
<1>9. ascii \in Seq(Nat) /\ Len(ascii) = n
  <2>1. ascii \in [1 .. n -> Nat]
    BY <1>8, Zenon
  <2> HIDE DEF ascii
  <2>2. QED
    BY <1>2, <2>1, FunctionsAreSeqs, Zenon
<1>10. (\A i \in 1 .. n : Gsm(text[i]) < 128) => FlattenSeq(pieces) = ascii
  <2> SUFFICES ASSUME \A i \in 1 .. n : Gsm(text[i]) < 128
               PROVE  FlattenSeq(pieces) = ascii
    BY Zenon
  <2>1. \A i \in 1 .. n : Utf8(Gsm(text[i])) = <<ascii[i]>>
    BY <1>8, FirstOctet, Zenon
  <2> HIDE DEF ascii
  <2>2. pieces = [i \in 1 .. n |-> <<ascii[i]>>]
    BY <2>1, Zenon
  <2>3. QED
    BY <1>9, <2>2, SinglesJoined, Zenon
<1>11. ASSUME Readable(s)
       PROVE  content = Sent(s)
  <2>1. s.reference = "none" /\ \A i \in 1 .. n : Gsm(text[i]) = text[i]
    BY <1>5, <1>11, Zenon
  <2>2. \A i \in 1 .. n : Gsm(text[i]) < 128
    <3>1. \A c \in Septets : c < 128
      BY SMT DEF Septets
    <3>2. QED
      BY <1>2, <2>1, <3>1, Zenon
  <2>3. ascii = text
    <3>1. text \in [1 .. n -> Septets]
      BY <1>1, LenProperties DEF n
    <3>2. QED
      BY <2>1, <3>1, Zenon
  <2>4. QED
    BY <1>4, <1>7, <1>10, <2>1, <2>2, <2>3, Zenon
<1>12. ASSUME content = Sent(s)
       PROVE  Readable(s)
  <2>1. pieces \in Seq(Seq(Nat)) /\ Len(pieces) = n
    <3>1. \A i \in 1 .. n : Utf8(Gsm(text[i])) \in Seq(Nat)
      BY <1>2, GsmIsUnit, Utf8IsText, Zenon
    <3>2. pieces \in [1 .. n -> Seq(Nat)]
      BY <3>1, Zenon
    <3> HIDE DEF pieces
    <3>3. QED
      BY <1>2, <3>2, FunctionsAreSeqs, Zenon
  <2>2. \A i \in 1 .. n : Utf8(Gsm(text[i]))[1] \in Septets
    <3>1. IsWhole(pieces) /\ \A i \in 1 .. n : pieces[i] = Utf8(Gsm(text[i]))
      BY <2>1, PiecesKept, Zenon
    <3> HIDE DEF pieces
    <3>2. ASSUME NEW i \in 1 .. n
          PROVE  pieces[i][1] \in Septets
      <4> DEFINE u == Gsm(text[i])
      <4>0. u \in Nat /\ pieces[i] = Utf8(u)
        BY <1>8, <3>1, Zenon
      <4> HIDE DEF u
      <4>1. 1 \in 1 .. Len(pieces[i])
        BY <4>0, FirstOctet, Zenon
      <4>2. PICK at \in 1 .. Len(content) : content[at] = pieces[i][1]
        <5>1. i \in 1 .. Len(pieces) /\ content = FlattenSeq(pieces)
          BY <1>4, <1>12, <2>1
        <5>2. /\ PieceAt(pieces, i, 1) \in 1 .. Len(content)
              /\ content[PieceAt(pieces, i, 1)] = pieces[i][1]
          BY <3>1, <4>1, <5>1, Zenon DEF IsWhole
        <5>3. QED
          BY <5>2, Zenon
      <4>3. QED
        BY <1>7, <4>2, ElementOfSeq, Zenon
    <3>3. QED
      BY <3>1, <3>2, Zenon
  <2>3. \A i \in 1 .. n : Gsm(text[i]) < 128
    <3>1. \A c \in Septets : c < 128
      BY SMT DEF Septets
    <3>2. ASSUME NEW u \in Nat, Utf8(u)[1] < 128
          PROVE  u < 128
      BY <3>2, FirstOctet
    <3>3. QED
      BY <1>8, <2>2, <3>1, <3>2
  <2>4. content = ascii
    BY <1>4, <1>10, <1>12, <2>3, Zenon
  <2>5. s.reference = "none"
    <3>1. 1 + n # n
      BY <1>2, SMT
    <3> HIDE DEF ascii
    <3>2. QED
      BY <1>7, <1>9, <2>4, <3>1, Zenon
  <2>6. \A i \in 1 .. n : Gsm(text[i]) = text[i]
    BY <1>7, <2>4, <2>5, Zenon
  <2>7. QED
    BY <1>5, <2>5, <2>6, Zenon
<1>13. QED
  BY <1>11, <1>12, Zenon DEF content

LEMMA PairIs ==
  \A high \in HighHalves : \A low \in LowHalves :
    /\ PairSent(high, low) \in Seq(Nat) /\ 1 \in 1 .. Len(PairSent(high, low))
    /\ PairSent(high, low)[1] # SurrogateLead
<1> SUFFICES ASSUME NEW high \in HighHalves, NEW low \in LowHalves
             PROVE  /\ PairSent(high, low) \in Seq(Nat) /\ 1 \in 1 .. Len(PairSent(high, low))
                    /\ PairSent(high, low)[1] # SurrogateLead
  OBVIOUS
<1> DEFINE point == 65536 + 1024 * (high - 55296) + low - 56320
           a == point \div 262144
           b == (point \div 4096) % 64
           c == (point \div 64) % 64
           d == point % 64
<1>1. point \in Nat
  BY SMT DEF HighHalves, LowHalves
<1>2. PairSent(high, low) = <<240 + a, 128 + b, 128 + c, 128 + d>>
  BY SMT DEF PairSent
<1> HIDE DEF point
<1>3. a \in Nat /\ b \in Nat /\ c \in Nat /\ d \in Nat
  BY <1>1, SMT
<1> HIDE DEF a, b, c, d
<1>4. QED
  BY <1>2, <1>3, SMT DEF SurrogateLead

LEMMA ReplacementIs ==
  Replacement \in Seq(Nat) /\ 1 \in 1 .. Len(Replacement) /\ Replacement[1] # SurrogateLead
BY SMT DEF Replacement, SurrogateLead

(* What was sent at one place of a text in UCS2 *)
LEMMA SentIsText ==
  \A text \in Seq(CodeUnits) : \A i \in 1 .. Len(text) : UnitSent(text, i) \in Seq(Nat)
<1> SUFFICES ASSUME NEW text \in Seq(CodeUnits), NEW i \in 1 .. Len(text)
             PROVE  UnitSent(text, i) \in Seq(Nat)
  BY Zenon
<1> DEFINE u == text[i]
           next == IF i < Len(text) THEN text[i + 1] ELSE 0
           previous == IF i > 1 THEN text[i - 1] ELSE 0
           pair == PairSent(u, next)
<1>1. Utf8(u) \in Seq(Nat) /\ <<>> \in Seq(Nat)
  <2>1. u \in CodeUnits
    BY ElementOfSeq, Zenon
  <2>2. QED
    BY <2>1, Utf8IsText, EmptySeq, Zenon
<1>2. UnitSent(text, i) =
        CASE u \in HighHalves /\ next \in LowHalves        -> pair
          [] u \in LowHalves /\ previous \in HighHalves    -> <<>>
          [] u \in HighHalves /\ next \notin LowHalves     -> Replacement
          [] u \in LowHalves /\ previous \notin HighHalves -> Replacement
          [] OTHER                                         -> Utf8(u)
  BY Zenon DEF UnitSent
<1> HIDE DEF next, previous, u
<1>3. u \in HighHalves /\ next \in LowHalves => pair \in Seq(Nat)
  BY PairIs, Zenon
<1> DEFINE none == <<>>
           whole == Utf8(u)
<1> HIDE DEF pair, none, whole
<1>4. \/ u \in HighHalves /\ next \in LowHalves /\ UnitSent(text, i) = pair
      \/ UnitSent(text, i) = none \/ UnitSent(text, i) = Replacement
      \/ UnitSent(text, i) = whole
  BY <1>2, SMT DEF none, whole
<1>5. QED
  BY <1>1, <1>3, <1>4, ReplacementIs, Zenon DEF none, whole

LEMMA FirstSent ==
  ASSUME NEW text \in Seq(CodeUnits), NEW i \in 1 .. Len(text),
         text[i] \in HighHalves \cup LowHalves,
         \A j \in 1 .. i - 1 : text[j] \notin HighHalves \cup LowHalves
  PROVE  1 \in 1 .. Len(UnitSent(text, i)) /\ UnitSent(text, i)[1] # SurrogateLead
<1> DEFINE u == text[i]
           next == IF i < Len(text) THEN text[i + 1] ELSE 0
           previous == IF i > 1 THEN text[i - 1] ELSE 0
           pair == PairSent(u, next)
<1>1. u \in HighHalves \cup LowHalves
  OBVIOUS
<1>2. previous \notin HighHalves
  <2>1. i > 1 => i - 1 \in 1 .. i - 1
    BY LenProperties, SMT
  <2>2. 0 \notin HighHalves
    BY SMT DEF HighHalves
  <2>3. previous = 0 \/ (i > 1 /\ previous = text[i - 1])
    OBVIOUS
  <2> HIDE DEF previous
  <2>4. QED
    BY <2>1, <2>2, <2>3, Zenon
<1>3. UnitSent(text, i) =
        CASE u \in HighHalves /\ next \in LowHalves        -> pair
          [] u \in LowHalves /\ previous \in HighHalves    -> <<>>
          [] u \in HighHalves /\ next \notin LowHalves     -> Replacement
          [] u \in LowHalves /\ previous \notin HighHalves -> Replacement
          [] OTHER                                         -> Utf8(u)
  BY Zenon DEF UnitSent
<1> HIDE DEF u, next, previous
<1>4. u \in HighHalves /\ next \in LowHalves => 1 \in 1 .. Len(pair) /\ pair[1] # SurrogateLead
  BY PairIs, Zenon
<1> HIDE DEF pair
<1>5. \/ u \in HighHalves /\ next \in LowHalves /\ UnitSent(text, i) = pair
      \/ UnitSent(text, i) = Replacement
  BY <1>1, <1>2, <1>3, SMT
<1>6. QED
  BY <1>4, <1>5, ReplacementIs, Zenon

(* The text of an SMS in UCS2: at the first surrogate the decoder's octet is
   237, and that of UTF-8 is 239 or 240. *)
LEMMA UnitsSent ==
  ASSUME NEW s \in AnyPdu, s.ucs2
  PROVE  Extra(s) \o Text(s) = Sent(s) <=> Readable(s)
<1> DEFINE text == s.text
           n == Len(text)
           read == [i \in 1 .. n |-> Utf8(text[i])]
           sent == [i \in 1 .. n |-> UnitSent(text, i)]
           Halves == HighHalves \cup LowHalves
<1>1. /\ text \in Seq(CodeUnits) /\ n \in Nat /\ DOMAIN text = 1 .. n
      /\ \A i \in 1 .. n : text[i] \in CodeUnits
  <2>1. text \in Seq(CodeUnits)
    BY Zenon DEF AnyPdu
  <2>2. QED
    BY <2>1, LenProperties, ElementOfSeq
<1>2. Extra(s) \o Text(s) = FlattenSeq(read)
  <2>1. Extra(s) = <<>> /\ Text(s) = FlattenSeq(read)
    BY <1>1, Zenon DEF Extra, Text
  <2>2. FlattenSeq(read) \in Seq(Nat)
    <3> HIDE DEF text
    <3>1. FlattenSeq([i \in DOMAIN text |-> Utf8(text[i])]) \in Seq(Nat)
      BY <1>1, Utf8Texts, Zenon
    <3>2. QED
      BY <1>1, <3>1, Zenon
  <2> HIDE DEF read
  <2>3. <<>> \o FlattenSeq(read) = FlattenSeq(read)
    BY <2>2, ConcatEmptySeq, Zenon
  <2>4. QED
    BY <2>1, <2>3, Zenon
<1>3. Sent(s) = FlattenSeq(sent)
  BY <1>1, Zenon DEF Sent
<1>4. Readable(s) <=> \A i \in 1 .. n : text[i] \notin Halves
  BY <1>1, Zenon DEF Readable
<1> HIDE DEF text, n
<1>5. \A i \in 1 .. n : text[i] \notin Halves => sent[i] = read[i]
  <2> SUFFICES ASSUME NEW i \in 1 .. n, text[i] \notin Halves
               PROVE  UnitSent(text, i) = Utf8(text[i])
    BY Zenon
  <2>1. text[i] \notin HighHalves /\ text[i] \notin LowHalves
    OBVIOUS
  <2>2. QED
    BY <2>1, Zenon DEF UnitSent
<1>6. ASSUME Readable(s)
      PROVE  FlattenSeq(read) = FlattenSeq(sent)
  <2>1. \A i \in 1 .. n : UnitSent(text, i) = Utf8(text[i])
    BY <1>4, <1>5, <1>6, Zenon
  <2>2. QED
    BY <2>1, Zenon
<1>7. ASSUME ~ Readable(s)
      PROVE  FlattenSeq(read) # FlattenSeq(sent)
  <2>1. PICK i \in 1 .. n : /\ text[i] \in Halves
                           /\ \A j \in 1 .. i - 1 : text[j] \notin Halves
    <3> DEFINE I == {i \in 1 .. n : text[i] \in Halves}
    <3>1. I # {} /\ I \in SUBSET Nat
      <4>1. 1 .. n \subseteq Nat
        BY <1>1, SMT
      <4>2. QED
        BY <1>4, <1>7, <4>1, Zenon
    <3>2. PICK i \in I : \A j \in I : i <= j
      BY <3>1, LeastOf, Zenon
    <3>3. \A j \in 1 .. i - 1 : j \in 1 .. n /\ ~ (i <= j)
      BY <1>1, SMT
    <3>4. QED
      BY <3>2, <3>3, Zenon
  <2> DEFINE u == text[i]
  <2>2. u \in Nat /\ Utf8(u)[1] = SurrogateLead /\ 1 \in 1 .. Len(Utf8(u))
    <3>1. u \in Nat
      BY <1>1, SMT DEF CodeUnits
    <3> HIDE DEF u
    <3>2. u \in HighHalves \cup LowHalves
      BY <2>1, Zenon DEF u
    <3>3. QED
      BY <3>1, <3>2, FirstOctet, Zenon
  <2>3. \A k \in 1 .. n : UnitSent(text, k) \in Seq(Nat)
    BY <1>1, SentIsText, Zenon DEF n
  <2>4. 1 \in 1 .. Len(UnitSent(text, i)) /\ UnitSent(text, i)[1] # SurrogateLead
    BY <1>1, <2>1, FirstSent, Zenon DEF n
  <2>5. read \in Seq(Seq(Nat)) /\ Len(read) = n /\ read[i] = Utf8(u)
    <3>1. \A k \in 1 .. n : Utf8(text[k]) \in Seq(Nat)
      BY <1>1, Utf8IsText, Zenon
    <3>2. read \in [1 .. n -> Seq(Nat)] /\ read[i] = Utf8(u)
      BY <3>1, Zenon
    <3> HIDE DEF read
    <3>3. QED
      BY <1>1, <3>2, FunctionsAreSeqs, Zenon
  <2>6. sent \in Seq(Seq(Nat)) /\ Len(sent) = n /\ sent[i] = UnitSent(text, i)
    <3>1. sent \in [1 .. n -> Seq(Nat)] /\ sent[i] = UnitSent(text, i)
      BY <2>3, Zenon
    <3> HIDE DEF sent
    <3>2. QED
      BY <1>1, <3>1, FunctionsAreSeqs, Zenon
  <2>7. SubSeq(read, 1, i - 1) = SubSeq(sent, 1, i - 1)
    <3>1. \A j \in 1 .. i - 1 : j \in 1 .. n
      BY <1>1, SMT
    <3>2. \A j \in 1 .. i - 1 : read[j] = sent[j]
      BY <1>5, <2>1, <3>1, Zenon
    <3> HIDE DEF read, sent
    <3>3. /\ SubSeq(read, 1, i - 1) = [j \in 1 .. i - 1 |-> read[j]]
          /\ SubSeq(sent, 1, i - 1) = [j \in 1 .. i - 1 |-> sent[j]]
      BY <1>1, <2>5, <2>6, SMT
    <3>4. QED
      BY <3>2, <3>3, Zenon
  <2> HIDE DEF read, sent, u
  <2>8. PieceAt(read, i, 1) = PieceAt(sent, i, 1)
    BY <2>7, Zenon DEF PieceAt
  <2>9. FlattenSeq(read)[PieceAt(read, i, 1)] = SurrogateLead
    <3>1. IsWhole(read) /\ i \in 1 .. Len(read) /\ 1 \in 1 .. Len(read[i])
      BY <2>2, <2>5, PiecesKept, Zenon
    <3>2. FlattenSeq(read)[PieceAt(read, i, 1)] = read[i][1]
      BY <3>1, Zenon DEF IsWhole
    <3>3. QED
      BY <2>2, <2>5, <3>2, Zenon
  <2>10. FlattenSeq(sent)[PieceAt(sent, i, 1)] # SurrogateLead
    <3>1. IsWhole(sent) /\ i \in 1 .. Len(sent) /\ 1 \in 1 .. Len(sent[i])
      BY <2>4, <2>6, PiecesKept, Zenon
    <3>2. FlattenSeq(sent)[PieceAt(sent, i, 1)] = sent[i][1]
      BY <3>1, Zenon DEF IsWhole
    <3>3. QED
      BY <2>4, <2>6, <3>2, Zenon
  <2>11. QED
    BY <2>8, <2>9, <2>10, Zenon
<1>8. QED
  BY <1>2, <1>3, <1>6, <1>7, Zenon

(* For every SMS that fits a PDU: its text is mailed as the sender wrote it
   exactly when it is in UCS2 without surrogates, or of one part in septets
   that mean the same in ASCII. *)
THEOREM TextArrives ==
  \A s \in AnyPdu : Parsed(Encoded(s)).content = Sent(s) <=> Readable(s)
<1> SUFFICES ASSUME NEW s \in AnyPdu
             PROVE  Parsed(Encoded(s)).content = Sent(s) <=> Readable(s)
  BY Zenon
<1>1. Parsed(Encoded(s)) = Delivered(s)
  BY PduRead, Zenon
<1>2. Delivered(s).content = Extra(s) \o Text(s)
  BY Zenon DEF Delivered
<1>3. Extra(s) \o Text(s) = Sent(s) <=> Readable(s)
  BY SeptetsSent, UnitsSent, Zenon
<1>4. QED
  BY <1>1, <1>2, <1>3, Zenon

(* TextArrives for the samples *)
THEOREM TextRead == Spec => []TextIsRead
<1>1. (sample.kind = "pdu" => sample \in PduSamples) => TextIsRead
  <2> SUFFICES ASSUME sample \in PduSamples, sample.kind = "pdu"
               PROVE  TextIsRead
    BY Zenon DEF TextIsRead
  <2>1. Parsed(Encoded(sample)).content = Sent(sample) <=> Readable(sample)
    BY SamplesAreAny, TextArrives, Zenon
  <2>2. QED
    BY <2>1, Zenon DEF TextIsRead
<1>2. QED
  BY <1>1, SamplesPicked, PTL
=============================================================================
