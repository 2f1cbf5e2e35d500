----------------------------- MODULE WireProofs -----------------------------
(***************************************************************************)
(* Proofs about the frames on a connection and the payloads in them, for   *)
(* every script of messages, whatever their fields and values, and every   *)
(* way the bytes are cut into pieces.                                      *)
(***************************************************************************)
EXTENDS WireInv, SequenceTheorems, WellFoundedInduction, TLAPS

-----------------------------------------------------------------------------
(* Numbers and sequences.                                                  *)

LEMMA LeastNat ==
  ASSUME NEW T \in SUBSET Nat, T # {}
  PROVE  \E x \in T : \A y \in T : x <= y
<1>1. IsWellFoundedOn(OpToRel(<, Nat), Nat)
  BY NatLessThanWellFounded
<1>2. PICK x \in T : \A y \in T : ~ (<<y, x>> \in OpToRel(<, Nat))
  BY <1>1, WFMin
<1>3. \A y \in T : ~ (y < x)
  BY <1>2 DEF OpToRel
<1>4. QED
  BY <1>3

\* The smaller of two numbers.
LEMMA MinOfTwo ==
  ASSUME NEW a \in Int, NEW b \in Int
  PROVE  /\ a <= b => Min({a, b}) = a
         /\ b <= a => Min({a, b}) = b
BY DEF Min

LEMMA SubSeqIs ==
  ASSUME NEW S, NEW s \in Seq(S), NEW a \in Nat, NEW b \in Nat, 1 <= a, a <= b + 1, b <= Len(s)
  PROVE  /\ SubSeq(s, a, b) \in Seq(S) /\ Len(SubSeq(s, a, b)) = b - a + 1
         /\ \A i \in 1 .. b - a + 1 : SubSeq(s, a, b)[i] = s[a + i - 1]
<1>1. Len(s) \in Nat
  BY LenProperties
<1>2. \A i \in a .. b : s[i] \in S
  BY <1>1, ElementOfSeq
<1>3. a \in Int /\ b \in Int
  OBVIOUS
<1>4. /\ SubSeq(s, a, b) \in Seq(S)
      /\ Len(SubSeq(s, a, b)) = IF a <= b THEN b - a + 1 ELSE 0
      /\ \A i \in 1 .. b - a + 1 : SubSeq(s, a, b)[i] = s[a + i - 1]
  BY <1>2, <1>3, SubSeqProperties
<1>5. QED
  BY <1>4

LEMMA PrefixIs ==
  ASSUME NEW S, NEW s \in Seq(S), NEW k \in 0 .. Len(s)
  PROVE  /\ SubSeq(s, 1, k) \in Seq(S) /\ Len(SubSeq(s, 1, k)) = k
         /\ \A i \in 1 .. k : SubSeq(s, 1, k)[i] = s[i]
<1>1. Len(s) \in Nat
  BY LenProperties
<1>2. k \in Nat /\ 1 \in Nat /\ 1 <= 1 /\ 1 <= k + 1 /\ k <= Len(s)
  BY <1>1
<1>3. /\ SubSeq(s, 1, k) \in Seq(S) /\ Len(SubSeq(s, 1, k)) = k - 1 + 1
      /\ \A i \in 1 .. k - 1 + 1 : SubSeq(s, 1, k)[i] = s[1 + i - 1]
  BY <1>2, SubSeqIs
<1>4. k - 1 + 1 = k /\ \A i \in 1 .. k : 1 + i - 1 = i
  BY <1>2
<1>5. QED
  BY <1>3, <1>4

LEMMA SuffixIs ==
  ASSUME NEW S, NEW s \in Seq(S), NEW k \in 0 .. Len(s)
  PROVE  /\ SubSeq(s, k + 1, Len(s)) \in Seq(S) /\ Len(SubSeq(s, k + 1, Len(s))) = Len(s) - k
         /\ \A i \in 1 .. Len(s) - k : SubSeq(s, k + 1, Len(s))[i] = s[k + i]
<1>1. Len(s) \in Nat
  BY LenProperties
<1> DEFINE a == k + 1
<1>2. a \in Nat /\ 1 <= a /\ a <= Len(s) + 1 /\ Len(s) - a + 1 = Len(s) - k
  BY <1>1
<1>3. \A i \in 1 .. Len(s) - k : a + i - 1 = k + i
  BY <1>1
<1> HIDE DEF a
<1>4. /\ SubSeq(s, a, Len(s)) \in Seq(S) /\ Len(SubSeq(s, a, Len(s))) = Len(s) - a + 1
      /\ \A i \in 1 .. Len(s) - a + 1 : SubSeq(s, a, Len(s))[i] = s[a + i - 1]
  BY <1>1, <1>2, SubSeqIs
<1>5. /\ SubSeq(s, a, Len(s)) \in Seq(S) /\ Len(SubSeq(s, a, Len(s))) = Len(s) - k
      /\ \A i \in 1 .. Len(s) - k : SubSeq(s, a, Len(s))[i] = s[k + i]
  BY <1>2, <1>3, <1>4
<1>6. QED
  BY <1>5 DEF a

LEMMA Associative ==
  ASSUME NEW S PROVE \A s, t, u \in Seq(S) : (s \o t) \o u = s \o (t \o u)
BY ConcatAssociative

\* The two halves of a sequence, and of a concatenation.
LEMMA Halves ==
  ASSUME NEW S, NEW s \in Seq(S), NEW k \in 0 .. Len(s)
  PROVE  /\ SubSeq(s, 1, k) \in Seq(S) /\ Len(SubSeq(s, 1, k)) = k
         /\ SubSeq(s, k + 1, Len(s)) \in Seq(S) /\ Len(SubSeq(s, k + 1, Len(s))) = Len(s) - k
         /\ SubSeq(s, 1, k) \o SubSeq(s, k + 1, Len(s)) = s
<1> DEFINE a == SubSeq(s, 1, k)
           b == SubSeq(s, k + 1, Len(s))
<1>1. Len(s) \in Nat
  BY LenProperties
<1>2. a \in Seq(S) /\ Len(a) = k /\ \A i \in 1 .. k : a[i] = s[i]
  BY PrefixIs
<1>3. b \in Seq(S) /\ Len(b) = Len(s) - k /\ \A i \in 1 .. Len(s) - k : b[i] = s[k + i]
  BY SuffixIs
<1> HIDE DEF a, b
<1>4. /\ a \o b \in Seq(S) /\ Len(a \o b) = Len(s)
      /\ \A i \in 1 .. Len(s) : (a \o b)[i] = IF i <= k THEN a[i] ELSE b[i - k]
  BY <1>1, <1>2, <1>3, ConcatProperties
<1>5. ASSUME NEW i \in 1 .. Len(s) PROVE (a \o b)[i] = s[i]
  BY <1>1, <1>2, <1>3, <1>4
<1>6. a \o b = s
  BY <1>4, <1>5, SeqEqual
<1>7. QED
  BY <1>2, <1>3, <1>6 DEF a, b

LEMMA CutConcat ==
  ASSUME NEW S, NEW s \in Seq(S), NEW t \in Seq(S), NEW k \in 0 .. Len(s) + Len(t)
  PROVE  /\ k <= Len(s) => SubSeq(s \o t, 1, k) = SubSeq(s, 1, k)
         /\ k <= Len(s) => SubSeq(s \o t, k + 1, Len(s \o t)) = SubSeq(s, k + 1, Len(s)) \o t
         /\ k >= Len(s) => SubSeq(s \o t, 1, k) = s \o SubSeq(t, 1, k - Len(s))
         /\ k >= Len(s) => SubSeq(s \o t, k + 1, Len(s \o t)) = SubSeq(t, k - Len(s) + 1, Len(t))
<1> DEFINE u == s \o t
           front == SubSeq(u, 1, k)
           back == SubSeq(u, k + 1, Len(u))
<1>1. Len(s) \in Nat /\ Len(t) \in Nat
  BY LenProperties
<1>2. /\ u \in Seq(S) /\ Len(u) = Len(s) + Len(t)
      /\ \A i \in 1 .. Len(u) : u[i] = IF i <= Len(s) THEN s[i] ELSE t[i - Len(s)]
  BY ConcatProperties
<1>0. k \in 0 .. Len(u) /\ k \in Nat /\ Len(u) \in Nat
  BY <1>1, <1>2
<1> HIDE DEF u
<1>3. /\ front \in Seq(S) /\ Len(front) = k
      /\ \A i \in 1 .. k : front[i] = u[i]
  BY <1>0, <1>2, PrefixIs
<1>4. /\ back \in Seq(S) /\ Len(back) = Len(u) - k
      /\ \A i \in 1 .. Len(u) - k : back[i] = u[k + i]
  BY <1>0, <1>2, SuffixIs
<1> HIDE DEF front, back
<1>5. ASSUME k <= Len(s)
      PROVE  front = SubSeq(s, 1, k) /\ back = SubSeq(s, k + 1, Len(s)) \o t
  <2> DEFINE a == SubSeq(s, 1, k)
             b == SubSeq(s, k + 1, Len(s))
  <2>0. k \in 0 .. Len(s)
    BY <1>1, <1>5
  <2>1. a \in Seq(S) /\ Len(a) = k /\ \A i \in 1 .. k : a[i] = s[i]
    BY <2>0, PrefixIs
  <2>2. b \in Seq(S) /\ Len(b) = Len(s) - k /\ \A i \in 1 .. Len(s) - k : b[i] = s[k + i]
    BY <2>0, SuffixIs
  <2> HIDE DEF a, b
  <2>3. ASSUME NEW i \in 1 .. k PROVE front[i] = a[i]
    BY <1>1, <1>2, <1>3, <1>5, <2>1
  <2>4. front = a
    BY <1>3, <2>1, <2>3, SeqEqual
  <2>5. /\ b \o t \in Seq(S) /\ Len(b \o t) = Len(b) + Len(t)
        /\ \A i \in 1 .. Len(b) + Len(t) : (b \o t)[i] = IF i <= Len(b) THEN b[i] ELSE t[i - Len(b)]
    BY <2>2, ConcatProperties
  <2>6. ASSUME NEW i \in 1 .. Len(u) - k PROVE back[i] = (b \o t)[i]
    <3>1. i \in 1 .. Len(b) + Len(t) /\ k + i \in 1 .. Len(u) /\ k + i - Len(s) = i - Len(b)
      BY <1>1, <1>2, <1>5, <2>2
    <3>2. back[i] = u[k + i]
      BY <1>4
    <3>3. CASE i <= Len(b)
      BY <1>1, <1>2, <1>5, <2>2, <2>5, <3>1, <3>2, <3>3
    <3>4. CASE i > Len(b)
      BY <1>1, <1>2, <1>5, <2>2, <2>5, <3>1, <3>2, <3>4, SMTT(60)
    <3>5. i <= Len(b) \/ i > Len(b)
      BY <1>1, <2>2, <3>1
    <3>6. QED
      BY <3>3, <3>4, <3>5, Zenon
  <2>7. Len(back) = Len(b \o t)
    BY <1>1, <1>2, <1>4, <2>2, <2>5
  <2>8. back = b \o t
    BY <1>4, <2>5, <2>6, <2>7, SeqEqual
  <2>9. QED
    BY <2>4, <2>8 DEF a, b
<1>6. ASSUME k >= Len(s)
      PROVE  front = s \o SubSeq(t, 1, k - Len(s)) /\ back = SubSeq(t, k - Len(s) + 1, Len(t))
  <2> DEFINE m == k - Len(s)
             a == SubSeq(t, 1, m)
             b == SubSeq(t, m + 1, Len(t))
  <2>0. m \in 0 .. Len(t) /\ k = Len(s) + m
    BY <1>1, <1>6
  <2> HIDE DEF m
  <2>1. a \in Seq(S) /\ Len(a) = m /\ \A i \in 1 .. m : a[i] = t[i]
    BY <2>0, PrefixIs
  <2>2. b \in Seq(S) /\ Len(b) = Len(t) - m /\ \A i \in 1 .. Len(t) - m : b[i] = t[m + i]
    BY <2>0, SuffixIs
  <2> HIDE DEF a, b
  <2>3. /\ s \o a \in Seq(S) /\ Len(s \o a) = Len(s) + Len(a)
        /\ \A i \in 1 .. Len(s) + Len(a) : (s \o a)[i] = IF i <= Len(s) THEN s[i] ELSE a[i - Len(s)]
    BY <2>1, ConcatProperties
  <2>4. ASSUME NEW i \in 1 .. k PROVE front[i] = (s \o a)[i]
    <3>1. CASE i <= Len(s)
      BY <1>1, <1>2, <1>3, <2>0, <2>1, <2>3, <3>1
    <3>2. CASE i > Len(s)
      <4>1. /\ i - Len(s) \in 1 .. m /\ i \in 1 .. Len(s) + Len(a) /\ ~ (i <= Len(s))
            /\ i \in 1 .. Len(u)
        BY <1>0, <1>1, <2>0, <2>1, <3>2
      <4>2. QED
        BY <1>2, <1>3, <2>1, <2>3, <4>1
    <3>3. i <= Len(s) \/ i > Len(s)
      BY <1>0, <1>1
    <3>4. QED
      BY <3>1, <3>2, <3>3, Zenon
  <2>5. front = s \o a
    BY <1>1, <1>3, <2>0, <2>1, <2>3, <2>4, SeqEqual
  <2>6. ASSUME NEW i \in 1 .. Len(u) - k PROVE back[i] = b[i]
    <3>1. /\ i \in 1 .. Len(t) - m /\ k + i \in 1 .. Len(u) /\ ~ (k + i <= Len(s))
          /\ k + i - Len(s) = m + i
      BY <1>1, <1>2, <2>0
    <3>2. QED
      <4>1. back[i] = u[k + i] /\ u[k + i] = t[k + i - Len(s)]
        BY <1>2, <1>4, <3>1
      <4>2. b[i] = t[m + i]
        BY <2>2, <3>1
      <4>3. QED
        BY <3>1, <4>1, <4>2
  <2>7. Len(back) = Len(b)
    BY <1>1, <1>2, <1>4, <2>0, <2>2
  <2>8. back = b
    BY <1>4, <2>2, <2>6, <2>7, SeqEqual
  <2>9. QED
    BY <2>5, <2>8 DEF a, b, m
<1>7. QED
  BY <1>5, <1>6 DEF front, back, u
-----------------------------------------------------------------------------
(* Flattened sequences.                                                    *)

FlattenTo(g, n, s) == g = [i \in 1 .. n |-> IF i = 1 THEN s[i] ELSE g[i - 1] \o s[i]]

Same(n, s, t) == \A i \in 1 .. n : t[i] = s[i]

\* The recursive function in FlattenSeq exists: by its smallest missing length.
LEMMA FlattenExists ==
  ASSUME NEW s, Len(s) \in Nat, NEW n \in 0 .. Len(s)
  PROVE  \E g : FlattenTo(g, n, s)
<1> DEFINE Bad == {k \in 0 .. Len(s) : ~ \E g : FlattenTo(g, k, s)}
<1> SUFFICES ASSUME Bad # {} PROVE FALSE
  OBVIOUS
<1>1. PICK m \in Bad : \A k \in Bad : m <= k
  <2>1. Bad \in SUBSET Nat
    OBVIOUS
  <2>2. QED
    BY <2>1, LeastNat
<1>2. m # 0
  <2>1. FlattenTo([i \in 1 .. 0 |-> 0], 0, s)
    BY DEF FlattenTo
  <2>2. QED
    BY <2>1
<1>3. PICK g : FlattenTo(g, m - 1, s)
  BY <1>1, <1>2
<1> DEFINE h == [i \in 1 .. m |-> IF i = m THEN (IF m = 1 THEN s[m] ELSE g[m - 1] \o s[m]) ELSE g[i]]
<1>4. FlattenTo(h, m, s)
  <2>1. ASSUME NEW i \in 1 .. m PROVE h[i] = IF i = 1 THEN s[i] ELSE h[i - 1] \o s[i]
    <3>1. CASE i = m
      BY <1>2, <3>1
    <3>2. CASE i # m
      <4>1. i \in 1 .. m - 1 /\ h[i] = g[i]
        BY <1>1, <3>2
      <4>2. g[i] = IF i = 1 THEN s[i] ELSE g[i - 1] \o s[i]
        BY <1>3, <4>1, Zenon DEF FlattenTo
      <4>3. i # 1 => h[i - 1] = g[i - 1]
        BY <4>1
      <4>4. QED
        BY <4>1, <4>2, <4>3, Zenon
    <3>3. QED
      BY <3>1, <3>2
  <2>2. QED
    BY <2>1, Zenon DEF FlattenTo
<1>5. QED
  BY <1>1, <1>4

LEMMA FlattenUnique ==
  ASSUME NEW s, NEW t, NEW n \in Nat, NEW m \in Nat, NEW g, NEW h,
         FlattenTo(g, n, s), FlattenTo(h, m, t), n <= m, Same(n, s, t)
  PROVE  Same(n, g, h)
<1> DEFINE Bad == {i \in 1 .. n : g[i] # h[i]}
<1> SUFFICES ASSUME Bad # {} PROVE FALSE
  BY DEF Same
<1>1. PICK k \in Bad : \A i \in Bad : k <= i
  <2>1. Bad \in SUBSET Nat
    OBVIOUS
  <2>2. QED
    BY <2>1, LeastNat
<1>2. k \in 1 .. n /\ k \in 1 .. m /\ g[k] # h[k]
  BY <1>1
<1>3. g[k] = IF k = 1 THEN s[k] ELSE g[k - 1] \o s[k]
  BY <1>2, Zenon DEF FlattenTo
<1>4. h[k] = IF k = 1 THEN t[k] ELSE h[k - 1] \o t[k]
  BY <1>2, Zenon DEF FlattenTo
<1>5. k # 1 => g[k - 1] = h[k - 1]
  BY <1>1, <1>2
<1>6. QED
  BY <1>2, <1>3, <1>4, <1>5, Zenon DEF Same

LEMMA FlattenIs ==
  ASSUME NEW s, Len(s) \in Nat \ {0}
  PROVE  \E g : FlattenTo(g, Len(s), s) /\ FlattenSeq(s) = g[Len(s)]
<1>1. \E g : FlattenTo(g, Len(s), s)
  BY FlattenExists
<1> DEFINE c == CHOOSE g : FlattenTo(g, Len(s), s)
<1>2. FlattenTo(c, Len(s), s)
  BY <1>1, Zenon
<1>3. FlattenSeq(s) = c[Len(s)]
  BY Zenon DEF FlattenSeq, FlattenTo
<1>4. QED
  BY <1>2, <1>3

LEMMA FlattenEmpty == FlattenSeq(<<>>) = <<>>
BY DEF FlattenSeq

LEMMA FlattenOne ==
  ASSUME NEW b PROVE FlattenSeq(<<b>>) = b
<1>1. Len(<<b>>) = 1 /\ 1 \in Nat \ {0}
  OBVIOUS
<1>2. PICK g : FlattenTo(g, 1, <<b>>) /\ FlattenSeq(<<b>>) = g[1]
  BY <1>1, FlattenIs, Zenon
<1>3. 1 \in 1 .. 1
  OBVIOUS
<1>4. g[1] = <<b>>[1]
  BY <1>2, <1>3, Zenon DEF FlattenTo
<1>5. QED
  BY <1>2, <1>4

\* One more sequence at the end.
LEMMA FlattenAppend ==
  ASSUME NEW S, NEW s \in Seq(Seq(S)), NEW b \in Seq(S), s # <<>>
  PROVE  FlattenSeq(Append(s, b)) = FlattenSeq(s) \o b
<1> DEFINE t == Append(s, b)
           n == Len(s)
           m == n + 1
<1>1. n \in Nat /\ n # 0
  BY LenProperties, EmptySeq
<1>2. Len(t) = m /\ t[m] = b /\ \A i \in 1 .. n : t[i] = s[i]
  BY AppendProperties
<1> HIDE DEF t, n
<1>3. m \in Nat /\ m # 0 /\ n <= m /\ m \in 1 .. m /\ m # 1 /\ m - 1 = n /\ n \in 1 .. n
  BY <1>1
<1> HIDE DEF m
<1>4. PICK g : FlattenTo(g, n, s) /\ FlattenSeq(s) = g[n]
  BY <1>1, FlattenIs DEF n
<1>5. PICK h : FlattenTo(h, m, t) /\ FlattenSeq(t) = h[m]
  BY <1>1, <1>2, <1>3, FlattenIs
<1>6. h[m] = h[m - 1] \o t[m]
  BY <1>3, <1>5, Zenon DEF FlattenTo
<1>7. Same(n, g, h)
  <2>1. Same(n, s, t)
    BY <1>2 DEF Same
  <2>2. QED
    BY <1>1, <1>3, <1>4, <1>5, <2>1, FlattenUnique
<1>8. h[n] = g[n]
  BY <1>3, <1>7 DEF Same
<1>9. QED
  BY <1>2, <1>3, <1>4, <1>5, <1>6, <1>8 DEF t

LEMMA FlattenType ==
  ASSUME NEW S, NEW s \in Seq(Seq(S))
  PROVE  FlattenSeq(s) \in Seq(S)
<1> DEFINE Bad == {n \in Nat : \E u \in Seq(Seq(S)) : Len(u) = n /\ FlattenSeq(u) \notin Seq(S)}
<1> SUFFICES ASSUME Bad # {} PROVE FALSE
  BY LenProperties
<1>1. PICK n \in Bad : \A k \in Bad : n <= k
  <2>1. Bad \in SUBSET Nat
    OBVIOUS
  <2>2. QED
    BY <2>1, LeastNat
<1>2. PICK u \in Seq(Seq(S)) : Len(u) = n /\ FlattenSeq(u) \notin Seq(S)
  BY <1>1
<1>3. u # <<>>
  BY <1>2, FlattenEmpty, EmptySeq
<1>4. PICK v \in Seq(Seq(S)), b \in Seq(S) : u = Append(v, b)
  BY <1>3, SequenceEmptyOrAppend
<1>5. Len(v) \in Nat /\ Len(u) = Len(v) + 1
  BY <1>4, LenProperties, AppendProperties
<1>6. FlattenSeq(v) \in Seq(S)
  <2>1. ~ (n <= Len(v))
    BY <1>2, <1>5
  <2>2. Len(v) \notin Bad
    BY <1>1, <2>1, Zenon
  <2>3. QED
    BY <1>5, <2>2
<1>7. CASE v = <<>>
  <2>1. u = <<b>>
    BY <1>4, <1>7
  <2>2. QED
    BY <1>2, <2>1, FlattenOne
<1>8. CASE v # <<>>
  BY <1>2, <1>4, <1>6, <1>8, FlattenAppend, ConcatProperties
<1>9. QED
  BY <1>7, <1>8

\* One more sequence at the front.
LEMMA FlattenBoth ==
  ASSUME NEW S, NEW v \in Seq(Seq(S)), NEW b \in Seq(S), NEW c \in Seq(S),
         FlattenSeq(<<b>> \o v) = b \o FlattenSeq(v)
  PROVE  FlattenSeq(<<b>> \o Append(v, c)) = b \o FlattenSeq(Append(v, c))
<1> DEFINE w == <<b>> \o v
<1>1. <<b>> \in Seq(Seq(S)) /\ <<c>> \in Seq(Seq(S))
  OBVIOUS
<1>2. w \in Seq(Seq(S)) /\ w # <<>>
  <2>1. w \in Seq(Seq(S)) /\ Len(w) = Len(<<b>>) + Len(v) /\ Len(v) \in Nat
    BY <1>1, ConcatProperties, LenProperties
  <2>2. QED
    BY <2>1
<1>3. <<b>> \o Append(v, c) = Append(w, c)
  <2>1. (<<b>> \o v) \o <<c>> = <<b>> \o (v \o <<c>>)
    BY <1>1, Associative
  <2> HIDE DEF w
  <2>2. Append(v, c) = v \o <<c>> /\ Append(w, c) = w \o <<c>>
    BY <1>2, AppendIsConcat, Zenon
  <2>3. QED
    BY <2>1, <2>2, Zenon DEF w
<1>4. FlattenSeq(<<b>> \o Append(v, c)) = (b \o FlattenSeq(v)) \o c
  BY <1>2, <1>3, FlattenAppend
<1>5. CASE v = <<>>
  <2>1. Append(v, c) = <<c>>
    BY <1>5
  <2>2. FlattenSeq(Append(v, c)) = c /\ b \o FlattenSeq(v) = b
    BY <1>5, <2>1, FlattenOne, FlattenEmpty, ConcatEmptySeq
  <2>3. QED
    BY <1>4, <2>2
<1>6. CASE v # <<>>
  <2>1. FlattenSeq(Append(v, c)) = FlattenSeq(v) \o c
    BY <1>6, FlattenAppend
  <2>2. FlattenSeq(v) \in Seq(S)
    BY FlattenType
  <2>3. (b \o FlattenSeq(v)) \o c = b \o (FlattenSeq(v) \o c)
    BY <2>2, Associative, SMTT(60)
  <2>4. QED
    BY <1>4, <2>1, <2>3
<1>7. QED
  BY <1>5, <1>6

LEMMA FlattenFront ==
  ASSUME NEW S, NEW s \in Seq(Seq(S)), NEW b \in Seq(S)
  PROVE  FlattenSeq(<<b>> \o s) = b \o FlattenSeq(s)
<1> DEFINE Fails(u) == FlattenSeq(<<b>> \o u) # b \o FlattenSeq(u)
           Bad == {n \in Nat : \E u \in Seq(Seq(S)) : Len(u) = n /\ Fails(u)}
<1>1. ASSUME Bad # {} PROVE FALSE
  <2>1. PICK n \in Bad : \A k \in Bad : n <= k
    <3>1. Bad \in SUBSET Nat
      OBVIOUS
    <3>2. QED
      BY <1>1, <3>1, LeastNat
  <2>2. PICK u \in Seq(Seq(S)) : Len(u) = n /\ Fails(u)
    BY <2>1
  <2>3. u # <<>>
    <3>1. ASSUME u = <<>> PROVE FALSE
      <4>1. <<b>> \o u = <<b>>
        BY <3>1, ConcatEmptySeq
      <4>2. b \o FlattenSeq(u) = b
        BY <3>1, FlattenEmpty, ConcatEmptySeq
      <4>3. QED
        BY <2>2, <4>1, <4>2, FlattenOne
    <3>2. QED
      BY <3>1
  <2>4. PICK v \in Seq(Seq(S)), c \in Seq(S) : u = Append(v, c)
    BY <2>2, <2>3, SequenceEmptyOrAppend
  <2>5. Len(v) \in Nat /\ Len(u) = Len(v) + 1
    BY <2>4, LenProperties, AppendProperties
  <2>6. ~ Fails(v)
    <3>1. ~ (n <= Len(v))
      BY <2>2, <2>5
    <3>2. Len(v) \notin Bad
      BY <2>1, <3>1, Zenon
    <3>3. QED
      BY <2>4, <2>5, <3>2
  <2>7. QED
    BY <2>2, <2>4, <2>6, FlattenBoth
<1>2. QED
  BY <1>1, LenProperties

\* What is left of a sequence of sequences begins with the next of them.
LEMMA FlattenRest ==
  ASSUME NEW S, NEW s \in Seq(Seq(S)), NEW n \in 0 .. Len(s)
  PROVE  /\ FlattenSeq(SubSeq(s, n + 1, Len(s))) \in Seq(S)
         /\ n = Len(s) => FlattenSeq(SubSeq(s, n + 1, Len(s))) = <<>>
         /\ n < Len(s) => FlattenSeq(SubSeq(s, n + 1, Len(s))) =
                            s[n + 1] \o FlattenSeq(SubSeq(s, n + 2, Len(s)))
<1>1. Len(s) \in Nat /\ n \in Nat
  BY LenProperties
<1>2. SubSeq(s, n + 1, Len(s)) \in Seq(Seq(S))
  BY SuffixIs
<1>3. n = Len(s) => SubSeq(s, n + 1, Len(s)) = <<>>
  <2>1. ASSUME n = Len(s) PROVE SubSeq(s, n + 1, Len(s)) = <<>>
    <3>1. n + 1 \in Int /\ Len(s) \in Int /\ Len(s) < n + 1
      BY <1>1, <2>1
    <3>2. QED
      BY <3>1, SubSeqEmpty
  <2>2. QED
    BY <2>1
<1>4. ASSUME n < Len(s)
      PROVE  FlattenSeq(SubSeq(s, n + 1, Len(s))) = s[n + 1] \o FlattenSeq(SubSeq(s, n + 2, Len(s)))
  <2> DEFINE m == n + 1
  <2>1. m \in 1 .. Len(s) /\ Len(s) \in m .. Len(s) /\ m \in 0 .. Len(s) /\ m + 1 = n + 2
    BY <1>1, <1>4
  <2> HIDE DEF m
  <2>2. SubSeq(s, m, Len(s)) = <<s[m]>> \o SubSeq(s, m + 1, Len(s))
    BY <2>1, SubSeqRecursiveFirst
  <2>3. SubSeq(s, m + 1, Len(s)) \in Seq(Seq(S)) /\ s[m] \in Seq(S)
    BY <2>1, SuffixIs, ElementOfSeq
  <2>4. FlattenSeq(SubSeq(s, m, Len(s))) = s[m] \o FlattenSeq(SubSeq(s, m + 1, Len(s)))
    BY <2>2, <2>3, FlattenFront
  <2>5. QED
    BY <2>1, <2>4 DEF m
<1>5. QED
  BY <1>2, <1>3, <1>4, FlattenType, FlattenEmpty
-----------------------------------------------------------------------------
(* Numbers of 1, 2, 4 and 8 bytes.                                         *)

LEMMA RadixFacts ==
  /\ Radix \in Nat /\ Radix > 3 /\ Radix2 \in Nat /\ Radix2 > Radix /\ Radix2 > 3 * Radix
  /\ Radix4 \in Nat /\ Radix4 > Radix2 /\ Radix4 > 3 * Radix2 /\ Radix8 \in Nat /\ Radix8 > Radix4
  /\ Radix2 = Radix * Radix /\ Radix4 = Radix2 * Radix2 /\ Radix8 = Radix4 * Radix4
<1>1. Radix \in Nat /\ Radix > 3
  BY MessagesAssumption DEF MessagesAssumption
<1>2. \A a \in Nat : a > 3 => a * a \in Nat /\ a * a > 3 * a /\ a * a > a /\ a * a > 3
  OBVIOUS
<1>3. Radix2 \in Nat /\ Radix2 > 3 * Radix /\ Radix2 > Radix /\ Radix2 > 3 /\ Radix2 = Radix * Radix
  BY <1>1, <1>2 DEF Radix2
<1>4. Radix4 \in Nat /\ Radix4 > 3 * Radix2 /\ Radix4 > Radix2 /\ Radix4 > 3 /\ Radix4 = Radix2 * Radix2
  BY <1>2, <1>3 DEF Radix4
<1>5. Radix8 \in Nat /\ Radix8 > Radix4 /\ Radix8 = Radix4 * Radix4
  BY <1>2, <1>4 DEF Radix8
<1>6. QED
  BY <1>1, <1>3, <1>4, <1>5

LEMMA RadixType ==
  /\ Radix \in Nat /\ Radix > 0 /\ Radix2 \in Nat /\ Radix2 > 0 /\ Radix4 \in Nat /\ Radix4 > 0
  /\ Radix8 \in Nat /\ Radix8 > 0
BY RadixFacts

LEMMA DivMod ==
  ASSUME NEW v \in Nat, NEW m \in Nat, m > 0
  PROVE  /\ v \div m \in Nat /\ v % m \in 0 .. m - 1 /\ (v \div m) * m + (v % m) = v
         /\ v < m * m => v \div m \in 0 .. m - 1
<1>1. v \div m \in Nat /\ v % m \in 0 .. m - 1 /\ (v \div m) * m + (v % m) = v
  OBVIOUS
<1>2. ASSUME v < m * m PROVE v \div m < m
  <2>1. PICK q \in Nat : q = v \div m
    BY <1>1
  <2>2. PICK r \in 0 .. m - 1 : r = v % m
    BY <1>1
  <2>3. q * m + r = v
    BY <1>1, <2>1, <2>2
  <2>4. \A a, b \in Nat : a >= b => a * b >= b * b
    OBVIOUS
  <2>5. q >= m => q * m >= m * m
    BY <2>4
  <2>6. \A a, b \in Nat : a * b \in Nat
    OBVIOUS
  <2>7. PICK x \in Nat : x = q * m
    BY <2>6
  <2>8. PICK y \in Nat : y = m * m
    BY <2>6
  <2>9. QED
    BY <1>2, <2>1, <2>2, <2>3, <2>5, <2>7, <2>8
<1>3. QED
  BY <1>1, <1>2

\* The digits of a number: a digit twice is a number below the square.
LEMMA Digits ==
  ASSUME NEW a \in Nat, NEW b \in Nat, NEW m \in Nat, a < m, b < m
  PROVE  a * m + b \in 0 .. m * m - 1
<1>1. a + 1 <= m
  OBVIOUS
<1>2. \A x, y, z \in Nat : x <= y => x * z <= y * z
  OBVIOUS
<1>3. (a + 1) * m <= m * m
  BY <1>1, <1>2
<1>4. (a + 1) * m = a * m + m
  OBVIOUS
<1>5. \A x, y \in Nat : x * y \in Nat
  OBVIOUS
<1>6. PICK x \in Nat : x = a * m
  BY <1>5
<1>7. PICK y \in Nat : y = m * m
  BY <1>5
<1>8. QED
  BY <1>3, <1>4, <1>6, <1>7

LEMMA ByteFacts == Byte \subseteq Nat /\ \A b \in Byte : b < Radix
BY RadixFacts DEF Byte

LEMMA TwoTwo ==
  ASSUME NEW S, NEW s \in Seq(S), NEW t \in Seq(S), Len(s) = 2, Len(t) = 2
  PROVE  /\ s \o t \in Seq(S) /\ Len(s \o t) = 4
         /\ (s \o t)[1] = s[1]
         /\ (s \o t)[2] = s[2]
         /\ (s \o t)[3] = t[1]
         /\ (s \o t)[4] = t[2]
<1>1. PICK u : u = s \o t
  OBVIOUS
<1>2. /\ u \in Seq(S) /\ Len(u) = Len(s) + Len(t)
      /\ \A i \in 1 .. Len(s) + Len(t) : u[i] = IF i <= Len(s) THEN s[i] ELSE t[i - Len(s)]
  BY <1>1, ConcatProperties
<1>3. /\ u \in Seq(S) /\ Len(u) = 4
      /\ \A i \in 1 .. 4 : u[i] = IF i <= 2 THEN s[i] ELSE t[i - 2]
  BY <1>2
<1>4. u[1] = s[1]
  BY <1>3
<1>5. u[2] = s[2]
  BY <1>3
<1>6. u[3] = t[1]
  BY <1>3
<1>7. u[4] = t[2]
  BY <1>3
<1>8. QED
  BY <1>1, <1>3, <1>4, <1>5, <1>6, <1>7

LEMMA FourFour ==
  ASSUME NEW S, NEW s \in Seq(S), NEW t \in Seq(S), Len(s) = 4, Len(t) = 4
  PROVE  /\ s \o t \in Seq(S) /\ Len(s \o t) = 8
         /\ (s \o t)[1] = s[1]
         /\ (s \o t)[2] = s[2]
         /\ (s \o t)[3] = s[3]
         /\ (s \o t)[4] = s[4]
         /\ (s \o t)[5] = t[1]
         /\ (s \o t)[6] = t[2]
         /\ (s \o t)[7] = t[3]
         /\ (s \o t)[8] = t[4]
<1>1. PICK u : u = s \o t
  OBVIOUS
<1>2. /\ u \in Seq(S) /\ Len(u) = Len(s) + Len(t)
      /\ \A i \in 1 .. Len(s) + Len(t) : u[i] = IF i <= Len(s) THEN s[i] ELSE t[i - Len(s)]
  BY <1>1, ConcatProperties
<1>3. /\ u \in Seq(S) /\ Len(u) = 8
      /\ \A i \in 1 .. 8 : u[i] = IF i <= 4 THEN s[i] ELSE t[i - 4]
  BY <1>2
<1>4. u[1] = s[1]
  BY <1>3
<1>5. u[2] = s[2]
  BY <1>3
<1>6. u[3] = s[3]
  BY <1>3
<1>7. u[4] = s[4]
  BY <1>3
<1>8. u[5] = t[1]
  BY <1>3
<1>9. u[6] = t[2]
  BY <1>3
<1>10. u[7] = t[3]
  BY <1>3
<1>11. u[8] = t[4]
  BY <1>3
<1>12. QED
  BY <1>1, <1>3, <1>4, <1>5, <1>6, <1>7, <1>8, <1>9, <1>10, <1>11

LEMMA Store2Is ==
  ASSUME NEW v \in Nat
  PROVE  /\ Store2(v) \in Seq(Byte) /\ Len(Store2(v)) = 2
         /\ v < Radix2 => Load2(Store2(v), 1) = v
<1>1. v \div Radix \in Nat /\ v % Radix \in Byte /\ (v \div Radix) * Radix + (v % Radix) = v
  BY RadixFacts, DivMod DEF Byte
<1>2. (v \div Radix) % Radix \in Byte
  BY <1>1, RadixFacts, DivMod DEF Byte
<1> DEFINE a == (v \div Radix) % Radix
           b == v % Radix
<1>3. <<a, b>> \in Seq(Byte) /\ Len(<<a, b>>) = 2 /\ <<a, b>>[1] = a /\ <<a, b>>[1 + 1] = b
  BY <1>1, <1>2
<1>4. ASSUME v < Radix2 PROVE a = v \div Radix
  <2>1. v \div Radix \in 0 .. Radix - 1
    BY <1>4, RadixFacts, DivMod
  <2>2. \A x \in 0 .. Radix - 1 : x % Radix = x
    BY RadixFacts
  <2>3. QED
    BY <2>1, <2>2
<1>5. QED
  BY <1>1, <1>3, <1>4 DEF Store2, Load2

LEMMA Store4Is ==
  ASSUME NEW v \in Nat
  PROVE  /\ Store4(v) \in Seq(Byte) /\ Len(Store4(v)) = 4
         /\ v < Radix4 => Load4(Store4(v), 1) = v
<1> DEFINE q == v \div Radix2
           r == v % Radix2
           x == Store2(q)
           y == Store2(r)
<1>1. q \in Nat /\ r \in Nat /\ r < Radix2 /\ q * Radix2 + r = v
  <2>1. q \in Nat /\ r \in 0 .. Radix2 - 1 /\ q * Radix2 + r = v
    BY RadixType, DivMod, Zenon
  <2> HIDE DEF q, r
  <2>2. QED
    BY <2>1, RadixType
<1>2. v < Radix4 => q < Radix2
  BY RadixFacts, DivMod
<1> HIDE DEF q, r
<1>3. x \in Seq(Byte) /\ Len(x) = 2 /\ (q < Radix2 => Load2(x, 1) = q)
  BY <1>1, Store2Is
<1>4. y \in Seq(Byte) /\ Len(y) = 2 /\ Load2(y, 1) = r
  BY <1>1, Store2Is
<1> HIDE DEF x, y
<1>5. /\ x \o y \in Seq(Byte) /\ Len(x \o y) = 4
      /\ (x \o y)[1] = x[1] /\ (x \o y)[2] = x[2] /\ (x \o y)[3] = y[1] /\ (x \o y)[4] = y[2]
  BY <1>3, <1>4, TwoTwo
<1>6. Load2(x \o y, 1) = Load2(x, 1) /\ Load2(x \o y, 1 + 2) = Load2(y, 1)
  BY <1>5 DEF Load2
<1>7. Store4(v) = x \o y
  BY DEF Store4, x, y, q, r
<1>8. QED
  BY <1>1, <1>2, <1>3, <1>4, <1>5, <1>6, <1>7 DEF Load4

LEMMA Store8Is ==
  ASSUME NEW v \in Nat
  PROVE  /\ Store8(v) \in Seq(Byte) /\ Len(Store8(v)) = 8
         /\ v < Radix8 => Load4(Store8(v), 1) * Radix4 + Load4(Store8(v), 5) = v
<1> DEFINE q == v \div Radix4
           r == v % Radix4
           x == Store4(q)
           y == Store4(r)
<1>1. q \in Nat /\ r \in Nat /\ r < Radix4 /\ q * Radix4 + r = v
  <2>1. q \in Nat /\ r \in 0 .. Radix4 - 1 /\ q * Radix4 + r = v
    BY RadixType, DivMod, Zenon
  <2> HIDE DEF q, r
  <2>2. QED
    BY <2>1, RadixType
<1>2. v < Radix8 => q < Radix4
  BY RadixFacts, DivMod
<1> HIDE DEF q, r
<1>3. x \in Seq(Byte) /\ Len(x) = 4 /\ (q < Radix4 => Load4(x, 1) = q)
  BY <1>1, Store4Is
<1>4. y \in Seq(Byte) /\ Len(y) = 4 /\ Load4(y, 1) = r
  BY <1>1, Store4Is
<1> HIDE DEF x, y
<1>5. /\ x \o y \in Seq(Byte) /\ Len(x \o y) = 8
      /\ (x \o y)[1] = x[1] /\ (x \o y)[2] = x[2] /\ (x \o y)[3] = x[3] /\ (x \o y)[4] = x[4]
      /\ (x \o y)[5] = y[1] /\ (x \o y)[6] = y[2] /\ (x \o y)[7] = y[3] /\ (x \o y)[8] = y[4]
  BY <1>3, <1>4, FourFour
<1>6. Load4(x \o y, 1) = Load4(x, 1) /\ Load4(x \o y, 5) = Load4(y, 1)
  BY <1>5, SMTT(60) DEF Load4, Load2
<1>7. Store8(v) = x \o y
  BY DEF Store8, x, y, q, r
<1>8. QED
  BY <1>1, <1>2, <1>3, <1>4, <1>5, <1>6, <1>7

LEMMA LoadIs ==
  ASSUME NEW s
  PROVE  /\ Len(s) = 1 => LoadBE(s) = s[1]
         /\ Len(s) = 2 => LoadBE(s) = Load2(s, 1)
         /\ Len(s) = 4 => LoadBE(s) = Load4(s, 1)
         /\ Len(s) = 8 => LoadBE(s) = Load4(s, 1) * Radix4 + Load4(s, 5)
BY DEF LoadBE

\* What is stored is loaded again.
Widths == {1, 2, 4, 8}
LEMMA StoreLoad ==
  ASSUME NEW w \in Widths, NEW v \in Nat
  PROVE  /\ StoreBE(v, w) \in Seq(Byte) /\ Len(StoreBE(v, w)) = w
         /\ v < Values(w) => LoadBE(StoreBE(v, w)) = v
<1>1. CASE w = 1
  <2>1. StoreBE(v, 1) = <<v % Radix>> /\ Values(1) = Radix
    BY DEF StoreBE, Values
  <2>2. v % Radix \in Byte
    BY RadixFacts, DivMod DEF Byte
  <2>3. v < Radix => v % Radix = v
    BY RadixFacts
  <2>4. <<v % Radix>> \in Seq(Byte) /\ Len(<<v % Radix>>) = 1 /\ <<v % Radix>>[1] = v % Radix
    BY <2>2
  <2>5. Len(<<v % Radix>>) = 1 => LoadBE(<<v % Radix>>) = <<v % Radix>>[1]
    BY LoadIs
  <2>6. QED
    BY <1>1, <2>1, <2>3, <2>4, <2>5
<1>2. CASE w = 2
  <2>1. StoreBE(v, 2) = Store2(v) /\ Values(2) = Radix2
    BY DEF StoreBE, Values
  <2>2. Len(Store2(v)) = 2 => LoadBE(Store2(v)) = Load2(Store2(v), 1)
    BY DEF LoadBE
  <2>3. QED
    BY <1>2, <2>1, <2>2, Store2Is
<1>3. CASE w = 4
  <2>1. StoreBE(v, 4) = Store4(v) /\ Values(4) = Radix4
    BY DEF StoreBE, Values
  <2>2. Len(Store4(v)) = 4 => LoadBE(Store4(v)) = Load4(Store4(v), 1)
    BY DEF LoadBE
  <2>3. QED
    BY <1>3, <2>1, <2>2, Store4Is
<1>4. CASE w = 8
  <2>1. StoreBE(v, 8) = Store8(v) /\ Values(8) = Radix8
    BY DEF StoreBE, Values
  <2>2. Len(Store8(v)) = 8 => LoadBE(Store8(v)) = Load4(Store8(v), 1) * Radix4 + Load4(Store8(v), 5)
    BY DEF LoadBE
  <2>3. QED
    BY <1>4, <2>1, <2>2, Store8Is
<1>5. QED
  BY <1>1, <1>2, <1>3, <1>4 DEF Widths

LEMMA ValuesFacts ==
  ASSUME NEW w \in Widths
  PROVE  /\ Values(w) \in Nat /\ Values(w) > 1 /\ Values(w) \div 2 \in Nat
         /\ Values(w) \div 2 <= Values(w)
<1>1. Values(w) \in Nat /\ Values(w) > 1
  BY RadixFacts DEF Values, Widths
<1>2. \A a \in Nat : a \div 2 \in Nat /\ a \div 2 <= a
  OBVIOUS
<1>3. QED
  BY <1>1, <1>2

\* A signed number is stored as its unsigned counterpart.
LEMMA SignedIs ==
  ASSUME NEW w \in Widths, NEW u \in 0 .. Values(w) - 1
  PROVE  ToUnsigned(ToSigned(u, w), w) = u
<1> DEFINE n == Values(w)
<1>1. n \in Nat /\ n > 1
  BY ValuesFacts
<1>2. u \in 0 .. n - 1
  OBVIOUS
<1> HIDE DEF n
<1>3. u % n = u /\ (u - n) % n = u
  BY <1>1, <1>2
<1>4. QED
  BY <1>3 DEF ToUnsigned, ToSigned, n
-----------------------------------------------------------------------------
(* One field: what is read is what was written, and nothing less suffices. *)

Kinded == {"u8", "version", "flag", "u32", "i32", "u64", "i64", "str", "optional", "bitmap", "digest"}
Unsigneds == {"u8", "u32", "u64"}
Signeds == {"i32", "i64"}

LEMMA FlatKinds ==
  ASSUME NEW f \in FlatFields
  PROVE  f.k \in Kinded
<1>1. DOMAIN Width = {"u8", "flag", "version", "u32", "i32", "u64", "i64"}
  BY DEF Width
<1>2. PICK k \in DOMAIN Width \cup {"str", "optional", "bitmap", "digest"} : f = Field(k)
  BY DEF FlatFields
<1>3. f.k = k
  BY <1>2 DEF Field
<1>4. QED
  BY <1>1, <1>2, <1>3 DEF Kinded

LEMMA WidthIs ==
  /\ Width["u8"] = 1 /\ Width["version"] = 1 /\ Width["flag"] = 1 /\ Width["u32"] = 4
  /\ Width["i32"] = 4 /\ Width["u64"] = 8 /\ Width["i64"] = 8
BY DEF Width

LEMMA PutFlatIs ==
  ASSUME NEW f, NEW v
  PROVE  /\ f.k \in Unsigneds => PutFlat(f, v) = StoreBE(v, Width[f.k])
         /\ f.k \in Signeds => PutFlat(f, v) = StoreBE(ToUnsigned(v, Width[f.k]), Width[f.k])
         /\ f.k = "version" => PutFlat(f, v) = StoreBE(v, Width[f.k])
         /\ f.k = "flag" => PutFlat(f, v) = StoreBE(IF v THEN 1 ELSE 0, 1)
         /\ f.k = "str" => PutFlat(f, v) = StoreBE(Len(v), 2) \o v
         /\ f.k = "optional" =>
              PutFlat(f, v) = IF v = <<>> THEN <<0>> ELSE <<1>> \o StoreBE(Len(v[1]), 2) \o v[1]
         /\ f.k = "bitmap" => PutFlat(f, v) = StoreBE(Len(v), 4) \o v
         /\ f.k \in {"digest", "rest"} => PutFlat(f, v) = v
BY DEF PutFlat, Unsigneds, Signeds

LEMMA GetFlatIs ==
  ASSUME NEW f, NEW in
  PROVE  /\ f.k \in Unsigneds => GetFlat(in, f) = Unsigned(in, Width[f.k])
         /\ f.k \in Signeds => GetFlat(in, f) = Signed(in, Width[f.k])
         /\ f.k = "version" => GetFlat(in, f) = get_version(in)
         /\ f.k = "flag" => GetFlat(in, f) = Flag(in)
         /\ f.k = "str" => GetFlat(in, f) = get_str(in)
         /\ f.k = "optional" => GetFlat(in, f) = get_optional(in)
         /\ f.k = "bitmap" => GetFlat(in, f) = get_counted(in, 4, MaxBitmap)
         /\ f.k = "digest" => GetFlat(in, f) = Read(in, DigestLen, First(in, DigestLen))
         /\ f.k = "rest" => GetFlat(in, f) = Read(in, Len(in.left), in.left)
BY DEF GetFlat, Unsigneds, Signeds

LEMMA FlatValueIs ==
  ASSUME NEW f, NEW v, FlatValue(f, v)
  PROVE  /\ f.k \in Unsigneds => v \in 0 .. Values(Width[f.k]) - 1
         /\ f.k \in Signeds => \E u \in 0 .. Values(Width[f.k]) - 1 : v = ToSigned(u, Width[f.k])
         /\ f.k = "version" => v = PROTOCOL_VERSION
         /\ f.k = "flag" => v \in BOOLEAN
         /\ f.k = "optional" => v \in Seq(Seq(Byte)) /\ Len(v) <= 1
         /\ f.k \in {"str", "bitmap", "digest", "rest"} => v \in Seq(Byte)
BY DEF FlatValue, Unsigneds, Signeds

LEMMA FitsFlatIs ==
  ASSUME NEW f, NEW v, FitsFlat(f, v)
  PROVE  /\ f.k = "str" => Len(v) <= MaxStringLen
         /\ f.k = "optional" => (v # <<>> => Len(v[1]) <= MaxStringLen)
         /\ f.k = "digest" => Len(v) = DigestLen
         /\ f.k = "bitmap" => Len(v) <= MaxBitmap
BY DEF FitsFlat

\* A reader with these bytes before it and these values behind it, and one
\* that has failed.
At(bytes, vals) == [ok |-> TRUE, left |-> bytes, vals |-> vals]
Dead(in) == in = [ok |-> FALSE, left |-> in.left, vals |-> in.vals]

LEMMA AtIs ==
  ASSUME NEW b, NEW vals
  PROVE  At(b, vals).ok /\ At(b, vals).left = b /\ At(b, vals).vals = vals
BY DEF At

LEMMA AtLeft ==
  ASSUME NEW b, NEW vals, NEW c
  PROVE  [At(b, vals) EXCEPT !.left = c] = At(c, vals)
<1> DEFINE x == [At(b, vals) EXCEPT !.left = c]
           y == At(c, vals)
<1>1. DOMAIN x = DOMAIN y
  BY DEF At
<1>2. x = [k \in DOMAIN x |-> x[k]] /\ y = [k \in DOMAIN y |-> y[k]]
  BY DEF At
<1>3. DOMAIN y = {"ok", "left", "vals"} /\ x.ok = y.ok /\ x.left = y.left /\ x.vals = y.vals
  BY DEF At
<1> HIDE DEF x, y
<1>4. \A k \in DOMAIN y : x[k] = y[k]
  BY <1>3
<1>5. x = y
  BY <1>1, <1>2, <1>4
<1>6. QED
  BY <1>5 DEF x, y

LEMMA AtVals ==
  ASSUME NEW b, NEW vals, NEW c
  PROVE  [At(b, vals) EXCEPT !.vals = c] = At(b, c)
<1> DEFINE x == [At(b, vals) EXCEPT !.vals = c]
           y == At(b, c)
<1>1. DOMAIN x = DOMAIN y
  BY DEF At
<1>2. x = [k \in DOMAIN x |-> x[k]] /\ y = [k \in DOMAIN y |-> y[k]]
  BY DEF At
<1>3. DOMAIN y = {"ok", "left", "vals"} /\ x.ok = y.ok /\ x.left = y.left /\ x.vals = y.vals
  BY DEF At
<1> HIDE DEF x, y
<1>4. \A k \in DOMAIN y : x[k] = y[k]
  BY <1>3
<1>5. x = y
  BY <1>1, <1>2, <1>4
<1>6. QED
  BY <1>5 DEF x, y

LEMMA AtFailed ==
  ASSUME NEW b, NEW vals
  PROVE  [At(b, vals) EXCEPT !.ok = FALSE] = [ok |-> FALSE, left |-> b, vals |-> vals]
<1> DEFINE x == [At(b, vals) EXCEPT !.ok = FALSE]
           y == [ok |-> FALSE, left |-> b, vals |-> vals]
<1>1. DOMAIN x = DOMAIN y
  BY DEF At
<1>2. x = [k \in DOMAIN x |-> x[k]] /\ y = [k \in DOMAIN y |-> y[k]]
  BY DEF At
<1>3. DOMAIN y = {"ok", "left", "vals"} /\ x.ok = y.ok /\ x.left = y.left /\ x.vals = y.vals
  BY DEF At
<1> HIDE DEF x, y
<1>4. \A k \in DOMAIN y : x[k] = y[k]
  BY <1>3
<1>5. x = y
  BY <1>1, <1>2, <1>4
<1>6. QED
  BY <1>5 DEF x, y

LEMMA FailedFailed ==
  ASSUME NEW b, NEW vals
  PROVE  [[ok |-> FALSE, left |-> b, vals |-> vals] EXCEPT !.ok = FALSE] = [ok |-> FALSE, left |-> b, vals |-> vals]
<1> DEFINE x == [[ok |-> FALSE, left |-> b, vals |-> vals] EXCEPT !.ok = FALSE]
           y == [ok |-> FALSE, left |-> b, vals |-> vals]
<1>1. DOMAIN x = DOMAIN y
  BY DEF At
<1>2. x = [k \in DOMAIN x |-> x[k]] /\ y = [k \in DOMAIN y |-> y[k]]
  BY DEF At
<1>3. DOMAIN y = {"ok", "left", "vals"} /\ x.ok = y.ok /\ x.left = y.left /\ x.vals = y.vals
  BY DEF At
<1> HIDE DEF x, y
<1>4. \A k \in DOMAIN y : x[k] = y[k]
  BY <1>3
<1>5. x = y
  BY <1>1, <1>2, <1>4
<1>6. QED
  BY <1>5 DEF x, y

LEMMA FailedVals ==
  ASSUME NEW b, NEW vals, NEW c
  PROVE  [[ok |-> FALSE, left |-> b, vals |-> vals] EXCEPT !.vals = c] = [ok |-> FALSE, left |-> b, vals |-> c]
<1> DEFINE x == [[ok |-> FALSE, left |-> b, vals |-> vals] EXCEPT !.vals = c]
           y == [ok |-> FALSE, left |-> b, vals |-> c]
<1>1. DOMAIN x = DOMAIN y
  BY DEF At
<1>2. x = [k \in DOMAIN x |-> x[k]] /\ y = [k \in DOMAIN y |-> y[k]]
  BY DEF At
<1>3. DOMAIN y = {"ok", "left", "vals"} /\ x.ok = y.ok /\ x.left = y.left /\ x.vals = y.vals
  BY DEF At
<1> HIDE DEF x, y
<1>4. \A k \in DOMAIN y : x[k] = y[k]
  BY <1>3
<1>5. x = y
  BY <1>1, <1>2, <1>4
<1>6. QED
  BY <1>5 DEF x, y

LEMMA DeadIf == ASSUME NEW b, NEW vals PROVE Dead([ok |-> FALSE, left |-> b, vals |-> vals])
BY DEF Dead

LEMMA DeadAt == ASSUME NEW b, NEW vals PROVE Dead(Failed(At(b, vals)))
<1>1. Failed(At(b, vals)) = [ok |-> FALSE, left |-> b, vals |-> vals]
  BY AtFailed, Zenon DEF Failed
<1>2. QED
  BY <1>1, DeadIf, Zenon

LEMMA DeadIs ==
  ASSUME NEW in, Dead(in)
  PROVE  ~ in.ok /\ Dead(Failed(in))
<1>1. PICK l, v : in = [ok |-> FALSE, left |-> l, vals |-> v]
  BY Zenon DEF Dead
<1>2. ~ in.ok
  BY <1>1
<1>3. Failed(in) = [ok |-> FALSE, left |-> l, vals |-> v]
  BY <1>1, FailedFailed, Zenon DEF Failed
<1>4. QED
  BY <1>2, <1>3, DeadIf

LEMMA DeadVals == ASSUME NEW in, Dead(in), NEW c PROVE Dead([in EXCEPT !.vals = c])
<1>1. PICK l, v : in = [ok |-> FALSE, left |-> l, vals |-> v]
  BY Zenon DEF Dead
<1>2. [in EXCEPT !.vals = c] = [ok |-> FALSE, left |-> l, vals |-> c]
  BY <1>1, FailedVals, Zenon
<1>3. QED
  BY <1>2, DeadIf, ZenonT(60)

LEMMA ReadIs ==
  ASSUME NEW a \in Seq(Byte), NEW z \in Seq(Byte), NEW vals
  PROVE  /\ First(At(a \o z, vals), Len(a)) = a
         /\ Skipped(At(a \o z, vals), Len(a)) = At(z, vals)
         /\ ~ Short(At(a \o z, vals), Len(a))
         /\ \A x : Read(At(a \o z, vals), Len(a), x) = At(z, Append(vals, x))
<1> DEFINE in == At(a \o z, vals)
           n == Len(a)
<1>1. Len(a) \in Nat /\ Len(z) \in Nat /\ Len(a \o z) = Len(a) + Len(z)
  BY LenProperties, ConcatProperties
<1>2. in.left = a \o z /\ in.ok /\ in.vals = vals
  <2>1. \A b, v : At(b, v).left = b /\ At(b, v).ok /\ At(b, v).vals = v
    BY AtIs
  <2>2. QED
    BY <2>1, Zenon
<1>3. n \in 0 .. Len(a) + Len(z) /\ n - Len(a) = 0 /\ n >= Len(a) /\ n <= Len(a)
  BY <1>1
<1>4. SubSeq(a \o z, 1, n) = SubSeq(a, 1, n)
  BY <1>3, CutConcat
<1>5. SubSeq(a \o z, n + 1, Len(a \o z)) = SubSeq(z, 0 + 1, Len(z))
  BY <1>3, CutConcat
<1>6. SubSeq(a, 1, n) = a /\ SubSeq(z, 0 + 1, Len(z)) = z
  BY SubSeqFull
<1>7. First(in, n) = a
  BY <1>2, <1>4, <1>6 DEF First
<1>8. Skipped(in, n) = At(z, vals)
  <2>1. Skipped(in, n) = [in EXCEPT !.left = SubSeq(in.left, n + 1, Len(in.left))]
    BY DEF Skipped
  <2>2. SubSeq(in.left, n + 1, Len(in.left)) = z
    BY <1>2, <1>5, <1>6
  <2> HIDE DEF n
  <2>3. QED
    BY <2>1, <2>2, AtLeft, ZenonT(60)
<1>9. ~ Short(in, n)
  BY <1>1, <1>2 DEF Short
<1>10. ASSUME NEW x PROVE Read(in, n, x) = At(z, Append(vals, x))
  <2>1. Read(in, n, x) = [Skipped(in, n) EXCEPT !.vals = Append(Skipped(in, n).vals, x)]
    BY <1>9 DEF Read
  <2> HIDE DEF in, n
  <2>2. At(z, vals).vals = vals
    BY AtIs
  <2>3. Read(in, n, x) = [At(z, vals) EXCEPT !.vals = Append(vals, x)]
    BY <1>8, <2>1, <2>2
  <2>4. QED
    BY <2>3, AtVals
<1>11. QED
  BY <1>7, <1>8, <1>9, <1>10

LEMMA ReadShort ==
  ASSUME NEW b, Len(b) \in Nat, NEW vals, NEW n \in Nat, Len(b) < n
  PROVE  Short(At(b, vals), n) /\ \A x : Dead(Read(At(b, vals), n, x))
<1>1. Short(At(b, vals), n)
  BY AtIs DEF Short
<1>2. QED
  BY <1>1, DeadAt DEF Read
-----------------------------------------------------------------------------
LEMMA WidthsAre == 1 \in Widths /\ 2 \in Widths /\ 4 \in Widths /\ 8 \in Widths /\ Widths \subseteq Nat \ {0}
BY DEF Widths

LEMMA NumberIs ==
  ASSUME NEW w \in Widths, NEW u \in 0 .. Values(w) - 1, NEW z \in Seq(Byte), NEW vals
  PROVE  /\ ~ Short(At(StoreBE(u, w) \o z, vals), w)
         /\ LoadBE(First(At(StoreBE(u, w) \o z, vals), w)) = u
         /\ Skipped(At(StoreBE(u, w) \o z, vals), w) = At(z, vals)
         /\ Unsigned(At(StoreBE(u, w) \o z, vals), w) = At(z, Append(vals, u))
         /\ Signed(At(StoreBE(u, w) \o z, vals), w) = At(z, Append(vals, ToSigned(u, w)))
         /\ \A x : Read(At(StoreBE(u, w) \o z, vals), w, x) = At(z, Append(vals, x))
<1> DEFINE a == StoreBE(u, w)
           in == At(a \o z, vals)
<1>1. a \in Seq(Byte) /\ Len(a) = w /\ LoadBE(a) = u
  <2>1. u \in Nat /\ u < Values(w)
    BY ValuesFacts
  <2>2. QED
    BY <2>1, StoreLoad
<1> HIDE DEF a
<1>2. /\ First(in, w) = a /\ Skipped(in, w) = At(z, vals) /\ ~ Short(in, w)
      /\ \A x : Read(in, w, x) = At(z, Append(vals, x))
  BY <1>1, ReadIs
<1> HIDE DEF in
<1>3. LoadBE(First(in, w)) = u
  BY <1>1, <1>2
<1>4. Unsigned(in, w) = At(z, Append(vals, u))
  BY <1>2, <1>3 DEF Unsigned
<1>5. Signed(in, w) = At(z, Append(vals, ToSigned(u, w)))
  BY <1>2, <1>3 DEF Signed
<1>6. QED
  BY <1>2, <1>3, <1>4, <1>5 DEF a, in

LEMMA NumberShort ==
  ASSUME NEW w \in Widths, NEW b, Len(b) \in Nat, Len(b) < w, NEW vals
  PROVE  /\ Short(At(b, vals), w)
         /\ Dead(Unsigned(At(b, vals), w)) /\ Dead(Signed(At(b, vals), w))
<1>1. w \in Nat
  BY WidthsAre
<1>2. Short(At(b, vals), w) /\ \A x : Dead(Read(At(b, vals), w, x))
  BY <1>1, ReadShort
<1>3. QED
  BY <1>2 DEF Unsigned, Signed

LEMMA CountedIs ==
  ASSUME NEW w \in Widths, NEW max \in Nat, max < Values(w), NEW v \in Seq(Byte), Len(v) <= max,
         NEW z \in Seq(Byte), NEW vals
  PROVE  /\ StoreBE(Len(v), w) \o v \in Seq(Byte) /\ Len(StoreBE(Len(v), w) \o v) = w + Len(v)
         /\ get_counted(At((StoreBE(Len(v), w) \o v) \o z, vals), w, max) = At(z, Append(vals, v))
<1> DEFINE a == StoreBE(Len(v), w)
           in == At(a \o (v \o z), vals)
           behind == At(v \o z, vals)
<1>1. Len(v) \in Nat /\ Len(v) \in 0 .. Values(w) - 1 /\ v \o z \in Seq(Byte)
  BY ValuesFacts, LenProperties, ConcatProperties
<1>2. a \in Seq(Byte) /\ Len(a) = w
  BY <1>1, StoreLoad
<1>3. /\ ~ Short(in, w) /\ LoadBE(First(in, w)) = Len(v) /\ Skipped(in, w) = behind
  <2>1. PICK y \in Seq(Byte) : y = v \o z
    BY <1>1
  <2>2. PICK u \in 0 .. Values(w) - 1 : u = Len(v)
    BY <1>1
  <2>3. /\ ~ Short(At(StoreBE(u, w) \o y, vals), w)
        /\ LoadBE(First(At(StoreBE(u, w) \o y, vals), w)) = u
        /\ Skipped(At(StoreBE(u, w) \o y, vals), w) = At(y, vals)
    BY NumberIs
  <2>4. QED
    BY <2>1, <2>2, <2>3
<1>4. First(behind, Len(v)) = v /\ \A x : Read(behind, Len(v), x) = At(z, Append(vals, x))
  BY ReadIs
<1>5. (a \o v) \o z = a \o (v \o z)
  BY <1>2, Associative, SMTT(60)
<1>6. a \o v \in Seq(Byte) /\ Len(a \o v) = w + Len(v)
  BY <1>2, ConcatProperties
<1> HIDE DEF in, behind
<1>7. ~ (Len(v) > max)
  BY <1>1
<1>8. get_counted(in, w, max) = Read(behind, Len(v), First(behind, Len(v)))
  BY <1>3, <1>7 DEF get_counted
<1>9. get_counted(in, w, max) = At(z, Append(vals, v))
  BY <1>4, <1>8
<1>10. QED
  BY <1>5, <1>6, <1>9 DEF in

LEMMA CountedShort ==
  ASSUME NEW w \in Widths, NEW max \in Nat, max < Values(w), NEW v \in Seq(Byte), Len(v) <= max,
         NEW k \in 0 .. w + Len(v) - 1, NEW vals
  PROVE  Dead(get_counted(At(SubSeq(StoreBE(Len(v), w) \o v, 1, k), vals), w, max))
<1> DEFINE a == StoreBE(Len(v), w)
           b == SubSeq(a \o v, 1, k)
           in == At(b, vals)
<1>1. w \in Nat /\ Len(v) \in Nat /\ Len(v) \in 0 .. Values(w) - 1
  <2>1. w \in Nat
    BY WidthsAre
  <2>2. Len(v) \in Nat /\ Len(v) \in 0 .. Values(w) - 1
    BY ValuesFacts, LenProperties
  <2>3. QED
    BY <2>1, <2>2
<1>2. a \in Seq(Byte) /\ Len(a) = w
  BY <1>1, StoreLoad
<1>3. a \o v \in Seq(Byte) /\ Len(a \o v) = w + Len(v)
  BY <1>2, ConcatProperties
<1>4. k \in 0 .. Len(a \o v) /\ k \in 0 .. Len(a) + Len(v) /\ k \in Nat
  BY <1>1, <1>2, <1>3
<1>5. Len(b) = k
  BY <1>3, <1>4, PrefixIs
<1>6. CASE k < w
  <2> HIDE DEF b
  <2>1. Short(in, w)
    BY <1>4, <1>5, <1>6, NumberShort
  <2>2. get_counted(in, w, max) = Failed(in)
    BY <2>1, Zenon DEF get_counted
  <2>3. QED
    BY <2>2, DeadAt DEF b
<1>7. CASE k >= w
  <2> DEFINE c == SubSeq(v, 1, k - w)
  <2>1. k - w \in 0 .. Len(v) /\ k - w < Len(v)
    BY <1>1, <1>7
  <2>2. c \in Seq(Byte) /\ Len(c) = k - w
    BY <2>1, PrefixIs
  <2>3. b = a \o c
    <3>1. k >= Len(a) /\ k - Len(a) = k - w
      BY <1>2, <1>7
    <3>2. b = a \o SubSeq(v, 1, k - Len(a))
      BY <1>2, <1>4, <3>1, CutConcat, ZenonT(60)
    <3>3. QED
      BY <3>1, <3>2
  <2> HIDE DEF b, c
  <2>4. ~ Short(in, w) /\ LoadBE(First(in, w)) = Len(v) /\ Skipped(in, w) = At(c, vals)
    BY <1>1, <2>2, <2>3, NumberIs
  <2> HIDE DEF in
  <2>5. ~ (Len(v) > max)
    BY <1>1
  <2>6. get_counted(in, w, max) = Read(At(c, vals), Len(v), First(At(c, vals), Len(v)))
    BY <2>4, <2>5 DEF get_counted
  <2>7. Len(c) \in Nat /\ Len(c) < Len(v)
    BY <2>1, <2>2
  <2>8. QED
    BY <1>1, <2>6, <2>7, ReadShort DEF in, b
<1>8. QED
  BY <1>1, <1>4, <1>6, <1>7
-----------------------------------------------------------------------------
LEMMA LimitFacts ==
  /\ MaxStringLen \in Nat /\ MaxStringLen < Values(2) /\ MaxBitmap \in Nat /\ MaxBitmap < Values(4)
  /\ DigestLen \in Nat /\ Values(1) = Radix /\ Values(4) = Radix4
BY MessagesAssumption DEF MessagesAssumption, Values

LEMMA Single ==
  ASSUME NEW S, NEW s \in Seq(S), Len(s) <= 1, s # <<>>
  PROVE  s[1] \in S /\ s = <<s[1]>>
<1>1. Len(s) \in Nat /\ Len(s) # 0
  BY LenProperties, EmptySeq
<1>2. Len(s) = 1
  BY <1>1, SMTT(60)
<1>3. s[1] \in S
  BY <1>2, ElementOfSeq
<1>4. <<s[1]>> \in Seq(S) /\ Len(<<s[1]>>) = 1 /\ <<s[1]>>[1] = s[1]
  BY <1>3
<1>5. s = <<s[1]>>
  BY <1>2, <1>4, SeqEqual
<1>6. QED
  BY <1>3, <1>5

LEMMA OneByte ==
  /\ StoreBE(0, 1) = <<0>> /\ StoreBE(1, 1) = <<1>>
  /\ 0 \in 0 .. Values(1) - 1 /\ 1 \in 0 .. Values(1) - 1
  /\ <<0>> \in Seq(Byte) /\ <<1>> \in Seq(Byte)
<1>1. \A v : StoreBE(v, 1) = <<v % Radix>>
  BY DEF StoreBE
<1>2. 0 % Radix = 0 /\ 1 % Radix = 1
  BY RadixFacts
<1>3. 0 \in 0 .. Values(1) - 1 /\ 1 \in 0 .. Values(1) - 1 /\ 0 \in Byte /\ 1 \in Byte
  BY RadixFacts, LimitFacts DEF Byte
<1>4. QED
  BY <1>1, <1>2, <1>3

\* An optional string that is there.
LEMMA OptionalIs ==
  ASSUME NEW s \in Seq(Byte), Len(s) <= MaxStringLen
  PROVE  /\ <<1>> \o StoreBE(Len(s), 2) \o s \in Seq(Byte)
         /\ Len(<<1>> \o StoreBE(Len(s), 2) \o s) = 3 + Len(s)
         /\ \A T : \A z \in Seq(Byte), vals \in Seq(T) :
              get_optional(At((<<1>> \o StoreBE(Len(s), 2) \o s) \o z, vals)) = At(z, Append(vals, <<s>>))
         /\ \A k \in 0 .. 3 + Len(s) - 1 : \A vals :
              Dead(get_optional(At(SubSeq(<<1>> \o StoreBE(Len(s), 2) \o s, 1, k), vals)))
<1> DEFINE c == StoreBE(Len(s), 2) \o s
           a == <<1>> \o c
<1>1. c \in Seq(Byte) /\ Len(c) = 2 + Len(s) /\ Len(s) \in Nat
  BY CountedIs, LimitFacts, WidthsAre, LenProperties, EmptySeq
<1>2. StoreBE(1, 1) = <<1>> /\ 1 \in 0 .. Values(1) - 1
  BY OneByte
<1>3. <<1>> \in Seq(Byte) /\ Len(<<1>>) = 1
  BY RadixFacts DEF Byte
<1>4. <<1>> \o StoreBE(Len(s), 2) \o s = a
  <2>1. StoreBE(Len(s), 2) \in Seq(Byte)
    BY <1>1, StoreLoad, WidthsAre
  <2>2. QED
    BY <1>3, <2>1, Associative
<1>5. a \in Seq(Byte) /\ Len(a) = 3 + Len(s)
  BY <1>1, <1>3, ConcatProperties
<1>6. ASSUME NEW T, NEW z \in Seq(Byte), NEW vals \in Seq(T)
      PROVE  get_optional(At(a \o z, vals)) = At(z, Append(vals, <<s>>))
  <2> DEFINE in == At(<<1>> \o (c \o z), vals)
             r == At(z, Append(vals, s))
  <2>1. a \o z = <<1>> \o (c \o z)
    BY <1>1, <1>3, Associative, SMTT(60)
  <2>2. c \o z \in Seq(Byte)
    BY <1>1, ConcatProperties
  <2>3. ~ Short(in, 1) /\ LoadBE(First(in, 1)) = 1 /\ Skipped(in, 1) = At(c \o z, vals)
    <3>1. PICK y \in Seq(Byte) : y = c \o z
      BY <2>2
    <3>2. /\ ~ Short(At(StoreBE(1, 1) \o y, vals), 1)
          /\ LoadBE(First(At(StoreBE(1, 1) \o y, vals), 1)) = 1
          /\ Skipped(At(StoreBE(1, 1) \o y, vals), 1) = At(y, vals)
      BY <1>2, NumberIs, WidthsAre
    <3>3. QED
      BY <1>2, <3>1, <3>2
  <2>4. get_str(At(c \o z, vals)) = r
    BY CountedIs, LimitFacts, WidthsAre DEF get_str
  <2>5. r.ok /\ r.vals = Append(vals, s) /\ in.vals = vals
    BY Zenon DEF At
  <2> HIDE DEF in, r
  <2>6. get_optional(in) = [r EXCEPT !.vals = Append(in.vals, <<Last(r.vals)>>)]
    <3>1. LoadBE(First(in, 1)) # 0
      BY <2>3
    <3>2. QED
      BY <2>3, <2>4, <2>5, <3>1 DEF get_optional
  <2>7. Last(r.vals) = s
    <3>1. vals \in Seq(T \cup {s}) /\ s \in T \cup {s} /\ Len(vals) \in Nat
      BY SeqMonotonic, LenProperties
    <3>2. Len(Append(vals, s)) = Len(vals) + 1 /\ Append(vals, s)[Len(vals) + 1] = s
      BY <3>1, AppendProperties
    <3>3. QED
      BY <2>5, <3>2 DEF Last
  <2>8. get_optional(in) = [r EXCEPT !.vals = Append(vals, <<s>>)]
    BY <2>5, <2>6, <2>7
  <2>9. QED
    BY <2>1, <2>8, AtVals DEF in, r
<1>7. ASSUME NEW k \in 0 .. 3 + Len(s) - 1, NEW vals
      PROVE  Dead(get_optional(At(SubSeq(a, 1, k), vals)))
  <2> DEFINE b == SubSeq(a, 1, k)
             in == At(b, vals)
  <2>1. Len(b) = k /\ k \in Nat
    BY <1>1, <1>5, PrefixIs
  <2>2. CASE k = 0
    <3> HIDE DEF b
    <3>1. Short(in, 1) /\ Dead(Read(in, 1, <<>>))
      BY <2>1, <2>2, ReadShort
    <3>2. QED
      BY <3>1, Zenon DEF get_optional, b
  <2>3. CASE k > 0
    <3> DEFINE d == SubSeq(c, 1, k - 1)
    <3>1. k >= Len(<<1>>) /\ k - Len(<<1>>) = k - 1 /\ k \in 0 .. Len(<<1>>) + Len(c) /\ k - 1 \in 0 .. Len(c)
          /\ k - 1 \in 0 .. 2 + Len(s) - 1
      BY <1>1, <1>3, <2>1, <2>3
    <3>2. b = <<1>> \o SubSeq(c, 1, k - Len(<<1>>))
      BY <1>1, <1>3, <3>1, CutConcat
    <3>3. b = <<1>> \o d /\ d \in Seq(Byte)
      BY <1>1, <3>1, <3>2, PrefixIs
    <3>4. Dead(get_str(At(d, vals)))
      BY <3>1, CountedShort, LimitFacts, WidthsAre DEF get_str
    <3> HIDE DEF b, d
    <3>5. ~ Short(in, 1) /\ LoadBE(First(in, 1)) = 1 /\ Skipped(in, 1) = At(d, vals)
      BY <1>2, <3>3, NumberIs, WidthsAre
    <3> HIDE DEF in
    <3>6. ~ get_str(At(d, vals)).ok
      BY <3>4, DeadIs
    <3>7. get_optional(in) = get_str(At(d, vals))
      <4>1. LoadBE(First(in, 1)) # 0
        BY <3>5
      <4>2. QED
        BY <3>5, <3>6, <4>1, Zenon DEF get_optional
    <3>8. QED
      BY <3>4, <3>7 DEF in, b
  <2>4. QED
    BY <2>1, <2>2, <2>3
<1>8. QED
  BY <1>4, <1>5, <1>6, <1>7

\* What is read is what was written, and the rest is left.
LEMMA FlatIs ==
  ASSUME NEW f \in FlatFields, NEW v, FlatValue(f, v), FitsFlat(f, v), NEW z \in Seq(Byte),
         NEW T, NEW vals \in Seq(T)
  PROVE  /\ PutFlat(f, v) \in Seq(Byte)
         /\ GetFlat(At(PutFlat(f, v) \o z, vals), f) = At(z, Append(vals, v))
<1> DEFINE in == At(PutFlat(f, v) \o z, vals)
<1>1. CASE f.k \in Unsigneds
  <2>1. Width[f.k] \in Widths
    BY <1>1, WidthIs, WidthsAre DEF Unsigneds
  <2>2. v \in 0 .. Values(Width[f.k]) - 1 /\ v \in Nat
    BY <1>1, <2>1, FlatValueIs, ValuesFacts
  <2>3. PutFlat(f, v) = StoreBE(v, Width[f.k])
    BY <1>1, PutFlatIs
  <2>4. GetFlat(in, f) = Unsigned(in, Width[f.k])
    BY <1>1, GetFlatIs
  <2>5. QED
    BY <2>1, <2>2, <2>3, <2>4, NumberIs, StoreLoad
<1>2. CASE f.k \in Signeds
  <2>1. Width[f.k] \in Widths
    BY <1>2, WidthIs, WidthsAre DEF Signeds
  <2>2. PICK u \in 0 .. Values(Width[f.k]) - 1 : v = ToSigned(u, Width[f.k])
    BY <1>2, FlatValueIs
  <2>3. PutFlat(f, v) = StoreBE(u, Width[f.k]) /\ u \in Nat
    <3>1. PutFlat(f, v) = StoreBE(ToUnsigned(v, Width[f.k]), Width[f.k])
      BY <1>2, PutFlatIs
    <3>2. ToUnsigned(v, Width[f.k]) = u
      BY <2>1, <2>2, SignedIs
    <3>3. u \in Nat
      BY <2>1, <2>2, ValuesFacts
    <3>4. QED
      BY <3>1, <3>2, <3>3
  <2>4. GetFlat(in, f) = Signed(in, Width[f.k])
    BY <1>2, GetFlatIs
  <2>5. QED
    BY <2>1, <2>2, <2>3, <2>4, NumberIs, StoreLoad
<1>3. CASE f.k = "version"
  <2>1. v = 1 /\ 1 \in 0 .. Values(1) - 1
    BY <1>3, FlatValueIs, OneByte, Zenon DEF PROTOCOL_VERSION
  <2>2. PutFlat(f, v) = StoreBE(1, 1)
    <3>1. PutFlat(f, v) = StoreBE(v, Width[f.k])
      BY <1>3, PutFlatIs
    <3>2. QED
      BY <1>3, <2>1, <3>1, WidthIs, Zenon
  <2>3. GetFlat(in, f) = get_version(in)
    BY <1>3, GetFlatIs
  <2>4. ~ Short(in, 1) /\ LoadBE(First(in, 1)) = 1 /\ Unsigned(in, 1) = At(z, Append(vals, v))
    BY <2>1, <2>2, NumberIs, WidthsAre
  <2> HIDE DEF in
  <2>5. get_version(in) = Unsigned(in, 1)
    BY <2>4, Zenon DEF get_version, PROTOCOL_VERSION
  <2>6. QED
    BY <2>1, <2>2, <2>3, <2>4, <2>5, StoreLoad, WidthsAre DEF in
<1>4. CASE f.k = "flag"
  <2> DEFINE u == IF v THEN 1 ELSE 0
  <2>1. v \in BOOLEAN
    BY <1>4, FlatValueIs
  <2>2. u \in 0 .. Values(1) - 1 /\ u \in Nat /\ ((u # 0) = v)
    BY <2>1, LimitFacts, RadixFacts
  <2>3. PutFlat(f, v) = StoreBE(u, 1)
    BY <1>4, PutFlatIs, ZenonT(60)
  <2>4. GetFlat(in, f) = Flag(in)
    BY <1>4, GetFlatIs
  <2> HIDE DEF u
  <2>5. LoadBE(First(in, 1)) = u /\ \A x : Read(in, 1, x) = At(z, Append(vals, x))
    BY <2>2, <2>3, NumberIs, WidthsAre
  <2> HIDE DEF in
  <2>6. Flag(in) = At(z, Append(vals, v))
    <3>1. (LoadBE(First(in, 1)) # 0) = v
      BY <2>2, <2>5
    <3>2. Flag(in) = At(z, Append(vals, LoadBE(First(in, 1)) # 0))
      BY <2>5, Zenon DEF Flag
    <3>3. QED
      BY <3>1, <3>2, Zenon
  <2>7. QED
    BY <2>2, <2>3, <2>4, <2>6, StoreLoad, WidthsAre DEF in
<1>5. CASE f.k = "str"
  <2>1. v \in Seq(Byte) /\ Len(v) <= MaxStringLen
    BY <1>5, FlatValueIs, FitsFlatIs
  <2>2. PutFlat(f, v) = StoreBE(Len(v), 2) \o v
    BY <1>5, PutFlatIs
  <2>3. GetFlat(in, f) = get_counted(in, 2, MaxStringLen)
    BY <1>5, GetFlatIs DEF get_str
  <2>4. QED
    BY <2>1, <2>2, <2>3, CountedIs, LimitFacts, WidthsAre
<1>6. CASE f.k = "bitmap"
  <2>1. v \in Seq(Byte) /\ Len(v) <= MaxBitmap
    BY <1>6, FlatValueIs, FitsFlatIs
  <2>2. PutFlat(f, v) = StoreBE(Len(v), 4) \o v
    BY <1>6, PutFlatIs
  <2>3. GetFlat(in, f) = get_counted(in, 4, MaxBitmap)
    BY <1>6, GetFlatIs
  <2>4. QED
    BY <2>1, <2>2, <2>3, CountedIs, LimitFacts, WidthsAre
<1>7. CASE f.k = "digest"
  <2>1. v \in Seq(Byte) /\ Len(v) = DigestLen
    BY <1>7, FlatValueIs, FitsFlatIs
  <2>2. PutFlat(f, v) = v
    BY <1>7, PutFlatIs
  <2>3. GetFlat(in, f) = Read(in, Len(v), First(in, Len(v)))
    BY <1>7, <2>1, GetFlatIs
  <2>4. First(in, Len(v)) = v /\ \A x : Read(in, Len(v), x) = At(z, Append(vals, x))
    BY <2>1, <2>2, ReadIs
  <2> HIDE DEF in
  <2>5. QED
    BY <2>1, <2>2, <2>3, <2>4 DEF in
<1>8. CASE f.k = "optional"
  <2>1. v \in Seq(Seq(Byte)) /\ Len(v) <= 1
    BY <1>8, FlatValueIs
  <2>2. GetFlat(in, f) = get_optional(in)
    BY <1>8, GetFlatIs
  <2>3. CASE v = <<>>
    <3>1. PutFlat(f, v) = <<0>>
      BY <1>8, <2>3, PutFlatIs
    <3>2. StoreBE(0, 1) = <<0>> /\ 0 \in 0 .. Values(1) - 1 /\ <<0>> \in Seq(Byte)
      BY OneByte
    <3>3. LoadBE(First(in, 1)) = 0 /\ \A x : Read(in, 1, x) = At(z, Append(vals, x))
      BY <3>1, <3>2, NumberIs, WidthsAre
    <3> HIDE DEF in
    <3>4. get_optional(in) = At(z, Append(vals, <<>>))
      BY <3>3, Zenon DEF get_optional
    <3>5. QED
      BY <2>2, <2>3, <3>1, <3>2, <3>4 DEF in
  <2>4. CASE v # <<>>
    <3>1. v[1] \in Seq(Byte) /\ v = <<v[1]>>
      BY <2>1, <2>4, Single
    <3>2. Len(v[1]) <= MaxStringLen
      BY <1>8, <2>4, FitsFlatIs
    <3>3. PutFlat(f, v) = <<1>> \o StoreBE(Len(v[1]), 2) \o v[1]
      BY <1>8, <2>4, PutFlatIs, ZenonT(60)
    <3>4. /\ PutFlat(f, v) \in Seq(Byte)
          /\ get_optional(At(PutFlat(f, v) \o z, vals)) = At(z, Append(vals, <<v[1]>>))
      BY <3>1, <3>2, <3>3, OptionalIs
    <3>5. QED
      BY <2>2, <3>1, <3>4
  <2>5. QED
    BY <2>3, <2>4
<1>9. QED
  BY <1>1, <1>2, <1>3, <1>4, <1>5, <1>6, <1>7, <1>8, FlatKinds DEF Kinded, Unsigneds, Signeds
-----------------------------------------------------------------------------
\* A field that was cut short is refused.
LEMMA FlatShort ==
  ASSUME NEW f \in FlatFields, NEW v, FlatValue(f, v), FitsFlat(f, v), NEW k \in Nat,
         k < Len(PutFlat(f, v)), NEW vals
  PROVE  Dead(GetFlat(At(SubSeq(PutFlat(f, v), 1, k), vals), f))
<1> DEFINE b == SubSeq(PutFlat(f, v), 1, k)
           in == At(b, vals)
<1>1. PutFlat(f, v) \in Seq(Byte)
  <2>1. <<>> \in Seq(Byte)
    OBVIOUS
  <2>2. QED
    BY <2>1, FlatIs
<1>2. Len(b) = k
  <2>1. k \in 0 .. Len(PutFlat(f, v))
    BY <1>1, LenProperties
  <2>2. QED
    BY <1>1, <2>1, PrefixIs
<1>3. ASSUME NEW w \in Widths, NEW u \in Nat, PutFlat(f, v) = StoreBE(u, w)
      PROVE  Short(in, w) /\ Dead(Unsigned(in, w)) /\ Dead(Signed(in, w))
  <2>1. k < w
    BY <1>3, StoreLoad
  <2> HIDE DEF b
  <2>2. QED
    BY <1>2, <2>1, NumberShort
<1>4. CASE f.k \in Unsigneds
  <2>1. Width[f.k] \in Widths
    BY <1>4, WidthIs, WidthsAre DEF Unsigneds
  <2>2. v \in Nat
    BY <1>4, <2>1, FlatValueIs, ValuesFacts
  <2>3. PutFlat(f, v) = StoreBE(v, Width[f.k])
    BY <1>4, PutFlatIs
  <2>4. GetFlat(in, f) = Unsigned(in, Width[f.k])
    BY <1>4, GetFlatIs
  <2> HIDE DEF in
  <2>5. QED
    BY <1>3, <2>1, <2>2, <2>3, <2>4 DEF in
<1>5. CASE f.k \in Signeds
  <2>1. Width[f.k] \in Widths
    BY <1>5, WidthIs, WidthsAre DEF Signeds
  <2>2. PICK u \in 0 .. Values(Width[f.k]) - 1 : v = ToSigned(u, Width[f.k])
    BY <1>5, FlatValueIs
  <2>3. PutFlat(f, v) = StoreBE(u, Width[f.k]) /\ u \in Nat
    <3>1. PutFlat(f, v) = StoreBE(ToUnsigned(v, Width[f.k]), Width[f.k])
      BY <1>5, PutFlatIs
    <3>2. ToUnsigned(v, Width[f.k]) = u
      BY <2>1, <2>2, SignedIs
    <3>3. u \in Nat
      BY <2>1, <2>2, ValuesFacts
    <3>4. QED
      BY <3>1, <3>2, <3>3
  <2>4. GetFlat(in, f) = Signed(in, Width[f.k])
    BY <1>5, GetFlatIs
  <2> HIDE DEF in
  <2>5. QED
    BY <1>3, <2>1, <2>3, <2>4 DEF in
<1>6. CASE f.k = "version"
  <2>1. PutFlat(f, v) = StoreBE(1, 1)
    <3>1. PutFlat(f, v) = StoreBE(v, Width[f.k])
      BY <1>6, PutFlatIs
    <3>2. v = 1
      BY <1>6, FlatValueIs, Zenon DEF PROTOCOL_VERSION
    <3>3. QED
      BY <1>6, <3>1, <3>2, WidthIs, Zenon
  <2>2. GetFlat(in, f) = get_version(in)
    BY <1>6, GetFlatIs
  <2>3. Short(in, 1)
    BY <1>3, <2>1, WidthsAre
  <2>4. get_version(in) = Failed(in)
    BY <2>3, Zenon DEF get_version
  <2>5. QED
    BY <2>2, <2>4, DeadAt
<1>7. CASE f.k = "flag"
  <2>1. PICK u \in Nat : PutFlat(f, v) = StoreBE(u, 1)
    <3>1. PutFlat(f, v) = StoreBE(IF v THEN 1 ELSE 0, 1)
      BY <1>7, PutFlatIs
    <3>2. (IF v THEN 1 ELSE 0) \in Nat
      OBVIOUS
    <3>3. QED
      BY <3>1, <3>2, Zenon
  <2>2. GetFlat(in, f) = Flag(in)
    BY <1>7, GetFlatIs
  <2>3. Short(in, 1)
    BY <1>3, <2>1, WidthsAre
  <2>4. Flag(in) = Failed(in)
    BY <2>3, Zenon DEF Flag, Read
  <2>5. QED
    BY <2>2, <2>4, DeadAt
<1>8. CASE f.k = "str"
  <2>1. v \in Seq(Byte) /\ Len(v) <= MaxStringLen
    BY <1>8, FlatValueIs, FitsFlatIs
  <2>2. PutFlat(f, v) = StoreBE(Len(v), 2) \o v
    BY <1>8, PutFlatIs
  <2>3. GetFlat(in, f) = get_counted(in, 2, MaxStringLen)
    BY <1>8, GetFlatIs DEF get_str
  <2>4. Len(PutFlat(f, v)) = 2 + Len(v) /\ Len(v) \in Nat
    BY <2>1, <2>2, CountedIs, LimitFacts, WidthsAre, LenProperties, EmptySeq
  <2>5. k \in 0 .. 2 + Len(v) - 1
    BY <2>4
  <2>6. QED
    BY <2>1, <2>2, <2>3, <2>5, CountedShort, LimitFacts, WidthsAre
<1>9. CASE f.k = "bitmap"
  <2>1. v \in Seq(Byte) /\ Len(v) <= MaxBitmap
    BY <1>9, FlatValueIs, FitsFlatIs
  <2>2. PutFlat(f, v) = StoreBE(Len(v), 4) \o v
    BY <1>9, PutFlatIs
  <2>3. GetFlat(in, f) = get_counted(in, 4, MaxBitmap)
    BY <1>9, GetFlatIs
  <2>4. Len(PutFlat(f, v)) = 4 + Len(v) /\ Len(v) \in Nat
    BY <2>1, <2>2, CountedIs, LimitFacts, WidthsAre, LenProperties, EmptySeq
  <2>5. k \in 0 .. 4 + Len(v) - 1
    BY <2>4
  <2>6. QED
    BY <2>1, <2>2, <2>3, <2>5, CountedShort, LimitFacts, WidthsAre
<1>10. CASE f.k = "digest"
  <2>1. Len(PutFlat(f, v)) = DigestLen
    <3>1. PutFlat(f, v) = v
      BY <1>10, PutFlatIs
    <3>2. Len(v) = DigestLen
      BY <1>10, FitsFlatIs
    <3>3. QED
      BY <3>1, <3>2
  <2>2. GetFlat(in, f) = Read(in, DigestLen, First(in, DigestLen))
    BY <1>10, GetFlatIs
  <2>3. Len(b) \in Nat /\ Len(b) < DigestLen
    BY <1>2, <2>1
  <2> HIDE DEF b
  <2>4. QED
    BY <2>2, <2>3, ReadShort, LimitFacts DEF b
<1>11. CASE f.k = "optional"
  <2>1. v \in Seq(Seq(Byte)) /\ Len(v) <= 1
    BY <1>11, FlatValueIs
  <2>2. GetFlat(in, f) = get_optional(in)
    BY <1>11, GetFlatIs
  <2>3. CASE v = <<>>
    <3>1. PutFlat(f, v) = StoreBE(0, 1)
      BY <1>11, <2>3, PutFlatIs, OneByte
    <3>2. Short(in, 1)
      BY <1>3, <3>1, WidthsAre
    <3>3. get_optional(in) = Failed(in)
      BY <3>2, Zenon DEF get_optional, Read
    <3>4. QED
      BY <2>2, <3>3, DeadAt
  <2>4. CASE v # <<>>
    <3>1. v[1] \in Seq(Byte)
      BY <2>1, <2>4, Single
    <3>2. Len(v[1]) <= MaxStringLen
      BY <1>11, <2>4, FitsFlatIs
    <3>3. PutFlat(f, v) = <<1>> \o StoreBE(Len(v[1]), 2) \o v[1]
      BY <1>11, <2>4, PutFlatIs
    <3>4. PICK s \in Seq(Byte) : s = v[1]
      BY <3>1
    <3>5. Len(PutFlat(f, v)) = 3 + Len(s) /\ Len(s) \in Nat
      BY <3>2, <3>3, <3>4, OptionalIs, LenProperties
    <3>6. k \in 0 .. 3 + Len(s) - 1
      BY <3>5
    <3>7. Dead(get_optional(in))
      BY <3>2, <3>3, <3>4, <3>6, OptionalIs
    <3>8. QED
      BY <2>2, <3>7
  <2>5. QED
    BY <2>3, <2>4
<1>12. QED
  BY <1>4, <1>5, <1>6, <1>7, <1>8, <1>9, <1>10, <1>11, FlatKinds DEF Kinded, Unsigneds, Signeds

\* A reader that has failed reads nothing more.
LEMMA FlatDead ==
  ASSUME NEW f, f \in FlatFields \/ f = rest, NEW in, Dead(in)
  PROVE  Dead(GetFlat(in, f))
<1>1. ~ in.ok /\ Dead(Failed(in))
  BY DeadIs
<1>2. \A n, x : Read(in, n, x) = Failed(in)
  BY <1>1, Zenon DEF Read, Short
<1>3. \A w, max : get_counted(in, w, max) = Failed(in)
  BY <1>1, Zenon DEF get_counted, Short
<1>4. get_version(in) = Failed(in)
  BY <1>1, Zenon DEF get_version, Short
<1>5. get_optional(in) = Failed(in)
  BY <1>1, <1>2, Zenon DEF get_optional, Short
<1>6. f.k \in Kinded \cup {"rest"}
  BY FlatKinds DEF rest, Field
<1>7. GetFlat(in, f) = Failed(in)
  BY <1>2, <1>3, <1>4, <1>5, <1>6, GetFlatIs DEF Kinded, Unsigneds, Signeds, Unsigned, Signed, Flag, get_str
<1>8. QED
  BY <1>1, <1>7

\* The rest of a payload is whatever is left.
LEMMA RestIs ==
  ASSUME NEW b \in Seq(Byte), NEW vals
  PROVE  GetFlat(At(b, vals), rest) = At(<<>>, Append(vals, b)) /\ \A v : PutFlat(rest, v) = v
<1> DEFINE in == At(b, vals)
<1>1. rest.k = "rest"
  BY DEF rest, Field
<1>2. b \o <<>> = b /\ <<>> \in Seq(Byte)
  BY ConcatEmptySeq
<1>3. \A x : Read(At(b \o <<>>, vals), Len(b), x) = At(<<>>, Append(vals, x))
  <2>1. PICK z \in Seq(Byte) : z = <<>>
    BY <1>2
  <2>2. \A x : Read(At(b \o z, vals), Len(b), x) = At(z, Append(vals, x))
    BY ReadIs
  <2>3. QED
    BY <2>1, <2>2
<1>4. in.left = b
  BY AtIs
<1>5. GetFlat(in, rest) = Read(in, Len(b), b)
  BY <1>1, <1>4, GetFlatIs
<1>6. QED
  BY <1>1, <1>2, <1>3, <1>5, PutFlatIs
-----------------------------------------------------------------------------
(* A sequence of reads: the fields of an item, the items of a list, the    *)
(* fields of a message.                                                    *)

\* What is read: a field of an item, an item, a field of a message.
Take(g, in) ==
  IF g.how = "flat" THEN GetFlat(in, g.what)
  ELSE IF g.how = "item" THEN GetItem(in, g.what)
  ELSE Get(in, g.what)
FoldsTo(at, gs, n, in) == at = [i \in 0 .. n |-> IF i = 0 THEN in ELSE Take(gs[i], at[i - 1])]

\* What a read does: it takes the bytes p and adds the value x; it refuses
\* anything less; a reader that has failed stays so.
Reads(g, p, x) ==
  \A T : \A z \in Seq(Byte), vals \in Seq(T) : Take(g, At(p \o z, vals)) = At(z, Append(vals, x))
Refuses(g, p) ==
  \A k \in Nat : k < Len(p) => \A vals : Dead(Take(g, At(SubSeq(p, 1, k), vals)))
StaysDead(g) == \A in : Dead(in) => Dead(Take(g, in))
Sound(g, p, x) == Reads(g, p, x) /\ Refuses(g, p) /\ StaysDead(g)
AllSound(gs, ps, xs, n) == \A i \in 1 .. n : Sound(gs[i], ps[i], xs[i])
AllStayDead(gs, n) == \A i \in 1 .. n : StaysDead(gs[i])

LEMMA FoldExists ==
  ASSUME NEW gs, NEW in, NEW n \in Nat
  PROVE  \E at : FoldsTo(at, gs, n, in)
<1> DEFINE Bad == {k \in Nat : ~ \E at : FoldsTo(at, gs, k, in)}
<1>1. ASSUME Bad # {} PROVE FALSE
  <2>1. PICK m \in Bad : \A k \in Bad : m <= k
    <3>1. Bad \in SUBSET Nat
      OBVIOUS
    <3>2. QED
      BY <1>1, <3>1, LeastNat
  <2>2. m # 0
    <3>1. FoldsTo([i \in 0 .. 0 |-> in], gs, 0, in)
      BY DEF FoldsTo
    <3>2. QED
      BY <2>1, <3>1
  <2>3. m - 1 \in Nat /\ m - 1 \notin Bad
    BY <2>1, <2>2
  <2>4. PICK at : FoldsTo(at, gs, m - 1, in)
    BY <2>3
  <2> DEFINE h == [i \in 0 .. m |-> IF i = m THEN Take(gs[m], at[m - 1]) ELSE at[i]]
  <2>5. ASSUME NEW i \in 0 .. m PROVE h[i] = IF i = 0 THEN in ELSE Take(gs[i], h[i - 1])
    <3>1. CASE i = m
      <4>1. h[i] = Take(gs[m], at[m - 1])
        BY <3>1
      <4>2. h[i - 1] = at[m - 1]
        BY <2>1, <2>2, <3>1
      <4>3. QED
        BY <2>2, <3>1, <4>1, <4>2, Zenon
    <3>2. CASE i # m
      <4>1. i \in 0 .. m - 1 /\ h[i] = at[i]
        BY <2>1, <3>2
      <4>2. at[i] = IF i = 0 THEN in ELSE Take(gs[i], at[i - 1])
        BY <2>4, <4>1, Zenon DEF FoldsTo
      <4>3. i # 0 => h[i - 1] = at[i - 1]
        BY <2>1, <4>1
      <4>4. QED
        BY <4>1, <4>2, <4>3, Zenon
    <3>3. QED
      BY <3>1, <3>2
  <2>6. FoldsTo(h, gs, m, in)
    BY <2>5, Zenon DEF FoldsTo
  <2>7. QED
    BY <2>1, <2>6
<1>2. QED
  BY <1>1

LEMMA FoldStep ==
  ASSUME NEW at, NEW gs, NEW n \in Nat, NEW in, FoldsTo(at, gs, n, in)
  PROVE  at[0] = in /\ \A i \in 0 .. n - 1 : at[i + 1] = Take(gs[i + 1], at[i])
<1>1. at[0] = in
  <2>1. 0 \in 0 .. n
    OBVIOUS
  <2>2. QED
    BY <2>1, Zenon DEF FoldsTo
<1>2. ASSUME NEW i \in 0 .. n - 1 PROVE at[i + 1] = Take(gs[i + 1], at[i])
  <2> DEFINE j == i + 1
  <2>1. j \in 0 .. n /\ j # 0 /\ j - 1 = i
    OBVIOUS
  <2> HIDE DEF j
  <2>2. at[j] = Take(gs[j], at[j - 1])
    BY <2>1, Zenon DEF FoldsTo
  <2>3. QED
    BY <2>1, <2>2 DEF j
<1>3. QED
  BY <1>1, <1>2

\* The values that were read so far.
LEMMA OneMore ==
  ASSUME NEW xs, NEW n \in Nat
  PROVE  /\ [i \in 1 .. n |-> xs[i]] \in Seq({xs[i] : i \in 1 .. n + 1})
         /\ Append([i \in 1 .. n |-> xs[i]], xs[n + 1]) = [i \in 1 .. n + 1 |-> xs[i]]
<1> DEFINE S == {xs[i] : i \in 1 .. n + 1}
           a == [i \in 1 .. n |-> xs[i]]
           b == [i \in 1 .. n + 1 |-> xs[i]]
           c == Append(a, xs[n + 1])
<1>1. a \in Seq(S) /\ Len(a) = n /\ \A i \in 1 .. n : a[i] = xs[i]
  <2>1. a \in [1 .. n -> S]
    OBVIOUS
  <2> HIDE DEF S
  <2>2. QED
    BY <2>1
<1>2. b \in Seq(S) /\ Len(b) = n + 1 /\ \A i \in 1 .. n + 1 : b[i] = xs[i]
  <2>1. b \in [1 .. n + 1 -> S] /\ n + 1 \in Nat
    OBVIOUS
  <2> HIDE DEF S
  <2>2. QED
    BY <2>1
<1>3. xs[n + 1] \in S
  OBVIOUS
<1> HIDE DEF S, a, b
<1>4. c \in Seq(S) /\ Len(c) = n + 1 /\ (\A i \in 1 .. n : c[i] = a[i]) /\ c[n + 1] = xs[n + 1]
  BY <1>1, <1>3, AppendProperties
<1> HIDE DEF c
<1>5. ASSUME NEW i \in 1 .. n + 1 PROVE c[i] = b[i]
  <2>1. CASE i = n + 1
    BY <1>2, <1>4, <2>1
  <2>2. CASE i # n + 1
    BY <1>1, <1>2, <1>4, <2>2
  <2>3. QED
    BY <2>1, <2>2
<1>6. c = b
  BY <1>2, <1>4, <1>5, SeqEqual
<1>7. QED
  BY <1>1, <1>6 DEF S, a, b, c

\* What is left of the bytes after n parts.
Left(ps, n) == FlattenSeq(SubSeq(ps, n + 1, Len(ps)))

LEMMA LeftIs ==
  ASSUME NEW ps \in Seq(Seq(Byte)), NEW n \in 0 .. Len(ps)
  PROVE  /\ Left(ps, n) \in Seq(Byte) /\ Left(ps, 0) = FlattenSeq(ps) /\ Left(ps, Len(ps)) = <<>>
         /\ n < Len(ps) => ps[n + 1] \in Seq(Byte) /\ Left(ps, n) = ps[n + 1] \o Left(ps, n + 1)
<1>1. Len(ps) \in Nat
  BY LenProperties
<1>2. Left(ps, n) \in Seq(Byte)
  BY FlattenRest DEF Left
<1>3. Left(ps, 0) = FlattenSeq(ps)
  <2>1. SubSeq(ps, 0 + 1, Len(ps)) = ps
    BY SubSeqFull
  <2>2. QED
    BY <2>1 DEF Left
<1>4. Left(ps, Len(ps)) = <<>>
  <2>1. PICK l : l = Len(ps)
    OBVIOUS
  <2>2. l \in 0 .. Len(ps) /\ l = Len(ps)
    BY <1>1, <2>1
  <2>3. Left(ps, l) = <<>>
    BY <2>2, FlattenRest DEF Left
  <2>4. QED
    BY <2>1, <2>3
<1>5. ASSUME n < Len(ps) PROVE ps[n + 1] \in Seq(Byte) /\ Left(ps, n) = ps[n + 1] \o Left(ps, n + 1)
  <2>1. n + 1 \in 1 .. Len(ps) /\ n + 1 + 1 = n + 2
    BY <1>1, <1>5
  <2>2. ps[n + 1] \in Seq(Byte)
    BY <2>1, ElementOfSeq
  <2>3. FlattenSeq(SubSeq(ps, n + 1, Len(ps))) = ps[n + 1] \o FlattenSeq(SubSeq(ps, n + 2, Len(ps)))
    BY <1>5, FlattenRest
  <2>4. QED
    BY <2>1, <2>2, <2>3 DEF Left
<1>6. QED
  BY <1>2, <1>3, <1>4, <1>5

LEMMA BytesAssociate ==
  \A p, l, z \in Seq(Byte) : (p \o l) \o z = p \o (l \o z) /\ l \o z \in Seq(Byte)
BY Associative, ConcatProperties

\* The whole: every read finds its part.
LEMMA FoldReads ==
  ASSUME NEW ps \in Seq(Seq(Byte)), NEW gs, NEW xs, NEW m \in 0 .. Len(ps), NEW z \in Seq(Byte),
         NEW at, FoldsTo(at, gs, Len(ps), At(FlattenSeq(ps) \o z, <<>>)),
         AllSound(gs, ps, xs, m)
  PROVE  at[m] = At(Left(ps, m) \o z, [i \in 1 .. m |-> xs[i]])
<1> DEFINE Good(n) == at[n] = At(Left(ps, n) \o z, [i \in 1 .. n |-> xs[i]])
           Bad == {n \in 0 .. m : ~ Good(n)}
<1>0. Len(ps) \in Nat /\ m \in Nat
  BY LenProperties
<1>1. Good(0)
  <2>1. [i \in 1 .. 0 |-> xs[i]] = <<>>
    OBVIOUS
  <2>2. Left(ps, 0) = FlattenSeq(ps)
    BY LeftIs, <1>0
  <2>3. at[0] = At(FlattenSeq(ps) \o z, <<>>)
    BY <1>0, FoldStep
  <2>4. QED
    BY <2>1, <2>2, <2>3, Zenon
<1>2. ASSUME NEW n \in 0 .. m, n < m, Good(n) PROVE Good(n + 1)
  <2> DEFINE vals == [i \in 1 .. n |-> xs[i]]
             T == {xs[i] : i \in 1 .. n + 1}
             left == Left(ps, n + 1)
  <2>1. n \in 0 .. Len(ps) /\ n < Len(ps) /\ n \in Nat /\ n \in 0 .. Len(ps) - 1 /\ n + 1 \in 1 .. m
        /\ n + 1 \in 0 .. Len(ps)
    BY <1>0, <1>2
  <2>2. ps[n + 1] \in Seq(Byte) /\ Left(ps, n) = ps[n + 1] \o left /\ left \in Seq(Byte)
    BY <2>1, LeftIs
  <2>3. vals \in Seq(T) /\ Append(vals, xs[n + 1]) = [i \in 1 .. n + 1 |-> xs[i]]
    BY <2>1, OneMore
  <2>4. at[n + 1] = Take(gs[n + 1], at[n])
    BY <1>0, <2>1, FoldStep
  <2>5. Reads(gs[n + 1], ps[n + 1], xs[n + 1])
    BY <2>1 DEF AllSound, Sound
  <2> HIDE DEF vals, T, left
  <2>6. (ps[n + 1] \o left) \o z = ps[n + 1] \o (left \o z) /\ left \o z \in Seq(Byte)
    BY <2>2, BytesAssociate
  <2>7. at[n] = At(ps[n + 1] \o (left \o z), vals)
    BY <1>2, <2>2, <2>6 DEF vals
  <2>8. Take(gs[n + 1], At(ps[n + 1] \o (left \o z), vals)) = At(left \o z, Append(vals, xs[n + 1]))
    BY <2>3, <2>5, <2>6, Zenon DEF Reads
  <2>9. QED
    BY <2>3, <2>4, <2>7, <2>8, Zenon DEF left
<1> HIDE DEF Good
<1>3. ASSUME Bad # {} PROVE FALSE
  <2>1. PICK n \in Bad : \A k \in Bad : n <= k
    <3>1. Bad \in SUBSET Nat
      BY <1>0
    <3>2. QED
      BY <1>3, <3>1, LeastNat
  <2>2. n # 0 /\ n \in 0 .. m /\ ~ Good(n)
    BY <1>1, <2>1
  <2>3. n - 1 \in 0 .. m /\ n - 1 < m /\ n - 1 + 1 = n /\ ~ (n <= n - 1)
    BY <1>0, <2>2
  <2>4. n - 1 \notin Bad
    BY <2>1, <2>3, Zenon
  <2>5. Good(n - 1)
    BY <2>3, <2>4
  <2>6. Good(n - 1 + 1)
    BY <1>2, <2>3, <2>5
  <2>7. QED
    BY <2>2, <2>3, <2>6
<1>4. Good(m)
  BY <1>0, <1>3
<1>5. QED
  BY <1>4 DEF Good

\* Less than the whole: a read fails, or what is left is too short.
CutAt(in, left, xs, n) ==
  Dead(in) \/ \E j \in Nat : j < Len(left) /\ in = At(SubSeq(left, 1, j), [i \in 1 .. n |-> xs[i]])

LEMMA FoldRefuses ==
  ASSUME NEW ps \in Seq(Seq(Byte)), NEW gs, NEW xs, NEW m \in 0 .. Len(ps), NEW k \in Nat,
         k < Len(FlattenSeq(ps)),
         NEW at, FoldsTo(at, gs, Len(ps), At(SubSeq(FlattenSeq(ps), 1, k), <<>>)),
         AllSound(gs, ps, xs, m)
  PROVE  CutAt(at[m], Left(ps, m), xs, m) /\ (m = Len(ps) => Dead(at[m]))
<1> DEFINE Good(n) == CutAt(at[n], Left(ps, n), xs, n)
           Bad == {n \in 0 .. m : ~ Good(n)}
<1>0. Len(ps) \in Nat /\ m \in Nat
  BY LenProperties
<1>1. Good(0)
  <2>1. [i \in 1 .. 0 |-> xs[i]] = <<>>
    OBVIOUS
  <2>2. Left(ps, 0) = FlattenSeq(ps)
    BY LeftIs, <1>0
  <2>3. at[0] = At(SubSeq(FlattenSeq(ps), 1, k), <<>>)
    BY <1>0, FoldStep
  <2>4. QED
    BY <2>1, <2>2, <2>3, Zenon DEF CutAt
<1>2. ASSUME NEW n \in 0 .. m, n < m, Good(n) PROVE Good(n + 1)
  <2> DEFINE vals == [i \in 1 .. n |-> xs[i]]
             T == {xs[i] : i \in 1 .. n + 1}
             left == Left(ps, n + 1)
             p == ps[n + 1]
  <2>1. n \in 0 .. Len(ps) /\ n < Len(ps) /\ n \in Nat /\ n \in 0 .. Len(ps) - 1 /\ n + 1 \in 1 .. m
        /\ n + 1 \in 0 .. Len(ps)
    BY <1>0, <1>2
  <2>2. p \in Seq(Byte) /\ Left(ps, n) = p \o left /\ left \in Seq(Byte)
    BY <2>1, LeftIs
  <2>3. vals \in Seq(T) /\ Append(vals, xs[n + 1]) = [i \in 1 .. n + 1 |-> xs[i]]
    BY <2>1, OneMore
  <2>4. at[n + 1] = Take(gs[n + 1], at[n])
    BY <1>0, <2>1, FoldStep
  <2>5. Reads(gs[n + 1], p, xs[n + 1]) /\ Refuses(gs[n + 1], p) /\ StaysDead(gs[n + 1])
    BY <2>1 DEF AllSound, Sound
  <2> HIDE DEF T, left, p
  <2>6. CASE Dead(at[n])
    <3>1. Dead(at[n + 1])
      BY <2>4, <2>5, <2>6, Zenon DEF StaysDead
    <3>2. QED
      BY <3>1 DEF CutAt
  <2>7. CASE ~ Dead(at[n])
    <3>1. PICK j \in Nat : j < Len(p \o left) /\ at[n] = At(SubSeq(p \o left, 1, j), vals)
      BY <1>2, <2>2, <2>7, Zenon DEF CutAt
    <3> HIDE DEF vals
    <3>2. Len(p) \in Nat /\ Len(left) \in Nat /\ Len(p \o left) = Len(p) + Len(left)
      BY <2>2, ConcatProperties, LenProperties
    <3>3. j \in 0 .. Len(p) + Len(left)
      BY <3>1, <3>2
    <3>4. CASE j < Len(p)
      <4>1. SubSeq(p \o left, 1, j) = SubSeq(p, 1, j)
        BY <2>2, <3>2, <3>3, <3>4, CutConcat
      <4>2. Dead(Take(gs[n + 1], At(SubSeq(p, 1, j), vals)))
        BY <2>5, <3>4, Zenon DEF Refuses
      <4>3. QED
        BY <2>4, <3>1, <4>1, <4>2 DEF CutAt
    <3>5. CASE j >= Len(p)
      <4> DEFINE i == j - Len(p)
                 c == SubSeq(left, 1, i)
      <4>1. i \in 0 .. Len(left) /\ i \in Nat /\ i < Len(left)
        BY <3>1, <3>2, <3>5
      <4>2. SubSeq(p \o left, 1, j) = p \o c
        BY <2>2, <3>3, <3>5, CutConcat, SMTT(60)
      <4>3. c \in Seq(Byte)
        BY <2>2, <4>1, PrefixIs
      <4> HIDE DEF i, c
      <4>4. Take(gs[n + 1], At(p \o c, vals)) = At(c, Append(vals, xs[n + 1]))
        BY <2>3, <2>5, <4>3, Zenon DEF Reads
      <4>5. at[n + 1] = At(SubSeq(left, 1, i), [h \in 1 .. n + 1 |-> xs[h]])
        BY <2>3, <2>4, <3>1, <4>2, <4>4 DEF c
      <4>6. CutAt(at[n + 1], left, xs, n + 1)
        BY <4>1, <4>5, Zenon DEF CutAt
      <4>7. QED
        BY <4>6 DEF left
    <3>6. j < Len(p) \/ j >= Len(p)
      BY <3>1, <3>2
    <3>7. QED
      BY <3>4, <3>5, <3>6
  <2>8. QED
    BY <2>6, <2>7
<1> HIDE DEF Good
<1>3. ASSUME Bad # {} PROVE FALSE
  <2>1. PICK n \in Bad : \A h \in Bad : n <= h
    <3>1. Bad \in SUBSET Nat
      BY <1>0
    <3>2. QED
      BY <1>3, <3>1, LeastNat
  <2>2. n # 0 /\ n \in 0 .. m /\ ~ Good(n)
    BY <1>1, <2>1
  <2>3. n - 1 \in 0 .. m /\ n - 1 < m /\ n - 1 + 1 = n /\ ~ (n <= n - 1)
    BY <1>0, <2>2
  <2>4. n - 1 \notin Bad
    BY <2>1, <2>3, Zenon
  <2>5. Good(n - 1)
    BY <2>3, <2>4
  <2>6. Good(n - 1 + 1)
    BY <1>2, <2>3, <2>5
  <2>7. QED
    BY <2>2, <2>3, <2>6
<1>4. Good(m)
  BY <1>0, <1>3
<1>5. ASSUME m = Len(ps) PROVE Dead(at[m])
  <2>1. Left(ps, m) = <<>> /\ Len(<<>>) = 0
    BY <1>0, <1>5, LeftIs
  <2>2. ~ \E j \in Nat : j < Len(Left(ps, m))
    BY <2>1
  <2>3. QED
    BY <1>4, <2>2, Zenon DEF Good, CutAt
<1>6. QED
  BY <1>4, <1>5 DEF Good

LEMMA FoldStaysDead ==
  ASSUME NEW gs, NEW n \in Nat, NEW in, Dead(in), NEW at, FoldsTo(at, gs, n, in),
         AllStayDead(gs, n)
  PROVE  Dead(at[n])
<1> DEFINE Bad == {i \in 0 .. n : ~ Dead(at[i])}
<1>1. ASSUME Bad # {} PROVE FALSE
  <2>1. PICK m \in Bad : \A k \in Bad : m <= k
    <3>1. Bad \in SUBSET Nat
      OBVIOUS
    <3>2. QED
      BY <1>1, <3>1, LeastNat
  <2>2. m # 0
    BY <2>1, FoldStep
  <2>3. m - 1 \in 0 .. n /\ m - 1 \in 0 .. n - 1 /\ m - 1 + 1 = m /\ ~ (m <= m - 1) /\ m \in 1 .. n
    BY <2>1, <2>2
  <2>4. m - 1 \notin Bad
    BY <2>1, <2>3, Zenon
  <2>5. Dead(at[m - 1])
    BY <2>3, <2>4
  <2>6. at[m - 1 + 1] = Take(gs[m - 1 + 1], at[m - 1])
    BY <2>3, FoldStep
  <2>7. Dead(at[m])
    BY <2>3, <2>5, <2>6 DEF StaysDead, AllStayDead
  <2>8. QED
    BY <2>1, <2>7
<1>2. QED
  BY <1>1
-----------------------------------------------------------------------------
(* Items.                                                                  *)

FlatParts(item) == [i \in 1 .. Len(item) |-> [how |-> "flat", what |-> item[i]]]
ItemPart(item) == [how |-> "item", what |-> item]
FieldPart(f) == [how |-> "field", what |-> f]

LEMMA TakeIs ==
  ASSUME NEW x, NEW in
  PROVE  /\ Take([how |-> "flat", what |-> x], in) = GetFlat(in, x)
         /\ Take(ItemPart(x), in) = GetItem(in, x)
         /\ Take(FieldPart(x), in) = Get(in, x)
BY DEF Take, ItemPart, FieldPart

\* A flat field does what a read does.
LEMMA FlatSound ==
  ASSUME NEW f \in FlatFields, NEW v, FlatValue(f, v), FitsFlat(f, v)
  PROVE  /\ Sound([how |-> "flat", what |-> f], PutFlat(f, v), v)
         /\ PutFlat(f, v) \in Seq(Byte)
<1> DEFINE g == [how |-> "flat", what |-> f]
           p == PutFlat(f, v)
<1>1. \A in : Take(g, in) = GetFlat(in, f)
  BY TakeIs
<1> HIDE DEF g
<1>2. p \in Seq(Byte)
  <2>1. <<>> \in Seq(Byte)
    OBVIOUS
  <2>2. QED
    BY <2>1, FlatIs
<1>3. Reads(g, p, v)
  <2>1. ASSUME NEW T, NEW z \in Seq(Byte), NEW vals \in Seq(T)
        PROVE  GetFlat(At(p \o z, vals), f) = At(z, Append(vals, v))
    BY FlatIs
  <2>2. QED
    BY <1>1, <2>1, Zenon DEF Reads
<1>4. Refuses(g, p)
  <2>1. ASSUME NEW k \in Nat, k < Len(p), NEW vals
        PROVE  Dead(GetFlat(At(SubSeq(p, 1, k), vals), f))
    BY <2>1, FlatShort
  <2>2. QED
    BY <1>1, <2>1, Zenon DEF Refuses
<1>5. StaysDead(g)
  BY <1>1, FlatDead DEF StaysDead
<1>6. QED
  BY <1>2, <1>3, <1>4, <1>5 DEF Sound, g

LEMMA ItemFolds ==
  ASSUME NEW in, NEW item, Len(item) \in Nat
  PROVE  FoldsTo(InItem(in, item), FlatParts(item), Len(item), in)
<1> DEFINE gs == FlatParts(item)
           body(at) == [n \in 0 .. Len(item) |-> IF n = 0 THEN in ELSE GetFlat(at[n - 1], item[n])]
           fold(at) == [n \in 0 .. Len(item) |-> IF n = 0 THEN in ELSE Take(gs[n], at[n - 1])]
<1>1. ASSUME NEW at PROVE body(at) = fold(at)
  <2>1. ASSUME NEW n \in 0 .. Len(item), n # 0 PROVE Take(gs[n], at[n - 1]) = GetFlat(at[n - 1], item[n])
    <3>1. n \in 1 .. Len(item)
      BY <2>1
    <3>2. gs[n] = [how |-> "flat", what |-> item[n]]
      BY <3>1 DEF FlatParts
    <3>3. QED
      BY <3>2, TakeIs
  <2> HIDE DEF gs
  <2>2. \A n \in 0 .. Len(item) : (IF n = 0 THEN in ELSE GetFlat(at[n - 1], item[n]))
                                 = (IF n = 0 THEN in ELSE Take(gs[n], at[n - 1]))
    BY <2>1
  <2>3. QED
    BY <2>2
<1>2. \E at : at = fold(at)
  <2>1. PICK at : FoldsTo(at, gs, Len(item), in)
    BY FoldExists
  <2>2. QED
    BY <2>1, Zenon DEF FoldsTo
<1>3. InItem(in, item) = CHOOSE at : at = body(at)
  BY DEF InItem
<1> HIDE DEF body, fold
<1>4. InItem(in, item) = fold(InItem(in, item))
  BY <1>1, <1>2, <1>3, Zenon
<1>5. QED
  BY <1>4 DEF fold, FoldsTo

\* The parts of an item.
PartsOf(item, v) == [i \in DOMAIN item |-> PutFlat(item[i], v[i])]

LEMMA ItemParts ==
  ASSUME NEW item \in Seq(FlatFields), NEW v, FlatValues(item, v),
         \A n \in DOMAIN item : FitsFlat(item[n], v[n])
  PROVE  /\ Len(item) \in Nat /\ PartsOf(item, v) \in Seq(Seq(Byte))
         /\ Len(PartsOf(item, v)) = Len(item)
         /\ v = [i \in 1 .. Len(item) |-> v[i]]
         /\ AllSound(FlatParts(item), PartsOf(item, v), v, Len(item))
         /\ AllStayDead(FlatParts(item), Len(item))
         /\ Concat(item, v) = FlattenSeq(PartsOf(item, v)) /\ Concat(item, v) \in Seq(Byte)
<1> DEFINE ps == PartsOf(item, v)
           gs == FlatParts(item)
<1>1. Len(item) \in Nat /\ DOMAIN item = 1 .. Len(item)
  BY LenProperties
<1>2. ASSUME NEW i \in 1 .. Len(item)
      PROVE  /\ Sound(gs[i], ps[i], v[i]) /\ ps[i] \in Seq(Byte)
             /\ StaysDead(gs[i])
  <2>1. item[i] \in FlatFields
    BY ElementOfSeq
  <2>2. FlatValue(item[i], v[i]) /\ FitsFlat(item[i], v[i])
    BY <1>1 DEF FlatValues
  <2>3. gs[i] = [how |-> "flat", what |-> item[i]] /\ ps[i] = PutFlat(item[i], v[i])
    BY <1>1 DEF FlatParts, PartsOf
  <2>4. QED
    BY <2>1, <2>2, <2>3, FlatSound, Zenon DEF Sound
<1>3. ps \in [1 .. Len(item) -> Seq(Byte)]
  BY <1>1, <1>2 DEF PartsOf
<1>4. ps \in Seq(Seq(Byte)) /\ Len(ps) = Len(item)
  <2> HIDE DEF ps
  <2>1. QED
    BY <1>1, <1>3
<1>5. v = [i \in 1 .. Len(item) |-> v[i]]
  BY <1>1, Zenon DEF FlatValues
<1>6. Concat(item, v) = FlattenSeq(ps)
  BY DEF Concat, PartsOf
<1>7. Concat(item, v) \in Seq(Byte)
  BY <1>4, <1>6, FlattenType
<1>8. AllSound(gs, ps, v, Len(item)) /\ AllStayDead(gs, Len(item))
  BY <1>2, Zenon DEF AllSound, AllStayDead
<1>9. QED
  BY <1>1, <1>4, <1>5, <1>6, <1>7, <1>8
-----------------------------------------------------------------------------
\* An item does what a read does.
LEMMA ItemReads ==
  ASSUME NEW item \in Seq(FlatFields), NEW v, FlatValues(item, v),
         \A n \in DOMAIN item : FitsFlat(item[n], v[n])
  PROVE  Reads(ItemPart(item), Concat(item, v), v)
<1> DEFINE ps == PartsOf(item, v)
           gs == FlatParts(item)
           m == Len(item)
           p == Concat(item, v)
<1>1. /\ m \in Nat /\ ps \in Seq(Seq(Byte)) /\ Len(ps) = m /\ v = [i \in 1 .. m |-> v[i]]
      /\ AllSound(gs, ps, v, m) /\ p = FlattenSeq(ps) /\ p \in Seq(Byte)
  BY ItemParts
<1> HIDE DEF ps, gs, m, p
<1>2. ASSUME NEW T, NEW z \in Seq(Byte), NEW vals \in Seq(T)
      PROVE  GetItem(At(p \o z, vals), item) = At(z, Append(vals, v))
  <2> DEFINE in == At(p \o z, vals)
             start == At(p \o z, <<>>)
             at == InItem(start, item)
             r == at[m]
  <2>1. [in EXCEPT !.vals = <<>>] = start /\ in.vals = vals
    BY AtVals, AtIs
  <2>2. GetItem(in, item) = [r EXCEPT !.vals = Append(vals, r.vals)]
    BY <2>1, Zenon DEF GetItem, m
  <2>3. FoldsTo(at, gs, Len(ps), start)
    BY <1>1, ItemFolds DEF gs, m
  <2> HIDE DEF at
  <2>4. r = At(Left(ps, m) \o z, [i \in 1 .. m |-> v[i]])
    <3>1. m \in 0 .. Len(ps)
      BY <1>1
    <3>2. FoldsTo(at, gs, Len(ps), At(FlattenSeq(ps) \o z, <<>>))
      BY <1>1, <2>3
    <3>3. QED
      BY <1>1, <3>1, <3>2, FoldReads
  <2>5. Left(ps, m) \o z = z
    <3>1. Left(ps, Len(ps)) = <<>>
      <4>1. 0 \in 0 .. Len(ps)
        BY <1>1
      <4>2. QED
        BY <1>1, <4>1, LeftIs
    <3>2. QED
      BY <1>1, <3>1, ConcatEmptySeq
  <2>6. r = At(z, v)
    BY <1>1, <2>4, <2>5, Zenon
  <2>7. r.vals = v
    BY <2>6, AtIs
  <2>8. GetItem(in, item) = [At(z, v) EXCEPT !.vals = Append(vals, v)]
    BY <2>2, <2>6, <2>7, Zenon
  <2>9. QED
    BY <2>8, AtVals, Zenon
<1>3. QED
  BY <1>2, TakeIs, Zenon DEF Reads, p

LEMMA ItemRefuses ==
  ASSUME NEW item \in Seq(FlatFields), NEW v, FlatValues(item, v),
         \A n \in DOMAIN item : FitsFlat(item[n], v[n])
  PROVE  Refuses(ItemPart(item), Concat(item, v))
<1> DEFINE ps == PartsOf(item, v)
           gs == FlatParts(item)
           m == Len(item)
           p == Concat(item, v)
<1>1. /\ m \in Nat /\ ps \in Seq(Seq(Byte)) /\ Len(ps) = m
      /\ AllSound(gs, ps, v, m) /\ p = FlattenSeq(ps) /\ p \in Seq(Byte)
  BY ItemParts
<1> HIDE DEF ps, gs, m, p
<1>2. ASSUME NEW k \in Nat, k < Len(p), NEW vals
      PROVE  Dead(GetItem(At(SubSeq(p, 1, k), vals), item))
  <2> DEFINE in == At(SubSeq(p, 1, k), vals)
             start == At(SubSeq(p, 1, k), <<>>)
             at == InItem(start, item)
             r == at[m]
  <2>1. [in EXCEPT !.vals = <<>>] = start
    BY AtVals
  <2>2. GetItem(in, item) = [r EXCEPT !.vals = Append(in.vals, r.vals)]
    BY <2>1, Zenon DEF GetItem, m
  <2>3. FoldsTo(at, gs, Len(ps), start)
    BY <1>1, ItemFolds DEF gs, m
  <2> HIDE DEF at
  <2>4. Dead(r)
    <3>1. m \in 0 .. Len(ps) /\ m = Len(ps) /\ k < Len(FlattenSeq(ps))
      BY <1>1, <1>2
    <3>2. FoldsTo(at, gs, Len(ps), At(SubSeq(FlattenSeq(ps), 1, k), <<>>))
      BY <1>1, <2>3
    <3>3. QED
      BY <1>1, <3>1, <3>2, FoldRefuses
  <2> HIDE DEF r
  <2>5. \A c : Dead([r EXCEPT !.vals = c])
    BY <2>4, DeadVals
  <2>6. QED
    BY <2>2, <2>5 DEF in
<1>3. QED
  BY <1>2, TakeIs, Zenon DEF Refuses, p

LEMMA ItemStaysDead ==
  ASSUME NEW item \in Seq(FlatFields)
  PROVE  StaysDead(ItemPart(item))
<1>1. Len(item) \in Nat
  BY LenProperties
<1>2. AllStayDead(FlatParts(item), Len(item))
  <2>1. ASSUME NEW i \in 1 .. Len(item) PROVE StaysDead(FlatParts(item)[i])
    <3>1. item[i] \in FlatFields /\ FlatParts(item)[i] = [how |-> "flat", what |-> item[i]]
      BY <1>1, ElementOfSeq DEF FlatParts
    <3>2. ASSUME NEW in, Dead(in) PROVE Dead(Take(FlatParts(item)[i], in))
      <4>1. Take(FlatParts(item)[i], in) = GetFlat(in, item[i])
        BY <3>1, TakeIs, Zenon
      <4>2. QED
        BY <3>1, <3>2, <4>1, FlatDead, Zenon
    <3>3. QED
      BY <3>2, Zenon DEF StaysDead
  <2>2. QED
    BY <2>1, Zenon DEF AllStayDead
<1>3. ASSUME NEW in, Dead(in) PROVE Dead(GetItem(in, item))
  <2> DEFINE start == [in EXCEPT !.vals = <<>>]
             at == InItem(start, item)
             r == at[Len(item)]
  <2>1. GetItem(in, item) = [r EXCEPT !.vals = Append(in.vals, r.vals)]
    BY Zenon DEF GetItem
  <2>2. Dead(start)
    BY <1>3, DeadVals, Zenon
  <2> HIDE DEF start
  <2>3. FoldsTo(at, FlatParts(item), Len(item), start)
    BY <1>1, ItemFolds
  <2> HIDE DEF at
  <2>4. Dead(r)
    BY <1>1, <1>2, <2>2, <2>3, FoldStaysDead
  <2> HIDE DEF r
  <2>5. \A c : Dead([r EXCEPT !.vals = c])
    BY <2>4, DeadVals
  <2>6. QED
    BY <2>1, <2>5
<1>4. QED
  BY <1>3, TakeIs, Zenon DEF StaysDead

LEMMA ItemSound ==
  ASSUME NEW item \in Seq(FlatFields), NEW v, FlatValues(item, v),
         \A n \in DOMAIN item : FitsFlat(item[n], v[n])
  PROVE  Sound(ItemPart(item), Concat(item, v), v) /\ Concat(item, v) \in Seq(Byte)
BY ItemReads, ItemRefuses, ItemStaysDead, ItemParts DEF Sound
-----------------------------------------------------------------------------
(* Lists: a count and as many items.                                       *)

IsList(f) == f.k = "list" /\ f.item \in Seq(FlatFields) /\ f.max \in 0 .. Radix4 - 1
ItemsFit(f, v) == \A j \in DOMAIN v, n \in DOMAIN f.item : FitsFlat(f.item[n], v[j][n])
EveryItem(item, n) == [j \in 1 .. n |-> ItemPart(item)]
Items(f, v) == [j \in DOMAIN v |-> Concat(f.item, v[j])]

LEMMA ListFolds ==
  ASSUME NEW in, NEW item, NEW count \in Nat
  PROVE  FoldsTo(InList(in, item, count), EveryItem(item, count), count, in)
<1> DEFINE gs == EveryItem(item, count)
           body(at) == [n \in 0 .. count |-> IF n = 0 THEN in ELSE GetItem(at[n - 1], item)]
           fold(at) == [n \in 0 .. count |-> IF n = 0 THEN in ELSE Take(gs[n], at[n - 1])]
<1>1. ASSUME NEW at PROVE body(at) = fold(at)
  <2>1. ASSUME NEW n \in 0 .. count, n # 0 PROVE Take(gs[n], at[n - 1]) = GetItem(at[n - 1], item)
    <3>1. n \in 1 .. count
      BY <2>1
    <3>2. gs[n] = ItemPart(item)
      BY <3>1 DEF EveryItem
    <3>3. QED
      BY <3>2, TakeIs
  <2> HIDE DEF gs
  <2>2. \A n \in 0 .. count : (IF n = 0 THEN in ELSE GetItem(at[n - 1], item))
                            = (IF n = 0 THEN in ELSE Take(gs[n], at[n - 1]))
    BY <2>1
  <2>3. QED
    BY <2>2
<1>2. \E at : at = fold(at)
  <2>1. PICK at : FoldsTo(at, gs, count, in)
    BY FoldExists
  <2>2. QED
    BY <2>1, Zenon DEF FoldsTo
<1>3. InList(in, item, count) = CHOOSE at : at = body(at)
  BY DEF InList
<1> HIDE DEF body, fold
<1>4. InList(in, item, count) = fold(InList(in, item, count))
  BY <1>1, <1>2, <1>3, Zenon
<1>5. QED
  BY <1>4 DEF fold, FoldsTo

\* A list, its count and its items.
LEMMA ListParts ==
  ASSUME NEW f, IsList(f), NEW v, Value(f, v), ItemsFit(f, v)
  PROVE  /\ Len(v) \in Nat /\ Len(v) <= f.max /\ Len(v) \in 0 .. Values(4) - 1
         /\ v = [j \in 1 .. Len(v) |-> v[j]]
         /\ Items(f, v) \in Seq(Seq(Byte)) /\ Len(Items(f, v)) = Len(v)
         /\ AllSound(EveryItem(f.item, Len(v)), Items(f, v), v, Len(v))
         /\ Put(f, v) = StoreBE(Len(v), 4) \o FlattenSeq(Items(f, v))
         /\ StoreBE(Len(v), 4) \in Seq(Byte) /\ Len(StoreBE(Len(v), 4)) = 4
         /\ FlattenSeq(Items(f, v)) \in Seq(Byte) /\ Put(f, v) \in Seq(Byte)
<1>1. PICK n \in 0 .. f.max : v = [j \in 1 .. n |-> v[j]] /\ \A j \in 1 .. n : FlatValues(f.item, v[j])
  <2>1. f.k = "list"
    BY DEF IsList
  <2>2. \E n \in 0 .. f.max : v = [j \in 1 .. n |-> v[j]] /\ \A j \in 1 .. n : FlatValues(f.item, v[j])
    BY <2>1 DEF Value
  <2>3. QED
    BY <2>2, Zenon
<1>2. n \in Nat /\ n <= f.max /\ n \in 0 .. Values(4) - 1
  <2>1. PICK x : x = f.max
    OBVIOUS
  <2>2. x \in 0 .. Radix4 - 1
    BY <2>1 DEF IsList
  <2>3. n \in 0 .. x
    BY <1>1, <2>1
  <2>4. n \in Nat /\ n <= x /\ n \in 0 .. Radix4 - 1
    BY <2>2, <2>3, RadixFacts
  <2>5. QED
    BY <2>1, <2>4, LimitFacts
<1>3. DOMAIN v = 1 .. n /\ Len(v) = n
  <2>1. DOMAIN v = 1 .. n
    BY <1>1, Zenon
  <2>2. Len([j \in 1 .. n |-> v[j]]) = n
    BY <1>2
  <2>3. QED
    BY <1>1, <2>1, <2>2, Zenon
<1> DEFINE ps == Items(f, v)
           gs == EveryItem(f.item, n)
<1>4. ASSUME NEW j \in 1 .. n
      PROVE  Sound(gs[j], ps[j], v[j]) /\ ps[j] \in Seq(Byte)
  <2>1. gs[j] = ItemPart(f.item) /\ ps[j] = Concat(f.item, v[j])
    BY <1>3 DEF EveryItem, Items
  <2>2. \A i \in DOMAIN f.item : FitsFlat(f.item[i], v[j][i])
    BY <1>3, Zenon DEF ItemsFit
  <2>3. FlatValues(f.item, v[j]) /\ f.item \in Seq(FlatFields)
    BY <1>1, Zenon DEF IsList
  <2>4. QED
    BY <2>1, <2>2, <2>3, ItemSound
<1>5. ps \in [1 .. n -> Seq(Byte)]
  BY <1>3, <1>4 DEF Items
<1>6. ps \in Seq(Seq(Byte)) /\ Len(ps) = n
  <2> HIDE DEF ps
  <2>1. QED
    BY <1>2, <1>5
<1>7. AllSound(gs, ps, v, n)
  BY <1>4, Zenon DEF AllSound
<1>8. Put(f, v) = StoreBE(Len(v), 4) \o FlattenSeq(ps)
  BY DEF Put, Items, IsList
<1>9. StoreBE(n, 4) \in Seq(Byte) /\ Len(StoreBE(n, 4)) = 4
  BY <1>2, StoreLoad, WidthsAre
<1>10. FlattenSeq(ps) \in Seq(Byte)
  BY <1>6, FlattenType
<1>11. v = [j \in 1 .. Len(v) |-> v[j]]
  BY <1>1, <1>3, Zenon
<1>12. Put(f, v) \in Seq(Byte)
  BY <1>3, <1>8, <1>9, <1>10, ConcatProperties
<1>13. QED
  BY <1>2, <1>3, <1>6, <1>7, <1>8, <1>9, <1>10, <1>11, <1>12

LEMMA ListIs ==
  ASSUME NEW f, NEW in, f.k = "list"
  PROVE  /\ Get(in, f) = get_list(in, f)
         /\ Short(in, 4) => get_list(in, f) = Failed(in)
         /\ \A n : ~ Short(in, 4) /\ n = LoadBE(First(in, 4)) /\ ~ (n > f.max) =>
              LET r == InList([Skipped(in, 4) EXCEPT !.vals = <<>>], f.item, n)[n] IN
              get_list(in, f) = [r EXCEPT !.vals = Append(in.vals, r.vals)]
<1>1. Get(in, f) = get_list(in, f)
  BY DEF Get
<1>2. Short(in, 4) => get_list(in, f) = Failed(in)
  BY Zenon DEF get_list
<1>3. ASSUME NEW n, ~ Short(in, 4), n = LoadBE(First(in, 4)), ~ (n > f.max)
      PROVE  LET r == InList([Skipped(in, 4) EXCEPT !.vals = <<>>], f.item, n)[n] IN
             get_list(in, f) = [r EXCEPT !.vals = Append(in.vals, r.vals)]
  BY <1>3, Zenon DEF get_list
<1>4. QED
  BY <1>1, <1>2, <1>3, Zenon

LEMMA ListReads ==
  ASSUME NEW f, IsList(f), NEW v, Value(f, v), ItemsFit(f, v)
  PROVE  Reads(FieldPart(f), Put(f, v), v)
<1> DEFINE ps == Items(f, v)
           m == Len(v)
           c == StoreBE(m, 4)
           q == FlattenSeq(ps)
           gs == EveryItem(f.item, m)
<1>1. /\ m \in Nat /\ m <= f.max /\ m \in 0 .. Values(4) - 1 /\ ps \in Seq(Seq(Byte)) /\ Len(ps) = m
      /\ v = [j \in 1 .. m |-> v[j]] /\ AllSound(gs, ps, v, m) /\ Put(f, v) = c \o q
      /\ c \in Seq(Byte) /\ q \in Seq(Byte)
  BY ListParts
<1> HIDE DEF ps, m, gs
<1>2. ASSUME NEW T, NEW z \in Seq(Byte), NEW vals \in Seq(T)
      PROVE  Get(At((c \o q) \o z, vals), f) = At(z, Append(vals, v))
  <2> DEFINE in == At((c \o q) \o z, vals)
             start == At(q \o z, <<>>)
             at == InList(start, f.item, m)
             r == at[m]
  <2>1. (c \o q) \o z = c \o (q \o z) /\ q \o z \in Seq(Byte)
    BY <1>1, BytesAssociate
  <2>2. ~ Short(in, 4) /\ m = LoadBE(First(in, 4)) /\ Skipped(in, 4) = At(q \o z, vals)
    <3>1. PICK y \in Seq(Byte) : y = q \o z
      BY <2>1
    <3>2. /\ ~ Short(At(c \o y, vals), 4) /\ LoadBE(First(At(c \o y, vals), 4)) = m
          /\ Skipped(At(c \o y, vals), 4) = At(y, vals)
      BY <1>1, NumberIs, WidthsAre
    <3>3. QED
      BY <2>1, <3>1, <3>2
  <2>3. [Skipped(in, 4) EXCEPT !.vals = <<>>] = start /\ in.vals = vals
    BY <2>2, AtVals, AtIs
  <2>4. ~ (m > f.max) /\ f.k = "list"
    BY <1>1 DEF IsList
  <2>5. Get(in, f) = [r EXCEPT !.vals = Append(vals, r.vals)]
    <3> HIDE DEF in, start
    <3>1. Get(in, f) = get_list(in, f)
      BY <2>4, ListIs, Zenon
    <3>2. LET s == InList([Skipped(in, 4) EXCEPT !.vals = <<>>], f.item, m)[m] IN
          get_list(in, f) = [s EXCEPT !.vals = Append(in.vals, s.vals)]
      BY <2>2, <2>4, ListIs
    <3>3. QED
      BY <2>3, <3>1, <3>2, Zenon
  <2>6. FoldsTo(at, gs, Len(ps), start)
    BY <1>1, ListFolds DEF gs
  <2> HIDE DEF at
  <2>7. r = At(Left(ps, m) \o z, [i \in 1 .. m |-> v[i]])
    <3>1. m \in 0 .. Len(ps)
      BY <1>1
    <3>2. FoldsTo(at, gs, Len(ps), At(FlattenSeq(ps) \o z, <<>>))
      BY <2>6
    <3>3. QED
      <4>1. at[m] = At(Left(ps, m) \o z, [i \in 1 .. m |-> v[i]])
        BY <1>1, <3>1, <3>2, FoldReads
      <4>2. QED
        BY <4>1
  <2>8. Left(ps, m) \o z = z
    <3>1. Left(ps, Len(ps)) = <<>>
      <4>1. 0 \in 0 .. Len(ps)
        BY <1>1
      <4>2. QED
        BY <1>1, <4>1, LeftIs
    <3>2. QED
      BY <1>1, <3>1, ConcatEmptySeq
  <2>9. r = At(z, v)
    BY <1>1, <2>7, <2>8, Zenon
  <2>10. r.vals = v
    BY <2>9, AtIs
  <2>11. Get(in, f) = [At(z, v) EXCEPT !.vals = Append(vals, v)]
    BY <2>5, <2>9, <2>10, Zenon
  <2>12. QED
    BY <2>11, AtVals, Zenon
<1>3. QED
  BY <1>1, <1>2, TakeIs, ZenonT(60) DEF Reads
-----------------------------------------------------------------------------
LEMMA ListRefuses ==
  ASSUME NEW f, IsList(f), NEW v, Value(f, v), ItemsFit(f, v)
  PROVE  Refuses(FieldPart(f), Put(f, v))
<1> DEFINE ps == Items(f, v)
           m == Len(v)
           c == StoreBE(m, 4)
           q == FlattenSeq(ps)
           gs == EveryItem(f.item, m)
<1>1. /\ m \in Nat /\ m <= f.max /\ m \in 0 .. Values(4) - 1 /\ ps \in Seq(Seq(Byte)) /\ Len(ps) = m
      /\ AllSound(gs, ps, v, m) /\ Put(f, v) = c \o q
      /\ c \in Seq(Byte) /\ q \in Seq(Byte) /\ Len(c) = 4
  BY ListParts
<1> HIDE DEF ps, m, gs
<1>2. ~ (m > f.max) /\ f.k = "list"
  BY <1>1 DEF IsList
<1>3. Len(q) \in Nat /\ Len(c \o q) = 4 + Len(q)
  <2>1. PICK x \in Seq(Byte), y \in Seq(Byte) : x = c /\ y = q
    BY <1>1
  <2>2. Len(x \o y) = Len(x) + Len(y) /\ Len(y) \in Nat
    BY ConcatProperties, LenProperties
  <2>3. QED
    BY <1>1, <2>1, <2>2
<1>4. ASSUME NEW k \in Nat, k < Len(c \o q), NEW vals
      PROVE  Dead(Get(At(SubSeq(c \o q, 1, k), vals), f))
  <2> DEFINE b == SubSeq(c \o q, 1, k)
             in == At(b, vals)
  <2>1. k \in 0 .. Len(c \o q) /\ c \o q \in Seq(Byte) /\ k \in 0 .. Len(c) + Len(q)
    BY <1>1, <1>3, <1>4, ConcatProperties
  <2>2. Len(b) = k
    BY <2>1, PrefixIs
  <2>3. CASE k < 4
    <3> HIDE DEF b
    <3>1. Short(in, 4)
      BY <2>2, <2>3, NumberShort, WidthsAre
    <3>2. Get(in, f) = Failed(in)
      BY <1>2, <3>1, ListIs, Zenon
    <3>3. QED
      BY <3>2, DeadAt, Zenon DEF b
  <2>4. CASE k >= 4
    <3> DEFINE j == k - 4
               d == SubSeq(q, 1, j)
               start == At(d, <<>>)
               at == InList(start, f.item, m)
               r == at[m]
    <3>1. j \in 0 .. Len(q) /\ j \in Nat /\ j < Len(q) /\ k >= Len(c) /\ k - Len(c) = j
      BY <1>1, <1>3, <1>4, <2>4
    <3>2. b = c \o d
      <4>1. b = c \o SubSeq(q, 1, k - Len(c))
        BY <1>1, <2>1, <3>1, CutConcat, SMTT(60)
      <4>2. QED
        BY <3>1, <4>1
    <3>3. d \in Seq(Byte)
      BY <1>1, <3>1, PrefixIs
    <3> HIDE DEF b, j, d
    <3>4. ~ Short(in, 4) /\ m = LoadBE(First(in, 4)) /\ Skipped(in, 4) = At(d, vals)
      BY <1>1, <3>2, <3>3, NumberIs, WidthsAre
    <3>5. [Skipped(in, 4) EXCEPT !.vals = <<>>] = start
      BY <3>4, AtVals
    <3>6. Get(in, f) = [r EXCEPT !.vals = Append(in.vals, r.vals)]
      <4> HIDE DEF in, start
      <4>1. Get(in, f) = get_list(in, f)
        BY <1>2, ListIs, Zenon
      <4>2. LET s == InList([Skipped(in, 4) EXCEPT !.vals = <<>>], f.item, m)[m] IN
            get_list(in, f) = [s EXCEPT !.vals = Append(in.vals, s.vals)]
        BY <1>2, <3>4, ListIs
      <4>3. QED
        BY <3>5, <4>1, <4>2, Zenon
    <3>7. FoldsTo(at, gs, Len(ps), start)
      BY <1>1, ListFolds DEF gs
    <3> HIDE DEF at
    <3>8. Dead(r)
      <4>1. m \in 0 .. Len(ps) /\ m = Len(ps) /\ j < Len(FlattenSeq(ps))
        BY <1>1, <3>1
      <4>2. FoldsTo(at, gs, Len(ps), At(SubSeq(FlattenSeq(ps), 1, j), <<>>))
        BY <3>7 DEF d
      <4>3. QED
        BY <1>1, <3>1, <4>1, <4>2, FoldRefuses
    <3> HIDE DEF r
    <3>9. \A x : Dead([r EXCEPT !.vals = x])
      BY <3>8, DeadVals
    <3>10. QED
      BY <3>6, <3>9 DEF in, b
  <2>5. QED
    BY <2>3, <2>4
<1> HIDE DEF c, q
<1>5. PICK p : p = c \o q
  OBVIOUS
<1>6. ASSUME NEW k \in Nat, k < Len(p), NEW vals
      PROVE  Dead(Take(FieldPart(f), At(SubSeq(p, 1, k), vals)))
  BY <1>4, <1>5, <1>6, TakeIs
<1>7. Refuses(FieldPart(f), p)
  BY <1>6, Zenon DEF Refuses
<1>8. QED
  BY <1>1, <1>5, <1>7

LEMMA ListStaysDead ==
  ASSUME NEW f, IsList(f) PROVE StaysDead(FieldPart(f))
<1>1. ASSUME NEW in, Dead(in) PROVE Dead(Get(in, f))
  <2>1. Short(in, 4) /\ Dead(Failed(in))
    BY <1>1, DeadIs DEF Short
  <2>2. f.k = "list"
    BY DEF IsList
  <2>3. Get(in, f) = Failed(in)
    BY <2>1, <2>2, ListIs, Zenon
  <2>4. QED
    BY <2>1, <2>3
<1>2. QED
  BY <1>1, TakeIs, Zenon DEF StaysDead
-----------------------------------------------------------------------------
(* Messages.                                                               *)

LEMMA RestFacts == rest.k = "rest" /\ rest \notin FlatFields
<1>1. rest.k = "rest"
  BY DEF rest, Field
<1>2. QED
  BY <1>1, FlatKinds DEF Kinded

\* A field of a message other than the rest of it.
FieldFits(f, v) == IF f.k = "list" THEN ItemsFit(f, v) ELSE FitsFlat(f, v)

LEMMA FieldSound ==
  ASSUME NEW f, f \in FlatFields \/ IsList(f), NEW v, Value(f, v), FieldFits(f, v)
  PROVE  Sound(FieldPart(f), Put(f, v), v) /\ Put(f, v) \in Seq(Byte)
<1>1. CASE IsList(f)
  <2>1. ItemsFit(f, v)
    BY <1>1 DEF FieldFits, IsList
  <2>2. QED
    BY <1>1, <2>1, ListReads, ListRefuses, ListStaysDead, ListParts DEF Sound
<1>2. CASE f \in FlatFields
  <2> DEFINE g == [how |-> "flat", what |-> f]
  <2>1. f.k # "list"
    BY <1>2, FlatKinds DEF Kinded
  <2>2. FlatValue(f, v) /\ FitsFlat(f, v) /\ Put(f, v) = PutFlat(f, v) /\ \A in : Get(in, f) = GetFlat(in, f)
    BY <2>1 DEF Value, FieldFits, Put, Get
  <2>3. Sound(g, Put(f, v), v) /\ Put(f, v) \in Seq(Byte)
    BY <1>2, <2>2, FlatSound
  <2>4. \A in : Take(g, in) = Take(FieldPart(f), in)
    BY <2>2, TakeIs
  <2> HIDE DEF g
  <2>5. Reads(FieldPart(f), Put(f, v), v)
    BY <2>3, <2>4, Zenon DEF Sound, Reads
  <2>6. Refuses(FieldPart(f), Put(f, v))
    BY <2>3, <2>4, Zenon DEF Sound, Refuses
  <2>7. StaysDead(FieldPart(f))
    BY <2>3, <2>4, Zenon DEF Sound, StaysDead
  <2>8. QED
    BY <2>3, <2>5, <2>6, <2>7 DEF Sound
<1>3. QED
  BY <1>1, <1>2
-----------------------------------------------------------------------------
FieldParts(fields) == [i \in 1 .. Len(fields) |-> FieldPart(fields[i])]
Puts(fields, v) == [i \in DOMAIN fields |-> Put(fields[i], v[i])]
HasRest(fields) == Len(fields) # 0 /\ fields[Len(fields)] = rest
\* How many fields there are before the rest of the payload.
Solid(fields) == IF HasRest(fields) THEN Len(fields) - 1 ELSE Len(fields)

LEMMA MessageFolds ==
  ASSUME NEW in, NEW fields, Len(fields) \in Nat
  PROVE  FoldsTo(InMessage(in, fields), FieldParts(fields), Len(fields), in)
<1> DEFINE gs == FieldParts(fields)
           body(at) == [n \in 0 .. Len(fields) |-> IF n = 0 THEN in ELSE Get(at[n - 1], fields[n])]
           fold(at) == [n \in 0 .. Len(fields) |-> IF n = 0 THEN in ELSE Take(gs[n], at[n - 1])]
<1>1. ASSUME NEW at PROVE body(at) = fold(at)
  <2>1. ASSUME NEW n \in 0 .. Len(fields), n # 0 PROVE Take(gs[n], at[n - 1]) = Get(at[n - 1], fields[n])
    <3>1. n \in 1 .. Len(fields)
      BY <2>1
    <3>2. gs[n] = FieldPart(fields[n])
      BY <3>1 DEF FieldParts
    <3>3. QED
      BY <3>2, TakeIs
  <2> HIDE DEF gs
  <2>2. \A n \in 0 .. Len(fields) : (IF n = 0 THEN in ELSE Get(at[n - 1], fields[n]))
                                  = (IF n = 0 THEN in ELSE Take(gs[n], at[n - 1]))
    BY <2>1
  <2>3. QED
    BY <2>2
<1>2. \E at : at = fold(at)
  <2>1. PICK at : FoldsTo(at, gs, Len(fields), in)
    BY FoldExists
  <2>2. QED
    BY <2>1, Zenon DEF FoldsTo
<1>3. InMessage(in, fields) = CHOOSE at : at = body(at)
  BY DEF InMessage
<1> HIDE DEF body, fold
<1>4. InMessage(in, fields) = fold(InMessage(in, fields))
  BY <1>1, <1>2, <1>3, Zenon
<1>5. QED
  BY <1>4 DEF fold, FoldsTo

LEMMA FieldIs ==
  ASSUME NEW fields, Fields(fields), NEW i \in 1 .. Len(fields)
  PROVE  /\ fields[i] \in FlatFields \/ IsList(fields[i]) \/ (fields[i] = rest /\ i = Len(fields))
         /\ Len(fields) \in Nat /\ DOMAIN fields = 1 .. Len(fields)
         /\ i # Len(fields) => fields[i] \in FlatFields \/ IsList(fields[i])
<1>1. Len(fields) \in Nat /\ DOMAIN fields = 1 .. Len(fields)
  BY DEF Fields
<1>2. PICK f : f = fields[i]
  BY SMTT(60)
<1>3. \/ f \in FlatFields
      \/ f = rest /\ i = Len(fields)
      \/ f = ListOf(f.item, f.max) /\ f.item \in Seq(FlatFields) /\ f.max \in 0 .. Radix4 - 1
  BY <1>1, <1>2, Zenon DEF Fields
<1>4. f = ListOf(f.item, f.max) => f.k = "list"
  BY DEF ListOf
<1>5. QED
  BY <1>1, <1>2, <1>3, <1>4, Zenon DEF IsList

LEMMA MessageIs ==
  ASSUME NEW fields, Fields(fields), NEW v, ValuesOf(fields, v), Encodable(fields, v)
  PROVE  /\ Len(fields) \in Nat /\ Puts(fields, v) \in Seq(Seq(Byte))
         /\ Len(Puts(fields, v)) = Len(fields) /\ v = [i \in 1 .. Len(fields) |-> v[i]]
         /\ Encode(fields, v) = FlattenSeq(Puts(fields, v)) /\ Encode(fields, v) \in Seq(Byte)
         /\ Solid(fields) \in 0 .. Len(fields)
         /\ AllSound(FieldParts(fields), Puts(fields, v), v, Solid(fields))
         /\ HasRest(fields) => /\ v[Len(fields)] \in Seq(Byte)
                               /\ Puts(fields, v)[Len(fields)] = v[Len(fields)]
<1> DEFINE n == Len(fields)
           ps == Puts(fields, v)
           gs == FieldParts(fields)
<1>1. n \in Nat /\ DOMAIN fields = 1 .. n
  BY DEF Fields
<1>2. Solid(fields) \in 0 .. n
  BY <1>1 DEF Solid, HasRest
<1>3. ASSUME NEW i \in 1 .. n
      PROVE  Value(fields[i], v[i]) /\ FieldFits(fields[i], v[i]) /\ ps[i] = Put(fields[i], v[i])
             /\ gs[i] = FieldPart(fields[i])
  <2>1. Value(fields[i], v[i])
    BY <1>1, Zenon DEF ValuesOf
  <2>2. FieldFits(fields[i], v[i])
    BY <1>1, Zenon DEF Encodable, FieldFits, ItemsFit
  <2>3. ps[i] = Put(fields[i], v[i])
    BY <1>1 DEF Puts
  <2>4. gs[i] = FieldPart(fields[i])
    BY DEF FieldParts
  <2>5. QED
    BY <2>1, <2>2, <2>3, <2>4
<1>4. ASSUME NEW i \in 1 .. n, fields[i] = rest PROVE v[i] \in Seq(Byte) /\ ps[i] = v[i]
  <2>1. Value(rest, v[i])
    BY <1>3, <1>4
  <2>2. FlatValue(rest, v[i])
    BY <2>1, RestFacts DEF Value
  <2>3. v[i] \in Seq(Byte)
    BY <2>2, RestFacts, FlatValueIs
  <2>4. Put(rest, v[i]) = PutFlat(rest, v[i])
    BY RestFacts DEF Put
  <2>5. PutFlat(rest, v[i]) = v[i]
    BY RestFacts, PutFlatIs
  <2>6. QED
    BY <1>3, <1>4, <2>3, <2>4, <2>5
<1>5. ASSUME NEW i \in 1 .. n, fields[i] \in FlatFields \/ IsList(fields[i])
      PROVE  Sound(gs[i], ps[i], v[i]) /\ ps[i] \in Seq(Byte)
  BY <1>3, <1>5, FieldSound
<1>6. ASSUME NEW i \in 1 .. n PROVE ps[i] \in Seq(Byte)
  BY <1>4, <1>5, FieldIs
<1>7. ps \in [1 .. n -> Seq(Byte)]
  BY <1>1, <1>6 DEF Puts
<1>8. ps \in Seq(Seq(Byte)) /\ Len(ps) = n
  <2> HIDE DEF ps, n
  <2>1. QED
    BY <1>1, <1>7
<1>9. v = [i \in 1 .. n |-> v[i]]
  BY <1>1, Zenon DEF ValuesOf
<1>10. Encode(fields, v) = FlattenSeq(ps)
  BY DEF Encode, Puts
<1>11. Encode(fields, v) \in Seq(Byte)
  BY <1>8, <1>10, FlattenType
<1>12. AllSound(gs, ps, v, Solid(fields))
  <2>1. ASSUME NEW i \in 1 .. Solid(fields) PROVE Sound(gs[i], ps[i], v[i])
    <3>1. i \in 1 .. n
      BY <1>1, <1>2
    <3>2. fields[i] \in FlatFields \/ IsList(fields[i])
      <4>1. CASE HasRest(fields)
        <5>1. i # n
          <6>1. Solid(fields) = n - 1
            BY <4>1, Zenon DEF Solid
          <6>2. i <= n - 1
            BY <1>1, <6>1
          <6> HIDE DEF n
          <6>3. QED
            BY <1>1, <6>2
        <5>2. QED
          BY <3>1, <5>1, FieldIs
      <4>2. CASE ~ HasRest(fields)
        <5>1. ~ (fields[i] = rest /\ i = n)
          <6>1. n # 0
            BY <1>1, <3>1
          <6>2. QED
            BY <4>2, <6>1, Zenon DEF HasRest
        <5>2. QED
          BY <3>1, <5>1, FieldIs
      <4>3. QED
        BY <4>1, <4>2
    <3>3. QED
      BY <1>5, <3>1, <3>2
  <2>2. QED
    BY <2>1, Zenon DEF AllSound
<1>13. HasRest(fields) => v[n] \in Seq(Byte) /\ ps[n] = v[n]
  <2>1. ASSUME HasRest(fields) PROVE n \in 1 .. n /\ fields[n] = rest
    BY <1>1, <2>1 DEF HasRest
  <2>2. QED
    BY <1>4, <2>1
<1>14. QED
  BY <1>1, <1>2, <1>8, <1>9, <1>10, <1>11, <1>12, <1>13
-----------------------------------------------------------------------------
\* The rest of the payload is read last.
LEMMA LastRest ==
  ASSUME NEW fields, Fields(fields), HasRest(fields), NEW in, NEW at,
         FoldsTo(at, FieldParts(fields), Len(fields), in), NEW m, m = Len(fields) - 1
  PROVE  /\ m \in Nat /\ m + 1 = Len(fields)
         /\ \A b \in Seq(Byte) : \A vals : at[m] = At(b, vals) => at[m + 1] = At(<<>>, Append(vals, b))
         /\ Dead(at[m]) => Dead(at[m + 1])
<1>1. m \in Nat /\ m + 1 = Len(fields) /\ m + 1 \in 1 .. Len(fields) /\ m \in 0 .. Len(fields) - 1
      /\ Len(fields) \in Nat
  BY DEF Fields, HasRest
<1>2. at[m + 1] = Take(FieldParts(fields)[m + 1], at[m])
  BY <1>1, FoldStep
<1>3. FieldParts(fields)[m + 1] = FieldPart(rest)
  <2>1. FieldParts(fields)[m + 1] = FieldPart(fields[m + 1])
    BY <1>1 DEF FieldParts
  <2>2. fields[m + 1] = rest
    BY <1>1 DEF HasRest
  <2>3. QED
    BY <2>1, <2>2
<1>4. at[m + 1] = GetFlat(at[m], rest)
  <2>1. \A r : Get(r, rest) = GetFlat(r, rest)
    BY RestFacts DEF Get
  <2>2. QED
    BY <1>2, <1>3, <2>1, TakeIs
<1>5. QED
  BY <1>1, <1>4, RestIs, FlatDead

\* What was encoded is decoded: the values of every message come back, and
\* nothing is left over.
LEMMA RoundTrip ==
  ASSUME NEW fields, Fields(fields), NEW v, ValuesOf(fields, v), Encodable(fields, v)
  PROVE  Decode(fields, Encode(fields, v)) = At(<<>>, v)
<1> DEFINE n == Len(fields)
           ps == Puts(fields, v)
           gs == FieldParts(fields)
           m == Solid(fields)
           p == Encode(fields, v)
           start == At(p, <<>>)
           at == InMessage(start, fields)
<1>1. /\ n \in Nat /\ ps \in Seq(Seq(Byte)) /\ Len(ps) = n /\ v = [i \in 1 .. n |-> v[i]]
      /\ p = FlattenSeq(ps) /\ p \in Seq(Byte) /\ m \in 0 .. n /\ AllSound(gs, ps, v, m)
      /\ HasRest(fields) => v[n] \in Seq(Byte) /\ ps[n] = v[n]
  BY MessageIs
<1>2. Decode(fields, p) = at[n]
  BY Zenon DEF Decode, Reader, At
<1>3. FoldsTo(at, gs, n, start)
  BY <1>1, MessageFolds
<1> HIDE DEF n, ps, gs, m, p, at
<1>4. p \o <<>> = p
  BY <1>1, ConcatEmptySeq
<1>5. at[m] = At(Left(ps, m) \o <<>>, [i \in 1 .. m |-> v[i]])
  <2>0. <<>> \in Seq(Byte)
    OBVIOUS
  <2>1. PICK z \in Seq(Byte) : z = <<>>
    BY <2>0, Zenon
  <2>2. FoldsTo(at, gs, Len(ps), At(FlattenSeq(ps) \o z, <<>>))
    BY <1>1, <1>3, <1>4, <2>1
  <2>3. m \in 0 .. Len(ps) /\ ps \in Seq(Seq(Byte)) /\ AllSound(gs, ps, v, m)
    BY <1>1
  <2>4. at[m] = At(Left(ps, m) \o z, [i \in 1 .. m |-> v[i]])
    BY <2>2, <2>3, FoldReads
  <2>5. QED
    BY <2>1, <2>4
<1>6. Left(ps, m) \in Seq(Byte) /\ Left(ps, m) \o <<>> = Left(ps, m)
  BY <1>1, LeftIs, ConcatEmptySeq
<1>7. Left(ps, n) = <<>>
  BY <1>1, LeftIs
<1>8. CASE ~ HasRest(fields)
  <2>1. m = n
    BY <1>8 DEF Solid, m, n
  <2>2. at[n] = At(<<>>, [i \in 1 .. n |-> v[i]])
    BY <1>5, <1>6, <1>7, <2>1
  <2>3. at[n] = At(<<>>, v)
    BY <1>1, <2>2, Zenon
  <2>4. QED
    BY <1>2, <2>3 DEF p
<1>9. CASE HasRest(fields)
  <2>1. m = n - 1
    BY <1>9 DEF Solid, m, n
  <2>2. m \in Nat /\ m + 1 = n /\ m < Len(ps)
    BY <1>1, <1>9, <2>1 DEF HasRest, n
  <2>3. Left(ps, m) = v[n]
    <3>1. Left(ps, m) = ps[m + 1] \o Left(ps, m + 1)
      BY <1>1, <2>2, LeftIs
    <3>2. ps[n] \o <<>> = ps[n]
      BY <1>1, <1>9, ConcatEmptySeq
    <3>3. QED
      BY <1>1, <1>7, <1>9, <2>2, <3>1, <3>2
  <2>4. at[m] = At(v[n], [i \in 1 .. m |-> v[i]])
    BY <1>5, <1>6, <2>3
  <2>5. at[m + 1] = At(<<>>, Append([i \in 1 .. m |-> v[i]], v[n]))
    <3>1. m = Len(fields) - 1 /\ FoldsTo(at, FieldParts(fields), Len(fields), start)
      BY <1>3, <2>1 DEF n, gs
    <3>2. QED
      BY <1>1, <1>9, <2>4, <3>1, LastRest
  <2>6. Append([i \in 1 .. m |-> v[i]], v[m + 1]) = [i \in 1 .. m + 1 |-> v[i]]
    BY <2>2, OneMore
  <2>7. at[n] = At(<<>>, v)
    BY <1>1, <2>2, <2>5, <2>6
  <2>8. QED
    BY <1>2, <2>7 DEF p
<1>10. QED
  BY <1>8, <1>9
-----------------------------------------------------------------------------
LEMMA FlattenLast ==
  ASSUME NEW S, NEW s \in Seq(Seq(S)), NEW m \in Nat, Len(s) = m + 1
  PROVE  /\ SubSeq(s, 1, m) \in Seq(Seq(S)) /\ Len(SubSeq(s, 1, m)) = m
         /\ \A i \in 1 .. m : SubSeq(s, 1, m)[i] = s[i]
         /\ s[m + 1] \in Seq(S) /\ FlattenSeq(s) = FlattenSeq(SubSeq(s, 1, m)) \o s[m + 1]
<1> DEFINE a == SubSeq(s, 1, m)
           b == s[m + 1]
<1>1. m \in 0 .. Len(s) /\ m + 1 \in 1 .. Len(s)
  OBVIOUS
<1>2. a \in Seq(Seq(S)) /\ Len(a) = m /\ \A i \in 1 .. m : a[i] = s[i]
  BY <1>1, PrefixIs
<1>3. b \in Seq(S)
  BY <1>1, ElementOfSeq
<1> HIDE DEF a, b
<1>4. s = Append(a, b)
  <2>1. /\ Append(a, b) \in Seq(Seq(S)) /\ Len(Append(a, b)) = m + 1
        /\ Append(a, b)[m + 1] = b /\ \A i \in 1 .. m : Append(a, b)[i] = a[i]
    BY <1>2, <1>3, AppendProperties
  <2>2. ASSUME NEW i \in 1 .. m + 1 PROVE s[i] = Append(a, b)[i]
    <3>1. CASE i = m + 1
      BY <2>1, <3>1 DEF b
    <3>2. CASE i # m + 1
      BY <1>2, <2>1, <3>2
    <3>3. QED
      BY <3>1, <3>2
  <2> DEFINE t == Append(a, b)
  <2> HIDE DEF t
  <2>3. s = t
    BY <2>1, <2>2, SeqEqual DEF t
  <2>4. QED
    BY <2>3 DEF t
<1>5. FlattenSeq(s) = FlattenSeq(a) \o b
  <2>1. CASE a = <<>>
    <3>1. s = <<b>>
      BY <1>4, <2>1
    <3>2. <<>> \o b = b
      BY <1>3, ConcatEmptySeq
    <3>3. QED
      BY <2>1, <3>1, <3>2, FlattenOne, FlattenEmpty
  <2>2. CASE a # <<>>
    BY <1>2, <1>3, <1>4, <2>2, FlattenAppend
  <2>3. QED
    BY <2>1, <2>2
<1>6. QED
  BY <1>2, <1>3, <1>5 DEF a, b

\* A message with a shorter rest is a message.
ShorterRest(v, n, c) == [i \in 1 .. n |-> IF i = n THEN c ELSE v[i]]

LEMMA Shortened ==
  ASSUME NEW fields, Fields(fields), HasRest(fields), NEW v, ValuesOf(fields, v), Encodable(fields, v),
         NEW c \in Seq(Byte), NEW m, m = Len(fields) - 1
  PROVE  /\ ValuesOf(fields, ShorterRest(v, Len(fields), c))
         /\ Encodable(fields, ShorterRest(v, Len(fields), c))
         /\ Encode(fields, ShorterRest(v, Len(fields), c)) = FlattenSeq(SubSeq(Puts(fields, v), 1, m)) \o c
<1> DEFINE n == Len(fields)
           w == ShorterRest(v, n, c)
           ps == Puts(fields, v)
           qs == Puts(fields, w)
<1>1. n \in Nat /\ n # 0 /\ n \in 1 .. n /\ DOMAIN fields = 1 .. n /\ fields[n] = rest
      /\ m \in Nat /\ m + 1 = n /\ \A i \in 1 .. m : i \in 1 .. n /\ i # n
  <2>1. n \in Nat /\ DOMAIN fields = 1 .. n
    BY Zenon DEF Fields
  <2>2. n # 0 /\ fields[n] = rest
    BY Zenon DEF HasRest
  <2>3. m = n - 1
    OBVIOUS
  <2> HIDE DEF n
  <2>4. QED
    BY <2>1, <2>2, <2>3
<1>2. w = [i \in 1 .. n |-> w[i]] /\ w[n] = c /\ \A i \in 1 .. n : i # n => w[i] = v[i]
  BY <1>1 DEF ShorterRest
<1> HIDE DEF w, n
<1>3. FitsFlat(rest, c) /\ FlatValue(rest, c) /\ Put(rest, c) = c
  <2>1. FitsFlat(rest, c)
    BY RestFacts DEF FitsFlat
  <2>2. FlatValue(rest, c)
    BY RestFacts DEF FlatValue
  <2>3. Put(rest, c) = PutFlat(rest, c) /\ PutFlat(rest, c) = c
    BY RestFacts, PutFlatIs DEF Put
  <2>4. QED
    BY <2>1, <2>2, <2>3
<1>4. ASSUME NEW i \in 1 .. n PROVE Value(fields[i], w[i]) /\ FieldFits(fields[i], w[i])
  <2>1. CASE i = n
    <3>1. Value(rest, c) /\ FieldFits(rest, c)
      BY <1>3, RestFacts DEF Value, FieldFits
    <3>2. QED
      BY <1>1, <1>2, <2>1, <3>1
  <2>2. CASE i # n
    <3>1. Value(fields[i], v[i])
      BY <1>1, Zenon DEF ValuesOf
    <3>2. FieldFits(fields[i], v[i])
      BY <1>1, Zenon DEF Encodable, FieldFits, ItemsFit
    <3>3. QED
      BY <1>2, <2>2, <3>1, <3>2
  <2>3. QED
    BY <2>1, <2>2
<1>5. ValuesOf(fields, w)
  BY <1>1, <1>2, <1>4, Zenon DEF ValuesOf
<1>6. Encodable(fields, w)
  BY <1>1, <1>4, Zenon DEF Encodable, FieldFits, ItemsFit
<1>7. /\ ps \in Seq(Seq(Byte)) /\ Len(ps) = m + 1 /\ qs \in Seq(Seq(Byte)) /\ Len(qs) = m + 1
      /\ Encode(fields, w) = FlattenSeq(qs)
  BY <1>1, <1>5, <1>6, MessageIs DEF n
<1>8. (\A i \in 1 .. m : ps[i] = qs[i]) /\ qs[m + 1] = c
  <2>1. ASSUME NEW i \in 1 .. m PROVE ps[i] = qs[i]
    BY <1>1, <1>2 DEF Puts
  <2>2. qs[n] = Put(fields[n], w[n])
    BY <1>1 DEF Puts
  <2>3. QED
    BY <1>1, <1>2, <1>3, <2>1, <2>2
<1> HIDE DEF ps, qs
<1> DEFINE a == SubSeq(ps, 1, m)
           b == SubSeq(qs, 1, m)
<1>13. m \in Nat /\ ps \in Seq(Seq(Byte)) /\ Len(ps) = m + 1 /\ qs \in Seq(Seq(Byte)) /\ Len(qs) = m + 1
  BY <1>1, <1>7
<1>9. a \in Seq(Seq(Byte)) /\ Len(a) = m /\ \A i \in 1 .. m : a[i] = ps[i]
  BY <1>13, FlattenLast
<1>10. /\ b \in Seq(Seq(Byte)) /\ Len(b) = m /\ \A i \in 1 .. m : b[i] = qs[i]
       /\ FlattenSeq(qs) = FlattenSeq(b) \o qs[m + 1]
  BY <1>13, FlattenLast, ZenonT(60)
<1> HIDE DEF a, b
<1>11. a = b
  <2>1. a \in Seq(Seq(Byte)) /\ b \in Seq(Seq(Byte)) /\ Len(a) = Len(b)
    BY <1>9, <1>10
  <2>2. \A i \in 1 .. Len(a) : a[i] = b[i]
    BY <1>8, <1>9, <1>10
  <2>3. QED
    BY <2>1, <2>2, SeqEqual
<1>12. QED
  BY <1>5, <1>6, <1>7, <1>8, <1>10, <1>11 DEF a, ps, w, n
-----------------------------------------------------------------------------
\* A fold is a fold up to any of its steps.
LEMMA FoldUpTo ==
  ASSUME NEW at, NEW gs, NEW n \in Nat, NEW in, FoldsTo(at, gs, n, in), NEW m \in 0 .. n
  PROVE  FoldsTo([i \in 0 .. m |-> at[i]], gs, m, in)
<1> DEFINE b == [i \in 0 .. m |-> at[i]]
<1>1. ASSUME NEW i \in 0 .. m PROVE b[i] = IF i = 0 THEN in ELSE Take(gs[i], b[i - 1])
  <2>1. i \in 0 .. n /\ b[i] = at[i]
    OBVIOUS
  <2>2. at[i] = IF i = 0 THEN in ELSE Take(gs[i], at[i - 1])
    BY <2>1, Zenon DEF FoldsTo
  <2>3. i # 0 => b[i - 1] = at[i - 1]
    OBVIOUS
  <2>4. QED
    BY <2>1, <2>2, <2>3, Zenon
<1>2. FoldsTo(b, gs, m, in)
  BY <1>1, Zenon DEF FoldsTo
<1>3. QED
  BY <1>2

\* A payload that was cut short is refused, unless the bytes that lack are of
\* its rest: then it is the encoding of what is read.
LEMMA CutShort ==
  ASSUME NEW fields, Fields(fields), NEW v, ValuesOf(fields, v), Encodable(fields, v),
         NEW k \in Nat, k < Len(Encode(fields, v)), NEW b, b = SubSeq(Encode(fields, v), 1, k)
  PROVE  Decode(fields, b).ok => HasRest(fields) /\ Encode(fields, Decode(fields, b).vals) = b
<1> DEFINE n == Len(fields)
           ps == Puts(fields, v)
           gs == FieldParts(fields)
           m == Solid(fields)
           p == Encode(fields, v)
           start == At(b, <<>>)
           at == InMessage(start, fields)
<1>1. /\ n \in Nat /\ ps \in Seq(Seq(Byte)) /\ Len(ps) = n
      /\ p = FlattenSeq(ps) /\ p \in Seq(Byte) /\ m \in 0 .. n /\ AllSound(gs, ps, v, m)
      /\ HasRest(fields) => v[n] \in Seq(Byte) /\ ps[n] = v[n]
  BY MessageIs
<1>2. Decode(fields, b) = at[n]
  BY Zenon DEF Decode, Reader, At
<1>3. FoldsTo(at, gs, n, start)
  BY <1>1, MessageFolds
<1>4. k < Len(p) /\ b = SubSeq(p, 1, k)
  OBVIOUS
<1> HIDE DEF n, ps, gs, m, p, at
<1>5. CASE ~ HasRest(fields)
  <2>1. m = n
    BY <1>5 DEF Solid, m, n
  <2>2. FoldsTo(at, gs, Len(ps), At(SubSeq(FlattenSeq(ps), 1, k), <<>>))
    BY <1>1, <1>3, <1>4
  <2>3. m \in 0 .. Len(ps) /\ m = Len(ps) /\ ps \in Seq(Seq(Byte)) /\ k < Len(FlattenSeq(ps))
        /\ AllSound(gs, ps, v, m)
    BY <1>1, <1>4, <2>1
  <2>4. Dead(at[m])
    BY <2>2, <2>3, FoldRefuses
  <2>5. QED
    BY <1>2, <2>1, <2>4, DeadIs
<1>6. CASE HasRest(fields)
  <2> DEFINE f == SubSeq(ps, 1, m)
             e == FlattenSeq(f)
  <2>1. m = n - 1
    BY <1>6 DEF Solid, m, n
  <2>2. m \in Nat /\ m + 1 = n /\ n # 0
    BY <1>1, <1>6, <2>1 DEF HasRest, n
  <2>3. ps \in Seq(Seq(Byte)) /\ Len(ps) = m + 1
    BY <1>1, <2>2
  <2>4. /\ f \in Seq(Seq(Byte)) /\ Len(f) = m /\ \A i \in 1 .. m : f[i] = ps[i]
        /\ FlattenSeq(ps) = e \o ps[m + 1]
    BY <2>2, <2>3, FlattenLast
  <2>5. e \in Seq(Byte)
    BY <2>4, FlattenType
  <2>6. p = e \o v[n] /\ v[n] \in Seq(Byte)
    BY <1>1, <1>6, <2>2, <2>4
  <2> HIDE DEF f, e
  <2>7. Len(e) \in Nat /\ Len(v[n]) \in Nat /\ Len(p) = Len(e) + Len(v[n])
    BY <2>5, <2>6, ConcatProperties, LenProperties
  <2>8. k \in 0 .. Len(e) + Len(v[n])
    BY <1>4, <2>7
  <2>9. CASE k < Len(e)
    <3>1. b = SubSeq(e, 1, k)
      BY <1>4, <2>5, <2>6, <2>7, <2>8, <2>9, CutConcat
    <3>2. m \in 0 .. n /\ n \in Nat
      BY <1>1
    <3> HIDE DEF start
    <3> DEFINE a == [i \in 0 .. m |-> at[i]]
    <3>3. FoldsTo(a, gs, m, start) /\ a[m] = at[m]
      <4>1. FoldsTo(a, gs, m, start)
        BY <1>3, <3>2, FoldUpTo
      <4>2. a[m] = at[m]
        BY <2>2
      <4>3. QED
        BY <4>1, <4>2
    <3> HIDE DEF a
    <3>4. FoldsTo(a, gs, Len(f), At(SubSeq(FlattenSeq(f), 1, k), <<>>))
      <4>1. start = At(SubSeq(FlattenSeq(f), 1, k), <<>>)
        BY <3>1 DEF e, start
      <4>2. Len(f) = m
        BY <2>4
      <4>3. QED
        BY <3>3, <4>1, <4>2
    <3>5. AllSound(gs, f, v, m)
      BY <1>1, <2>4, Zenon DEF AllSound
    <3>6. m \in 0 .. Len(f) /\ m = Len(f) /\ f \in Seq(Seq(Byte)) /\ k < Len(FlattenSeq(f))
      BY <2>2, <2>4, <2>9 DEF e
    <3>7. Dead(a[m])
      BY <3>4, <3>5, <3>6, FoldRefuses
    <3>8. Dead(at[m + 1])
      <4>1. m = Len(fields) - 1 /\ FoldsTo(at, FieldParts(fields), Len(fields), start) /\ Dead(at[m])
        BY <1>3, <2>1, <3>3, <3>7 DEF n, gs
      <4>2. QED
        BY <1>6, <4>1, LastRest
    <3>9. QED
      BY <1>2, <2>2, <3>8, DeadIs
  <2>10. CASE k >= Len(e)
    <3> DEFINE j == k - Len(e)
               c == SubSeq(v[n], 1, j)
               w == ShorterRest(v, n, c)
    <3>1. j \in 0 .. Len(v[n])
      BY <2>7, <2>8, <2>10
    <3>2. b = e \o c
      <4>1. b = e \o SubSeq(v[n], 1, k - Len(e))
        BY <1>4, <2>5, <2>6, <2>8, <2>10, CutConcat, ZenonT(60)
      <4>2. QED
        BY <4>1
    <3>3. c \in Seq(Byte)
      BY <2>6, <3>1, PrefixIs
    <3> HIDE DEF c
    <3>4. ValuesOf(fields, w) /\ Encodable(fields, w) /\ Encode(fields, w) = e \o c
      <4>1. m = Len(fields) - 1
        BY <2>1 DEF n
      <4>2. QED
        BY <1>6, <3>3, <4>1, Shortened DEF n, e, f, ps
    <3> HIDE DEF w
    <3>5. Decode(fields, b) = At(<<>>, w)
      BY <3>2, <3>4, RoundTrip
    <3>6. Decode(fields, b).vals = w
      BY <3>5, AtIs
    <3>7. QED
      BY <1>6, <3>2, <3>4, <3>6
  <2>11. QED
    BY <2>7, <2>8, <2>9, <2>10
<1>7. QED
  BY <1>5, <1>6
-----------------------------------------------------------------------------
(* The checksum of a header.                                               *)

SumTo(g, s, n) == g = [i \in 0 .. n |-> IF i = 0 THEN 0 ELSE g[i - 1] + i * s[i]]

LEMMA SumExists ==
  ASSUME NEW s, NEW n \in Nat
  PROVE  \E g : SumTo(g, s, n)
<1> DEFINE Bad == {k \in Nat : ~ \E g : SumTo(g, s, k)}
<1>1. ASSUME Bad # {} PROVE FALSE
  <2>1. PICK m \in Bad : \A k \in Bad : m <= k
    <3>1. Bad \in SUBSET Nat
      OBVIOUS
    <3>2. QED
      BY <1>1, <3>1, LeastNat
  <2>2. m # 0
    <3>1. SumTo([i \in 0 .. 0 |-> 0], s, 0)
      BY DEF SumTo
    <3>2. QED
      BY <2>1, <3>1
  <2>3. m - 1 \in Nat /\ m - 1 \notin Bad
    BY <2>1, <2>2
  <2>4. PICK g : SumTo(g, s, m - 1)
    BY <2>3
  <2> DEFINE h == [i \in 0 .. m |-> IF i = m THEN g[m - 1] + m * s[m] ELSE g[i]]
  <2>5. ASSUME NEW i \in 0 .. m PROVE h[i] = IF i = 0 THEN 0 ELSE h[i - 1] + i * s[i]
    <3>1. CASE i = m
      <4>1. h[i] = g[m - 1] + m * s[m]
        BY <3>1
      <4>2. h[i - 1] = g[m - 1]
        BY <2>1, <2>2, <3>1
      <4>3. QED
        BY <2>2, <3>1, <4>1, <4>2, Zenon
    <3>2. CASE i # m
      <4>1. i \in 0 .. m - 1 /\ h[i] = g[i]
        BY <2>1, <3>2
      <4>2. g[i] = IF i = 0 THEN 0 ELSE g[i - 1] + i * s[i]
        BY <2>4, <4>1, Zenon DEF SumTo
      <4>3. i # 0 => h[i - 1] = g[i - 1]
        BY <2>1, <4>1
      <4>4. QED
        BY <4>1, <4>2, <4>3, Zenon
    <3>3. QED
      BY <3>1, <3>2
  <2>6. SumTo(h, s, m)
    BY <2>5, Zenon DEF SumTo
  <2>7. QED
    BY <2>1, <2>6
<1>2. QED
  BY <1>1

LEMMA SumStep ==
  ASSUME NEW g, NEW s, NEW n \in Nat, SumTo(g, s, n)
  PROVE  g[0] = 0 /\ \A i \in 1 .. n : g[i] = g[i - 1] + i * s[i]
<1>1. g[0] = 0
  <2>1. 0 \in 0 .. n
    OBVIOUS
  <2>2. QED
    BY <2>1, Zenon DEF SumTo
<1>2. ASSUME NEW i \in 1 .. n PROVE g[i] = g[i - 1] + i * s[i]
  <2>1. i \in 0 .. n /\ i # 0
    OBVIOUS
  <2>2. QED
    BY <2>1, Zenon DEF SumTo
<1>3. QED
  BY <1>1, <1>2

LEMMA Products == \A x, y \in Nat : x * y \in Nat
OBVIOUS

LEMMA SumType ==
  ASSUME NEW s \in Seq(Nat), NEW n \in 0 .. Len(s), NEW g, SumTo(g, s, n)
  PROVE  \A i \in 0 .. n : g[i] \in Nat
<1> DEFINE Bad == {i \in 0 .. n : g[i] \notin Nat}
<1>0. n \in Nat /\ Len(s) \in Nat
  BY LenProperties
<1>1. ASSUME Bad # {} PROVE FALSE
  <2>1. PICK m \in Bad : \A k \in Bad : m <= k
    <3>1. Bad \in SUBSET Nat
      OBVIOUS
    <3>2. QED
      BY <1>1, <3>1, LeastNat
  <2>2. m # 0
    BY <1>0, <2>1, SumStep
  <2>3. m \in 1 .. n /\ m - 1 \in 0 .. n /\ ~ (m <= m - 1) /\ m \in 1 .. Len(s) /\ m \in Nat
    BY <1>0, <2>1, <2>2
  <2>4. m - 1 \notin Bad
    BY <2>1, <2>3, Zenon
  <2>5. g[m - 1] \in Nat /\ s[m] \in Nat
    BY <2>3, <2>4, ElementOfSeq
  <2>6. g[m] = g[m - 1] + m * s[m]
    BY <1>0, <2>3, SumStep
  <2>7. m * s[m] \in Nat
    BY <2>3, <2>5, Products
  <2>8. g[m] \in Nat
    BY <2>5, <2>6, <2>7, SMTT(60)
  <2>9. QED
    BY <2>1, <2>8
<1>2. QED
  BY <1>1

LEMMA SumIs ==
  ASSUME NEW s \in Seq(Nat)
  PROVE  \E g : SumTo(g, s, Len(s)) /\ crc32(s) = g[Len(s)] % Radix4
<1> DEFINE c == CHOOSE g : SumTo(g, s, Len(s))
<1>1. \E g : SumTo(g, s, Len(s))
  BY SumExists, LenProperties
<1>2. SumTo(c, s, Len(s))
  BY <1>1, Zenon
<1>3. crc32(s) = c[Len(s)] % Radix4
  BY Zenon DEF crc32, SumTo
<1>4. QED
  BY <1>2, <1>3

LEMMA CrcIs ==
  ASSUME NEW s \in Seq(Nat)
  PROVE  crc32(s) \in 0 .. Radix4 - 1
<1>1. PICK g : SumTo(g, s, Len(s)) /\ crc32(s) = g[Len(s)] % Radix4
  BY SumIs
<1>2. Len(s) \in Nat /\ Len(s) \in 0 .. Len(s)
  BY LenProperties
<1>3. g[Len(s)] \in Nat
  BY <1>1, <1>2, SumType
<1>4. QED
  BY <1>1, <1>3, RadixType, DivMod

SameBehind(b, s, t) == \A i \in b + 1 .. Len(s) : t[i] = s[i]

Share(b, s, t) == b * t[b] - b * s[b]

\* One number that was changed changes the sum by its share.
LEMMA SumChanged ==
  ASSUME NEW s \in Seq(Nat), NEW t \in Seq(Nat), Len(s) = Len(t), NEW b \in 1 .. Len(s),
         Same(b - 1, s, t), SameBehind(b, s, t),
         NEW d \in Int, Share(b, s, t) = d,
         NEW g, SumTo(g, s, Len(s)), NEW h, SumTo(h, t, Len(t))
  PROVE  h[Len(t)] - g[Len(s)] = d
<1> DEFINE n == Len(s)
           Good(i) == h[i] - g[i] = IF i < b THEN 0 ELSE d
           Bad == {i \in 0 .. n : ~ Good(i)}
<1>0. n \in Nat /\ b \in Nat
  BY LenProperties
<1>a. n \in 0 .. Len(s) /\ n \in 0 .. Len(t)
  BY <1>0
<1>b. \A i \in 0 .. n : g[i] \in Nat
  BY <1>a, SumType
<1>c. \A i \in 0 .. n : h[i] \in Nat
  BY <1>a, SumType
<1>d. g[0] = 0 /\ \A i \in 1 .. n : g[i] = g[i - 1] + i * s[i]
  BY <1>0, SumStep
<1>e. h[0] = 0 /\ \A i \in 1 .. n : h[i] = h[i - 1] + i * t[i]
  <2>1. SumTo(h, t, n)
    OBVIOUS
  <2>2. QED
    BY <1>0, <2>1, SumStep, ZenonT(60)
<1>f. \A i \in 1 .. n : s[i] \in Nat /\ t[i] \in Nat
  BY ElementOfSeq
<1>1. ASSUME NEW i \in 1 .. n, Good(i - 1) PROVE Good(i)
  <2>1. i \in Nat /\ i - 1 \in 0 .. n /\ i \in 0 .. n
    BY <1>0
  <2>2. PICK x \in Nat : x = i * s[i]
    BY <1>f, <2>1, Products
  <2>3. PICK y \in Nat : y = i * t[i]
    BY <1>f, <2>1, Products
  <2>4. g[i] = g[i - 1] + x /\ h[i] = h[i - 1] + y
    BY <1>d, <1>e, <2>2, <2>3
  <2>5. g[i] \in Nat /\ h[i] \in Nat /\ g[i - 1] \in Nat /\ h[i - 1] \in Nat
    BY <1>b, <1>c, <2>1
  <2>6. h[i] - g[i] = (h[i - 1] - g[i - 1]) + (y - x)
    <3>1. PICK p \in Nat, q \in Nat : p = h[i - 1] /\ q = g[i - 1]
      BY <2>5
    <3>2. (p + y) - (q + x) = (p - q) + (y - x)
      OBVIOUS
    <3>3. QED
      BY <2>4, <3>1, <3>2
  <2>7. CASE i = b
    <3>1. y - x = d /\ i - 1 < b /\ ~ (i < b)
      BY <1>0, <2>2, <2>3, <2>7 DEF Share
    <3>2. h[i - 1] - g[i - 1] = 0
      BY <1>1, <3>1
    <3>3. QED
      BY <2>6, <3>1, <3>2
  <2>8. CASE i < b
    <3>1. s[i] = t[i]
      <4>1. i \in 1 .. b - 1
        BY <1>0, <2>8
      <4>2. QED
        BY <4>1 DEF Same
    <3>2. x = y /\ i - 1 < b
      BY <1>0, <2>1, <2>2, <2>3, <2>8, <3>1
    <3>3. QED
      BY <1>1, <2>6, <2>8, <3>2
  <2>9. CASE i > b
    <3>1. i \in b + 1 .. n
      BY <1>0, <2>1, <2>9
    <3>2. s[i] = t[i]
      BY <3>1 DEF SameBehind
    <3>3. x = y /\ ~ (i - 1 < b) /\ ~ (i < b)
      BY <1>0, <2>1, <2>2, <2>3, <2>9, <3>2
    <3>4. h[i - 1] - g[i - 1] = d
      BY <1>1, <3>3
    <3>5. QED
      BY <2>6, <3>3, <3>4
  <2>10. QED
    BY <1>0, <2>1, <2>7, <2>8, <2>9
<1>2. Good(0)
  BY <1>0, <1>d, <1>e
<1> HIDE DEF Good
<1>3. ASSUME Bad # {} PROVE FALSE
  <2>1. PICK m \in Bad : \A k \in Bad : m <= k
    <3>1. Bad \in SUBSET Nat
      BY <1>0
    <3>2. QED
      BY <1>3, <3>1, LeastNat
  <2>2. m # 0 /\ m \in 0 .. n /\ ~ Good(m)
    BY <1>2, <2>1
  <2>3. m \in 1 .. n /\ m - 1 \in 0 .. n /\ ~ (m <= m - 1)
    BY <1>0, <2>2
  <2>4. m - 1 \notin Bad
    BY <2>1, <2>3, Zenon
  <2>5. Good(m - 1)
    BY <2>3, <2>4
  <2>6. QED
    BY <1>1, <2>2, <2>3, <2>5
<1>4. Good(n)
  <2>1. n \in 0 .. n
    BY <1>0
  <2>2. Bad = {}
    BY <1>3, Zenon
  <2>3. QED
    BY <2>1, <2>2
<1>5. QED
  BY <1>0, <1>4 DEF Good
-----------------------------------------------------------------------------
LEMMA ModEqual ==
  ASSUME NEW a \in Nat, NEW c \in Nat, NEW m \in Nat, m > 0, a % m = c % m, a - c < m, c - a < m
  PROVE  a = c
<1>1. PICK p \in Nat : p = a \div m
  BY DivMod
<1>2. PICK q \in Nat : q = c \div m
  BY DivMod
<1>3. PICK r \in 0 .. m - 1 : r = a % m
  BY DivMod
<1>4. p * m + r = a /\ q * m + r = c
  <2>1. (a \div m) * m + (a % m) = a /\ (c \div m) * m + (c % m) = c
    BY DivMod
  <2>2. QED
    BY <1>1, <1>2, <1>3, <2>1
<1>5. PICK x \in Nat : x = p * m
  BY Products
<1>6. PICK y \in Nat : y = q * m
  BY Products
<1>7. \A u, v \in Nat : u > v => u * m >= v * m + m
  <2>1. \A u, v, w \in Nat : u <= v => u * w <= v * w
    OBVIOUS
  <2>2. ASSUME NEW u \in Nat, NEW v \in Nat, u > v PROVE u * m >= v * m + m
    <3>1. (v + 1) * m <= u * m
      BY <2>1, <2>2
    <3>2. (v + 1) * m = v * m + m
      OBVIOUS
    <3>3. PICK e \in Nat, f \in Nat : e = u * m /\ f = v * m
      BY Products
    <3>4. QED
      BY <3>1, <3>2, <3>3
  <2>3. QED
    BY <2>2
<1>8. ~ (p > q)
  <2>1. ASSUME p > q PROVE x >= y + m
    BY <1>5, <1>6, <1>7, <2>1
  <2>2. QED
    BY <1>4, <1>5, <1>6, <2>1
<1>9. ~ (q > p)
  <2>1. ASSUME q > p PROVE y >= x + m
    BY <1>5, <1>6, <1>7, <2>1
  <2>2. QED
    BY <1>4, <1>5, <1>6, <2>1
<1>10. p = q
  BY <1>8, <1>9
<1>11. QED
  BY <1>4, <1>10

\* A byte that is altered, and its share of the checksum.
AlteredByte(x, b) == IF b = 6 THEN (x % 26) + 1 ELSE (x + 1) % Radix

LEMMA ShareIs ==
  ASSUME NEW b \in 1 .. 16, NEW x \in Nat, IF b = 6 THEN x <= 26 ELSE x < Radix
  PROVE  /\ AlteredByte(x, b) \in Nat /\ AlteredByte(x, b) # x
         /\ \E d \in Int : /\ b * AlteredByte(x, b) - b * x = d
                           /\ d # 0 /\ d < Radix4 /\ - d < Radix4
<1>1. Radix \in Nat /\ Radix > 3
  BY RadixFacts
<1>2. 16 * Radix < Radix4 /\ 150 < Radix4 /\ Radix4 \in Nat
  <2>1. \A u, v, w \in Nat : u <= v => u * w <= v * w
    OBVIOUS
  <2>2. 4 * Radix <= Radix2
    <3>1. 4 * Radix <= Radix * Radix
      BY <1>1, <2>1
    <3>2. QED
      BY <3>1, RadixFacts
  <2>3. 16 * Radix2 <= Radix4
    <3>1. Radix2 \in Nat /\ 16 <= Radix2
      BY <1>1, <2>2, RadixFacts
    <3>2. 16 * Radix2 <= Radix2 * Radix2
      BY <2>1, <3>1
    <3>3. QED
      BY <3>2, RadixFacts
  <2>4. QED
    BY <1>1, <2>2, <2>3, RadixFacts
<1>3. CASE b = 6
  <2>1. x \in 0 .. 26 /\ AlteredByte(x, b) = (x % 26) + 1
    BY <1>3 DEF AlteredByte
  <2>2. (x < 26 /\ x % 26 = x) \/ (x = 26 /\ x % 26 = 0)
    BY <2>1
  <2>3. CASE x < 26 /\ x % 26 = x
    <3>1. b * AlteredByte(x, b) - b * x = 6 /\ AlteredByte(x, b) = x + 1
      BY <1>3, <2>1, <2>3
    <3>2. QED
      BY <1>2, <3>1
  <2>4. CASE x = 26 /\ x % 26 = 0
    <3>1. b * AlteredByte(x, b) - b * x = -150 /\ AlteredByte(x, b) = 1
      BY <1>3, <2>1, <2>4
    <3>2. QED
      BY <1>2, <2>4, <3>1
  <2>5. QED
    BY <2>2, <2>3, <2>4
<1>4. CASE b # 6
  <2>1. x < Radix /\ AlteredByte(x, b) = (x + 1) % Radix
    BY <1>4 DEF AlteredByte
  <2>2. CASE x + 1 < Radix
    <3>1. AlteredByte(x, b) = x + 1
      BY <1>1, <2>1, <2>2
    <3>2. b * (x + 1) - b * x = b
      OBVIOUS
    <3>3. b < Radix4 /\ b # 0 /\ b \in Int /\ - b < Radix4
      BY <1>2
    <3>4. QED
      BY <3>1, <3>2, <3>3
  <2>3. CASE x + 1 = Radix
    <3>1. AlteredByte(x, b) = 0
      BY <1>1, <2>1, <2>3
    <3>2. PICK d \in Nat : d = b * x
      BY Products
    <3>3. d # 0 /\ d <= 16 * Radix
      <4>1. x \in Nat /\ x >= 1 /\ x <= Radix
        BY <1>1, <2>3
      <4>2. b * x >= 1
        BY <4>1
      <4>3. \A u, v, w \in Nat : u <= v => u * w <= v * w
        OBVIOUS
      <4>4. b * x <= 16 * x
        BY <4>3
      <4>5. QED
        BY <1>1, <3>2, <4>1, <4>2, <4>4
    <3>4. b * 0 - b * x = - d
      BY <3>2
    <3>5. - d \in Int /\ - d # 0 /\ - d < Radix4 /\ - (- d) < Radix4
      BY <1>1, <1>2, <3>3
    <3>6. AlteredByte(x, b) # x
      BY <1>1, <2>3, <3>1
    <3>7. QED
      BY <3>1, <3>4, <3>5, <3>6
  <2>4. QED
    BY <1>1, <2>1, <2>2, <2>3
<1>5. QED
  BY <1>3, <1>4

\* A checksum tells a header from one with a byte that was altered.
LEMMA CrcDiffers ==
  ASSUME NEW s \in Seq(Nat), NEW t \in Seq(Nat), Len(s) = Len(t), NEW b \in 1 .. Len(s),
         Same(b - 1, s, t), SameBehind(b, s, t),
         NEW d \in Int, Share(b, s, t) = d, d # 0, d < Radix4, - d < Radix4
  PROVE  crc32(t) # crc32(s)
<1>1. PICK g : SumTo(g, s, Len(s)) /\ crc32(s) = g[Len(s)] % Radix4
  BY SumIs
<1>2. PICK h : SumTo(h, t, Len(t)) /\ crc32(t) = h[Len(t)] % Radix4
  BY SumIs
<1>3. Len(s) \in Nat /\ Len(s) \in 0 .. Len(s)
  BY LenProperties
<1>4. h[Len(t)] - g[Len(s)] = d
  BY <1>1, <1>2, SumChanged
<1>5. PICK p \in Nat : p = g[Len(s)]
  BY <1>1, <1>3, SumType
<1>6. PICK q \in Nat : q = h[Len(t)]
  BY <1>2, <1>3, SumType
<1>7. ASSUME crc32(t) = crc32(s) PROVE FALSE
  <2>1. q % Radix4 = p % Radix4 /\ q - p = d
    BY <1>1, <1>2, <1>4, <1>5, <1>6, <1>7
  <2>2. q - p < Radix4 /\ p - q < Radix4
    BY <2>1
  <2>3. q = p
    BY <2>1, <2>2, ModEqual, RadixType
  <2>4. QED
    BY <2>1, <2>3
<1>8. QED
  BY <1>7
-----------------------------------------------------------------------------
(* Headers.                                                                *)

\* What a concatenation holds of its two parts.
LEMMA PartsAre ==
  ASSUME NEW S, NEW s \in Seq(S), NEW t \in Seq(S)
  PROVE  SubSeq(s \o t, 1, Len(s)) = s /\ SubSeq(s \o t, Len(s) + 1, Len(s \o t)) = t
<1>1. Len(s) \in Nat /\ Len(t) \in Nat
  BY LenProperties
<1>2. PICK k \in 0 .. Len(s) + Len(t) : k = Len(s) /\ k <= Len(s) /\ k >= Len(s) /\ k - Len(s) = 0
  BY <1>1
<1>3. SubSeq(s \o t, 1, k) = SubSeq(s, 1, k)
  BY <1>2, CutConcat
<1>4. SubSeq(s \o t, k + 1, Len(s \o t)) = SubSeq(t, k - Len(s) + 1, Len(t))
  BY <1>2, CutConcat
<1>5. SubSeq(s, 1, Len(s)) = s /\ SubSeq(t, 1, Len(t)) = t
  BY SubSeqFull
<1>6. k - Len(s) + 1 = 1
  BY <1>1, <1>2
<1>7. QED
  BY <1>2, <1>3, <1>4, <1>5, <1>6

HeadOf(ver, type, flags, req, len) ==
  MAGIC \o <<ver, type>> \o StoreBE(flags, 2) \o StoreBE(req, 4) \o StoreBE(len, 4)

\* The bytes of a header but the one of the type are below the radix.
ByteFits(b, x) == IF b = 6 THEN x <= 26 ELSE x < Radix
AllFit(s) == \A b \in 1 .. Len(s) : ByteFits(b, s[b])
\* What u = s \o t holds of s and t.
Joins(u, s, t) ==
  /\ u \in Seq(Nat) /\ Len(u) = Len(s) + Len(t)
  /\ SubSeq(u, 1, Len(s)) = s /\ SubSeq(u, Len(s) + 1, Len(u)) = t
  /\ \A a, b \in 1 .. Len(s) : SubSeq(u, a, b) = SubSeq(s, a, b)
  /\ \A i \in 1 .. Len(s) : u[i] = s[i]
  /\ \A i \in Len(s) + 1 .. Len(u) : u[i] = t[i - Len(s)]

LEMMA Joined ==
  ASSUME NEW s \in Seq(Nat), NEW t \in Seq(Nat)
  PROVE  Joins(s \o t, s, t)
<1>1. s \o t \in Seq(Nat) /\ Len(s \o t) = Len(s) + Len(t)
  BY ConcatProperties
<1>2. SubSeq(s \o t, 1, Len(s)) = s /\ SubSeq(s \o t, Len(s) + 1, Len(s \o t)) = t
  BY PartsAre
<1>3. ASSUME NEW a \in 1 .. Len(s), NEW b \in 1 .. Len(s) PROVE SubSeq(s \o t, a, b) = SubSeq(s, a, b)
  BY SubSeqOfConcat1
<1>4. \A i \in 1 .. Len(s) : (s \o t)[i] = s[i]
  BY ConcatProperties
<1>5. \A i \in Len(s) + 1 .. Len(s \o t) : (s \o t)[i] = t[i - Len(s)]
  <2>1. Len(s) \in Nat /\ Len(t) \in Nat
    BY LenProperties
  <2>2. \A i \in Len(s) + 1 .. Len(s \o t) : i \in 1 .. Len(s) + Len(t) /\ ~ (i <= Len(s))
    BY <1>1, <2>1
  <2>3. QED
    BY <2>2, ConcatProperties
<1>6. QED
  BY <1>1, <1>2, <1>3, <1>4, <1>5, Zenon DEF Joins

LEMMA Grown ==
  ASSUME NEW s \in Seq(Nat), Len(s) >= 6, AllFit(s), NEW t \in Seq(Byte)
  PROVE  Joins(s \o t, s, t) /\ AllFit(s \o t)
<1>1. t \in Seq(Nat)
  BY ByteFacts, SeqMonotonic
<1>2. \A i \in 1 .. Len(t) : t[i] \in Nat /\ t[i] < Radix
  <2>1. \A i \in 1 .. Len(t) : t[i] \in Byte
    BY ElementOfSeq
  <2>2. QED
    BY <2>1, ByteFacts
<1>3. Joins(s \o t, s, t)
  BY <1>1, Joined
<1>4. PICK u : u = s \o t
  OBVIOUS
<1>5. /\ u \in Seq(Nat) /\ Len(u) = Len(s) + Len(t) /\ \A i \in 1 .. Len(s) : u[i] = s[i]
      /\ \A i \in Len(s) + 1 .. Len(u) : u[i] = t[i - Len(s)]
  BY <1>3, <1>4, Zenon DEF Joins
<1>6. Len(s) \in Nat /\ Len(t) \in Nat
  BY LenProperties
<1>7. ASSUME NEW i \in 1 .. Len(u) PROVE ByteFits(i, u[i])
  <2>1. CASE i \in 1 .. Len(s)
    BY <1>5, <2>1 DEF AllFit
  <2>2. CASE i \notin 1 .. Len(s)
    <3>1. i - Len(s) \in 1 .. Len(t) /\ i \in Len(s) + 1 .. Len(u) /\ i # 6
      BY <1>5, <1>6, <2>2, SMTT(60)
    <3>2. u[i] = t[i - Len(s)]
      BY <1>5, <3>1
    <3>3. QED
      BY <1>2, <3>1, <3>2 DEF ByteFits
  <2>3. QED
    BY <2>1, <2>2
<1>8. AllFit(u)
  BY <1>7 DEF AllFit
<1>9. QED
  BY <1>3, <1>4, <1>8

\* The values of the fields of a header.
Vers == 0 .. Radix - 1
Types == 0 .. 26
Shorts == 0 .. Radix2 - 1
Longs == 0 .. Radix4 - 1
Six(ver, type) == MAGIC \o <<ver, type>>

LEMMA FirstSix ==
  ASSUME NEW ver \in Vers, NEW type \in Types, NEW s, s = Six(ver, type)
  PROVE  /\ s \in Seq(Nat) /\ Len(s) = 6 /\ SubSeq(s, 1, 4) = MAGIC /\ s[5] = ver /\ s[6] = type
         /\ AllFit(s)
<1>0. Radix \in Nat /\ Radix > 3 /\ ver \in Nat /\ type \in Nat /\ ver < Radix /\ type <= 26
  BY RadixFacts DEF Vers, Types
<1>1. /\ MAGIC \in Seq(Nat) /\ Len(MAGIC) = 4
      /\ MAGIC[1] = 1 /\ MAGIC[2] = 2 /\ MAGIC[3] = 3 /\ MAGIC[4] = 0
  BY DEF MAGIC
<1>2. /\ <<ver, type>> \in Seq(Nat) /\ Len(<<ver, type>>) = 2
      /\ <<ver, type>>[1] = ver /\ <<ver, type>>[2] = type
  BY <1>0
<1>3. Joins(s, MAGIC, <<ver, type>>)
  BY <1>1, <1>2, Joined, Zenon DEF Six
<1>4. PICK v : v = <<ver, type>>
  OBVIOUS
<1>5. Len(v) = 2 /\ v[1] = ver /\ v[2] = type /\ Joins(s, MAGIC, v)
  BY <1>2, <1>3, <1>4, Zenon
<1>6. /\ s \in Seq(Nat) /\ Len(s) = 4 + 2 /\ SubSeq(s, 1, 4) = MAGIC
      /\ \A i \in 1 .. 4 : s[i] = MAGIC[i]
      /\ \A i \in 4 + 1 .. Len(s) : s[i] = v[i - 4]
  BY <1>1, <1>5, Zenon DEF Joins
<1>7. Len(s) = 6
  BY <1>6
<1>8. s[5] = ver /\ s[6] = type
  <2>1. 5 \in 4 + 1 .. Len(s) /\ 6 \in 4 + 1 .. Len(s) /\ 5 - 4 = 1 /\ 6 - 4 = 2
    BY <1>7
  <2>2. s[5] = v[1] /\ s[6] = v[2]
    BY <1>6, <2>1
  <2>3. QED
    BY <1>5, <2>2
<1>9. s[1] = 1 /\ s[2] = 2 /\ s[3] = 3 /\ s[4] = 0
  BY <1>1, <1>6
<1>10. ASSUME NEW b \in 1 .. 6 PROVE ByteFits(b, s[b])
  <2>1. b = 1 \/ b = 2 \/ b = 3 \/ b = 4 \/ b = 5 \/ b = 6
    OBVIOUS
  <2>2. CASE b # 6
    BY <1>0, <1>8, <1>9, <2>1, <2>2 DEF ByteFits
  <2>3. CASE b = 6
    BY <1>0, <1>8, <2>3 DEF ByteFits
  <2>4. QED
    BY <2>2, <2>3
<1>11. QED
  BY <1>6, <1>7, <1>8, <1>10 DEF AllFit

\* A header in front of its checksum.
LEMMA HeadIs ==
  ASSUME NEW ver \in Vers, NEW type \in Types, NEW flags \in Shorts, NEW req \in Longs,
         NEW len \in Longs,
         NEW h, h = HeadOf(ver, type, flags, req, len)
  PROVE  /\ h \in Seq(Nat) /\ Len(h) = 16 /\ SubSeq(h, 1, 4) = MAGIC /\ h[5] = ver /\ h[6] = type
         /\ LoadBE(SubSeq(h, 7, 8)) = flags /\ LoadBE(SubSeq(h, 9, 12)) = req
         /\ LoadBE(SubSeq(h, 13, 16)) = len /\ AllFit(h)
<1>0. /\ flags \in Nat /\ req \in Nat /\ len \in Nat
      /\ flags < Values(2) /\ req < Values(4) /\ len < Values(4)
  BY RadixFacts DEF Values, Shorts, Longs
<1>1. PICK f \in Seq(Byte) : f = StoreBE(flags, 2) /\ Len(f) = 2 /\ LoadBE(f) = flags
  BY <1>0, StoreLoad, WidthsAre
<1>2. PICK r \in Seq(Byte) : r = StoreBE(req, 4) /\ Len(r) = 4 /\ LoadBE(r) = req
  BY <1>0, StoreLoad, WidthsAre
<1>3. PICK l \in Seq(Byte) : l = StoreBE(len, 4) /\ Len(l) = 4 /\ LoadBE(l) = len
  BY <1>0, StoreLoad, WidthsAre
<1>4. PICK s : s = Six(ver, type)
  OBVIOUS
<1>5. /\ s \in Seq(Nat) /\ Len(s) = 6 /\ SubSeq(s, 1, 4) = MAGIC /\ s[5] = ver /\ s[6] = type
      /\ AllFit(s)
  <2>2. /\ Six(ver, type) \in Seq(Nat) /\ Len(Six(ver, type)) = 6
        /\ SubSeq(Six(ver, type), 1, 4) = MAGIC
        /\ Six(ver, type)[5] = ver /\ Six(ver, type)[6] = type /\ AllFit(Six(ver, type))
    BY FirstSix
  <2>3. QED
    BY <1>4, <2>2, Zenon
<1>6. PICK t : t = s \o f
  OBVIOUS
<1>7. Joins(t, s, f) /\ AllFit(t)
  <2>1. Len(s) >= 6
    BY <1>5
  <2>2. QED
    BY <1>5, <1>6, <2>1, Grown
<1>8. t \in Seq(Nat) /\ Len(t) = 8
  BY <1>1, <1>5, <1>7 DEF Joins
<1>9. PICK u : u = t \o r
  OBVIOUS
<1>10. Joins(u, t, r) /\ AllFit(u)
  <2>1. Len(t) >= 6
    BY <1>8
  <2>2. QED
    BY <1>7, <1>8, <1>9, <2>1, Grown
<1>11. u \in Seq(Nat) /\ Len(u) = 12
  BY <1>2, <1>8, <1>10 DEF Joins
<1>12. PICK w : w = u \o l
  OBVIOUS
<1>13. Joins(w, u, l) /\ AllFit(w)
  <2>1. Len(u) >= 6
    BY <1>11
  <2>2. QED
    BY <1>10, <1>11, <1>12, <2>1, Grown
<1>14. w \in Seq(Nat) /\ Len(w) = 16
  BY <1>3, <1>11, <1>13 DEF Joins
<1>15. h = w
  BY <1>1, <1>2, <1>3, <1>4, <1>6, <1>9, <1>12, Zenon DEF HeadOf, Six
<1>16. w[5] = ver /\ w[6] = type
  <2>1. t[5] = s[5] /\ t[6] = s[6]
    BY <1>5, <1>7 DEF Joins
  <2>2. u[5] = t[5] /\ u[6] = t[6]
    BY <1>8, <1>10 DEF Joins
  <2>3. w[5] = u[5] /\ w[6] = u[6]
    BY <1>11, <1>13 DEF Joins
  <2>4. QED
    BY <1>5, <2>1, <2>2, <2>3
<1>17. SubSeq(t, 1, 4) = MAGIC /\ SubSeq(t, 7, 8) = f
  <2>1. SubSeq(t, Len(s) + 1, Len(t)) = f /\ \A a, b \in 1 .. Len(s) : SubSeq(t, a, b) = SubSeq(s, a, b)
    BY <1>7, Zenon DEF Joins
  <2>2. 1 \in 1 .. Len(s) /\ 4 \in 1 .. Len(s) /\ Len(s) + 1 = 7
    BY <1>5
  <2>3. SubSeq(t, 1, 4) = SubSeq(s, 1, 4) /\ SubSeq(t, 7, 8) = f
    BY <1>8, <2>1, <2>2, Zenon
  <2>4. QED
    BY <1>5, <2>3, Zenon
<1>18. SubSeq(u, 1, 4) = MAGIC /\ SubSeq(u, 7, 8) = f /\ SubSeq(u, 9, 12) = r
  <2>1. SubSeq(u, Len(t) + 1, Len(u)) = r /\ \A a, b \in 1 .. Len(t) : SubSeq(u, a, b) = SubSeq(t, a, b)
    BY <1>10, Zenon DEF Joins
  <2>2. {1, 4, 7, 8} \subseteq 1 .. Len(t) /\ Len(t) + 1 = 9
    BY <1>8
  <2>3. SubSeq(u, 1, 4) = SubSeq(t, 1, 4) /\ SubSeq(u, 7, 8) = SubSeq(t, 7, 8) /\ SubSeq(u, 9, 12) = r
    BY <1>11, <2>1, <2>2, Zenon
  <2>4. QED
    BY <1>17, <2>3, Zenon
<1>19. SubSeq(w, 1, 4) = MAGIC /\ SubSeq(w, 7, 8) = f /\ SubSeq(w, 9, 12) = r /\ SubSeq(w, 13, 16) = l
  <2>1. SubSeq(w, Len(u) + 1, Len(w)) = l /\ \A a, b \in 1 .. Len(u) : SubSeq(w, a, b) = SubSeq(u, a, b)
    BY <1>13, Zenon DEF Joins
  <2>2. {1, 4, 7, 8, 9, 12} \subseteq 1 .. Len(u) /\ Len(u) + 1 = 13
    BY <1>11
  <2>3. /\ SubSeq(w, 1, 4) = SubSeq(u, 1, 4) /\ SubSeq(w, 7, 8) = SubSeq(u, 7, 8)
        /\ SubSeq(w, 9, 12) = SubSeq(u, 9, 12) /\ SubSeq(w, 13, 16) = l
    BY <1>14, <2>1, <2>2, Zenon
  <2>4. QED
    BY <1>18, <2>3, Zenon
<1>20. QED
  BY <1>1, <1>2, <1>3, <1>13, <1>14, <1>15, <1>16, <1>19
-----------------------------------------------------------------------------

\* A header with its checksum, and its fields.
Heads(c, ver, type, flags, req, len) ==
  /\ c \in Seq(Nat) /\ Len(c) = 20 /\ AllFit(c)
  /\ SubSeq(c, 1, 4) = MAGIC /\ c[5] = ver /\ c[6] = type
  /\ LoadBE(SubSeq(c, 7, 8)) = flags /\ LoadBE(SubSeq(c, 9, 12)) = req
  /\ LoadBE(SubSeq(c, 13, 16)) = len
  /\ LoadBE(SubSeq(c, 17, 20)) = crc32(SubSeq(c, 1, 16))

LEMMA HeaderIs ==
  ASSUME NEW ver \in Vers, NEW type \in Types, NEW flags \in Shorts, NEW req \in Longs,
         NEW len \in Longs
  PROVE  Heads(Checked(HeadOf(ver, type, flags, req, len)), ver, type, flags, req, len)
<1>1. PICK h : h = HeadOf(ver, type, flags, req, len)
  OBVIOUS
<1>2. /\ h \in Seq(Nat) /\ Len(h) = 16 /\ SubSeq(h, 1, 4) = MAGIC /\ h[5] = ver /\ h[6] = type
      /\ LoadBE(SubSeq(h, 7, 8)) = flags /\ LoadBE(SubSeq(h, 9, 12)) = req
      /\ LoadBE(SubSeq(h, 13, 16)) = len /\ AllFit(h)
  BY <1>1, HeadIs
<1>3. PICK x \in 0 .. Radix4 - 1 : x = crc32(h)
  BY <1>2, CrcIs
<1>4. PICK k \in Seq(Byte) : k = StoreBE(x, 4) /\ Len(k) = 4 /\ LoadBE(k) = x
  <2>1. x \in Nat /\ x < Values(4)
    BY RadixFacts DEF Values
  <2>2. QED
    BY <2>1, StoreLoad, WidthsAre
<1>5. PICK c : c = h \o k
  OBVIOUS
<1>6. Joins(c, h, k) /\ AllFit(c)
  <2>1. Len(h) >= 6
    BY <1>2
  <2>2. QED
    BY <1>2, <1>5, <2>1, Grown
<1>7. Checked(HeadOf(ver, type, flags, req, len)) = c
  BY <1>1, <1>3, <1>4, <1>5, Zenon DEF Checked
<1>8. c \in Seq(Nat) /\ Len(c) = 20
  BY <1>2, <1>4, <1>6 DEF Joins
<1>9. /\ SubSeq(c, 1, 16) = h /\ SubSeq(c, 16 + 1, Len(c)) = k
      /\ \A a, b \in 1 .. 16 : SubSeq(c, a, b) = SubSeq(h, a, b)
      /\ \A i \in 1 .. 16 : c[i] = h[i]
  BY <1>2, <1>6, Zenon DEF Joins
<1>10. /\ SubSeq(c, 1, 4) = SubSeq(h, 1, 4) /\ SubSeq(c, 7, 8) = SubSeq(h, 7, 8)
       /\ SubSeq(c, 9, 12) = SubSeq(h, 9, 12) /\ SubSeq(c, 13, 16) = SubSeq(h, 13, 16)
       /\ c[5] = h[5] /\ c[6] = h[6]
  <2>1. {1, 4, 5, 6, 7, 8, 9, 12, 13, 16} \subseteq 1 .. 16
    OBVIOUS
  <2>2. QED
    BY <1>9, <2>1, ZenonT(60)
<1>11. SubSeq(c, 17, 20) = k
  <2>1. 16 + 1 = 17
    OBVIOUS
  <2>2. QED
    BY <1>8, <1>9, <2>1, Zenon
<1>12. LoadBE(SubSeq(c, 17, 20)) = crc32(SubSeq(c, 1, 16))
  BY <1>3, <1>4, <1>9, <1>11, Zenon
<1>13. Heads(c, ver, type, flags, req, len)
  BY <1>2, <1>6, <1>8, <1>10, <1>12, Zenon DEF Heads
<1>14. QED
  BY <1>7, <1>13, Zenon

LEMMA Cancelled ==
  ASSUME NEW u \in Nat, NEW v \in Nat, NEW w \in Nat, w > 0, u # v
  PROVE  u * w # v * w
<1>1. \A x, y, z \in Nat : x <= y => x * z <= y * z
  OBVIOUS
<1>2. ASSUME NEW x \in Nat, NEW y \in Nat, x < y PROVE x * w # y * w
  <2>1. (x + 1) * w <= y * w
    BY <1>1, <1>2
  <2>2. (x + 1) * w = x * w + w
    OBVIOUS
  <2>3. PICK a \in Nat, b \in Nat : a = x * w /\ b = y * w
    BY Products
  <2>4. QED
    BY <2>1, <2>2, <2>3
<1>3. u < v \/ v < u
  OBVIOUS
<1>4. CASE u < v
  BY <1>2, <1>4
<1>5. CASE v < u
  <2>1. v * w # u * w
    BY <1>2, <1>5
  <2>2. QED
    BY <2>1
<1>6. QED
  BY <1>3, <1>4, <1>5

\* Two checksums of which one digit differs.
LEMMA DigitDiffers ==
  ASSUME NEW s \in Seq(Nat), NEW t \in Seq(Nat), Len(s) = 4, Len(t) = 4, NEW b \in 1 .. 4,
         t[b] # s[b], \A i \in 1 .. 4 : i # b => t[i] = s[i]
  PROVE  LoadBE(t) # LoadBE(s)
<1>a. \A i \in 1 .. Len(s) : s[i] \in Nat
  BY ElementOfSeq
<1>b. \A i \in 1 .. Len(t) : t[i] \in Nat
  BY ElementOfSeq
<1>1. s[1] \in Nat /\ s[2] \in Nat /\ s[3] \in Nat /\ s[4] \in Nat
  BY <1>a
<1>2. t[1] \in Nat /\ t[2] \in Nat /\ t[3] \in Nat /\ t[4] \in Nat
  BY <1>b
<1>3. /\ LoadBE(s) = (s[1] * Radix + s[2]) * Radix2 + (s[3] * Radix + s[4])
      /\ LoadBE(t) = (t[1] * Radix + t[2]) * Radix2 + (t[3] * Radix + t[4])
  <2>1. LoadBE(s) = Load4(s, 1) /\ LoadBE(t) = Load4(t, 1)
    BY LoadIs
  <2>2. QED
    BY <2>1 DEF Load4, Load2
<1>4. Radix \in Nat /\ Radix > 0 /\ Radix2 \in Nat /\ Radix2 > 0
  BY RadixType
<1>5. PICK a1 \in Nat, a2 \in Nat : a1 = s[1] * Radix /\ a2 = s[3] * Radix
  BY <1>1, Products, RadixType
<1>6. PICK c1 \in Nat, c2 \in Nat : c1 = t[1] * Radix /\ c2 = t[3] * Radix
  BY <1>2, Products, RadixType
<1>7. PICK d \in Nat, e \in Nat : d = (a1 + s[2]) * Radix2 /\ e = (c1 + t[2]) * Radix2
  <2>1. a1 + s[2] \in Nat /\ c1 + t[2] \in Nat
    BY <1>1, <1>2, SMTT(60)
  <2>2. QED
    BY <2>1, Products, RadixType
<1>8. LoadBE(s) = d + (a2 + s[4]) /\ LoadBE(t) = e + (c2 + t[4])
  BY <1>3, <1>5, <1>6, <1>7
<1>9. CASE b = 1
  <2>1. c1 # a1
    BY <1>1, <1>2, <1>4, <1>5, <1>6, <1>9, Cancelled, ZenonT(60)
  <2>2. c1 + t[2] # a1 + s[2] /\ c2 = a2 /\ t[4] = s[4]
    BY <1>1, <1>5, <1>6, <1>9, <2>1, SMTT(60)
  <2>a. a1 + s[2] \in Nat /\ c1 + t[2] \in Nat
    BY <1>1, <1>2, SMTT(60)
  <2>3. d # e
    BY <1>4, <1>7, <2>2, <2>a, Cancelled
  <2>4. QED
    BY <1>1, <1>8, <2>2, <2>3, SMTT(60)
<1>10. CASE b = 2
  <2>1. c1 = a1 /\ c2 = a2 /\ t[4] = s[4] /\ t[2] # s[2]
    BY <1>5, <1>6, <1>10
  <2>2. c1 + t[2] # a1 + s[2]
    BY <1>1, <1>2, <2>1
  <2>a. a1 + s[2] \in Nat /\ c1 + t[2] \in Nat
    BY <1>1, <1>2
  <2>3. d # e
    BY <1>4, <1>7, <2>2, <2>a, Cancelled
  <2>4. QED
    BY <1>1, <1>8, <2>1, <2>3
<1>11. CASE b = 3
  <2>1. c2 # a2
    BY <1>1, <1>2, <1>4, <1>5, <1>6, <1>11, Cancelled
  <2>2. c1 = a1 /\ t[2] = s[2] /\ t[4] = s[4]
    BY <1>5, <1>6, <1>11
  <2>3. QED
    BY <1>1, <1>7, <1>8, <2>1, <2>2, SMTT(60)
<1>12. CASE b = 4
  <2>1. c1 = a1 /\ t[2] = s[2] /\ c2 = a2 /\ t[4] # s[4]
    BY <1>5, <1>6, <1>12
  <2>2. QED
    BY <1>1, <1>2, <1>7, <1>8, <2>1, SMTT(60)
<1>13. QED
  BY <1>9, <1>10, <1>11, <1>12
-----------------------------------------------------------------------------

Crced(c) ==
  /\ c \in Seq(Nat) /\ Len(c) = 20 /\ AllFit(c)
  /\ LoadBE(SubSeq(c, 17, 20)) = crc32(SubSeq(c, 1, 16))
AlteredAt(c, b) == [c EXCEPT ![b] = AlteredByte(@, b)]

LEMMA AlteredByteIs ==
  ASSUME NEW b \in 1 .. 20, NEW x \in Nat, ByteFits(b, x)
  PROVE  AlteredByte(x, b) \in Nat /\ AlteredByte(x, b) # x
<1>1. Radix \in Nat /\ Radix > 3
  BY RadixFacts
<1>2. CASE b = 6
  <2>1. x <= 26 /\ AlteredByte(x, b) = (x % 26) + 1
    BY <1>2 DEF AlteredByte, ByteFits
  <2>2. x < 26 \/ x = 26
    BY <2>1
  <2>3. (x < 26 => x % 26 = x) /\ (x = 26 => x % 26 = 0)
    OBVIOUS
  <2>4. QED
    BY <2>1, <2>2, <2>3
<1>3. CASE b # 6
  <2>1. x < Radix /\ AlteredByte(x, b) = (x + 1) % Radix
    BY <1>3 DEF AlteredByte, ByteFits
  <2>2. CASE x + 1 < Radix
    <3>1. (x + 1) % Radix = x + 1
      BY <1>1, <2>2
    <3>2. QED
      BY <2>1, <3>1
  <2>3. CASE x + 1 = Radix
    <3>1. (x + 1) % Radix = 0
      BY <1>1, <2>3
    <3>2. QED
      BY <1>1, <2>1, <2>3, <3>1
  <2>4. QED
    BY <1>1, <2>1, <2>2, <2>3
<1>4. QED
  BY <1>2, <1>3

LEMMA TwoParts ==
  ASSUME NEW c \in Seq(Nat), Len(c) = 20
  PROVE  /\ SubSeq(c, 1, 16) \in Seq(Nat) /\ Len(SubSeq(c, 1, 16)) = 16
         /\ \A i \in 1 .. 16 : SubSeq(c, 1, 16)[i] = c[i]
         /\ SubSeq(c, 17, 20) \in Seq(Nat) /\ Len(SubSeq(c, 17, 20)) = 4
         /\ \A i \in 1 .. 4 : SubSeq(c, 17, 20)[i] = c[16 + i]
<1>1. \A k \in 0 .. Len(c) : /\ SubSeq(c, 1, k) \in Seq(Nat) /\ Len(SubSeq(c, 1, k)) = k
                             /\ \A i \in 1 .. k : SubSeq(c, 1, k)[i] = c[i]
  BY PrefixIs
<1>2. \A k \in 0 .. Len(c) :
        /\ SubSeq(c, k + 1, Len(c)) \in Seq(Nat) /\ Len(SubSeq(c, k + 1, Len(c))) = Len(c) - k
        /\ \A i \in 1 .. Len(c) - k : SubSeq(c, k + 1, Len(c))[i] = c[k + i]
  BY SuffixIs
<1>3. 16 \in 0 .. Len(c) /\ 16 + 1 = 17 /\ Len(c) - 16 = 4
  OBVIOUS
<1>4. /\ SubSeq(c, 1, 16) \in Seq(Nat) /\ Len(SubSeq(c, 1, 16)) = 16
      /\ \A i \in 1 .. 16 : SubSeq(c, 1, 16)[i] = c[i]
  BY <1>1, <1>3, Zenon
<1>5. /\ SubSeq(c, 16 + 1, Len(c)) \in Seq(Nat) /\ Len(SubSeq(c, 16 + 1, Len(c))) = Len(c) - 16
      /\ \A i \in 1 .. Len(c) - 16 : SubSeq(c, 16 + 1, Len(c))[i] = c[16 + i]
  BY <1>2, <1>3, Zenon
<1>6. /\ SubSeq(c, 17, 20) \in Seq(Nat) /\ Len(SubSeq(c, 17, 20)) = 4
      /\ \A i \in 1 .. 4 : SubSeq(c, 17, 20)[i] = c[16 + i]
  BY <1>3, <1>5, Zenon
<1>7. QED
  BY <1>4, <1>6

LEMMA ExceptNat ==
  ASSUME NEW c \in Seq(Nat), NEW b \in 1 .. Len(c), NEW z \in Nat
  PROVE  [c EXCEPT ![b] = z] \in Seq(Nat) /\ Len([c EXCEPT ![b] = z]) = Len(c)
BY ExceptSeq

\* Wherever a header is altered, it is refused.
LEMMA AlteredHeader ==
  ASSUME NEW c, Crced(c), NEW b \in 1 .. 20
  PROVE  AlteredAt(c, b) \in Seq(Nat) /\ Len(AlteredAt(c, b)) = 20 /\ ~ HeaderOK(AlteredAt(c, b))
<1>0. PICK d : d = AlteredAt(c, b)
  OBVIOUS
<1>1. c \in Seq(Nat) /\ Len(c) = 20 /\ AllFit(c) /\ b \in 1 .. Len(c)
  BY DEF Crced
<1>2. \A i \in 1 .. 20 : c[i] \in Nat /\ ByteFits(i, c[i])
  <2>1. \A i \in 1 .. Len(c) : c[i] \in Nat
    BY <1>1, ElementOfSeq
  <2>2. QED
    BY <1>1, <2>1 DEF AllFit
<1>3. PICK y \in Nat : y = AlteredByte(c[b], b) /\ y # c[b]
  BY <1>2, AlteredByteIs
<1>4. d = [c EXCEPT ![b] = y]
  BY <1>0, <1>3, Zenon DEF AlteredAt
<1>5. d \in Seq(Nat) /\ Len(d) = 20 /\ \A i \in 1 .. 20 : d[i] = IF i = b THEN y ELSE c[i]
  <2>1. [c EXCEPT ![b] = y] \in Seq(Nat) /\ Len([c EXCEPT ![b] = y]) = Len(c)
    BY <1>1, ExceptNat, Zenon
  <2>2. \A i \in 1 .. Len(c) : [c EXCEPT ![b] = y][i] = IF i = b THEN y ELSE c[i]
    BY <1>1, ExceptSeq
  <2>3. QED
    BY <1>1, <1>4, <2>1, <2>2
<1>6. PICK s \in Seq(Nat) : /\ s = SubSeq(c, 1, 16) /\ Len(s) = 16 /\ \A i \in 1 .. 16 : s[i] = c[i]
  BY <1>1, TwoParts, Zenon
<1>7. PICK t \in Seq(Nat) : /\ t = SubSeq(d, 1, 16) /\ Len(t) = 16 /\ \A i \in 1 .. 16 : t[i] = d[i]
  BY <1>5, TwoParts, Zenon
<1>8. PICK u \in Seq(Nat) : /\ u = SubSeq(c, 17, 20) /\ Len(u) = 4 /\ \A i \in 1 .. 4 : u[i] = c[16 + i]
  BY <1>1, TwoParts, Zenon
<1>9. PICK v \in Seq(Nat) : /\ v = SubSeq(d, 17, 20) /\ Len(v) = 4 /\ \A i \in 1 .. 4 : v[i] = d[16 + i]
  BY <1>5, TwoParts, Zenon
<1>10. LoadBE(u) = crc32(s)
  BY <1>6, <1>8, Zenon DEF Crced
<1>11. CASE b \in 1 .. 16
  <2>1. u = v
    <3>1. ASSUME NEW i \in 1 .. 4 PROVE u[i] = v[i]
      <4>1. 16 + i \in 1 .. 20 /\ 16 + i # b
        BY <1>11
      <4>2. d[16 + i] = c[16 + i]
        BY <1>5, <4>1, Zenon
      <4>3. QED
        BY <1>8, <1>9, <4>2, Zenon
    <3>2. QED
      BY <1>8, <1>9, <3>1, SeqEqual
  <2>2. crc32(t) # crc32(s)
    <3>1. PICK d0 \in Int : b * y - b * c[b] = d0 /\ d0 # 0 /\ d0 < Radix4 /\ - d0 < Radix4
      <4>1. c[b] \in Nat /\ (IF b = 6 THEN c[b] <= 26 ELSE c[b] < Radix)
        BY <1>2 DEF ByteFits
      <4>2. QED
        BY <1>3, <1>11, <4>1, ShareIs
    <3>2. s[b] = c[b] /\ t[b] = y
      BY <1>5, <1>6, <1>7, <1>11
    <3>3. Share(b, s, t) = d0
      BY <3>1, <3>2, Zenon DEF Share
    <3>a. ASSUME NEW i \in 1 .. 16, i # b PROVE t[i] = s[i]
      <4>1. i \in 1 .. 20
        OBVIOUS
      <4>2. d[i] = c[i]
        BY <1>5, <3>a, <4>1, Zenon
      <4>3. QED
        BY <1>6, <1>7, <4>2, Zenon
    <3>b. Same(b - 1, s, t)
      <4>1. \A i \in 1 .. b - 1 : i \in 1 .. 16 /\ i # b
        BY <1>11
      <4>2. QED
        BY <3>a, <4>1 DEF Same
    <3>c. SameBehind(b, s, t)
      <4>1. \A i \in b + 1 .. 16 : i \in 1 .. 16 /\ i # b
        BY <1>11
      <4>2. \A i \in b + 1 .. 16 : t[i] = s[i]
        BY <3>a, <4>1
      <4>3. QED
        BY <1>6, <4>2, Zenon DEF SameBehind
    <3>4. Same(b - 1, s, t) /\ SameBehind(b, s, t)
      BY <3>b, <3>c
    <3>5. Len(s) = Len(t) /\ b \in 1 .. Len(s)
      BY <1>6, <1>7, <1>11
    <3>6. QED
      BY <3>1, <3>3, <3>4, <3>5, CrcDiffers
  <2>3. QED
    BY <1>0, <1>5, <1>7, <1>9, <1>10, <2>1, <2>2, Zenon DEF HeaderOK
<1>12. CASE b \in 17 .. 20
  <2>1. s = t
    <3>1. ASSUME NEW i \in 1 .. 16 PROVE s[i] = t[i]
      <4>1. i \in 1 .. 20 /\ i # b
        BY <1>12
      <4>2. d[i] = c[i]
        BY <1>5, <4>1, Zenon
      <4>3. QED
        BY <1>6, <1>7, <4>2, Zenon
    <3>2. QED
      BY <1>6, <1>7, <3>1, SeqEqual
  <2>2. PICK e \in 1 .. 4 : e = b - 16
    BY <1>12
  <2>3. v[e] # u[e] /\ \A i \in 1 .. 4 : i # e => v[i] = u[i]
    BY <1>3, <1>5, <1>8, <1>9, <1>12, <2>2, SMTT(60)
  <2>4. LoadBE(v) # LoadBE(u)
    BY <1>8, <1>9, <2>3, DigitDiffers, ZenonT(60)
  <2>5. QED
    BY <1>0, <1>5, <1>7, <1>9, <1>10, <2>1, <2>4, Zenon DEF HeaderOK
<1>13. QED
  BY <1>11, <1>12
-----------------------------------------------------------------------------

(* Frames.                                                                 *)

MessageOK(m) ==
  /\ Fields(Kinds[m.kind].fields) /\ ValuesOf(Kinds[m.kind].fields, m.v)
  /\ Encodable(Kinds[m.kind].fields, m.v)
  /\ Payload(m) \in Seq(Byte) /\ Payload(m) \in Seq(Nat) /\ Len(Payload(m)) \in Nat
  /\ Len(Payload(m)) <= MaxPayload
  /\ Kinds[m.kind].type \in ValidTypes /\ Kinds[m.kind].type \in 1 .. 26
  /\ m.header \in {"encoder", "type", "flags", "request", "length", "version"}

LEMMA ScriptFacts ==
  ASSUME NEW s \in Scripts
  PROVE  /\ Len(s) \in 1 .. Radix4 - 1 /\ DOMAIN s = 1 .. Len(s)
         /\ \A i \in 1 .. Len(s) : MessageOK(s[i])
<1>1. Len(s) \in 1 .. Radix4 - 1 /\ s = [i \in 1 .. Len(s) |-> s[i]] /\ \A i \in DOMAIN s : Sendable(s[i])
  BY WireAssumption
<1>2. DOMAIN s = 1 .. Len(s)
  BY <1>1, Zenon
<1>3. ASSUME NEW i \in 1 .. Len(s) PROVE MessageOK(s[i])
  <2>1. PICK m : m = s[i]
    OBVIOUS
  <2>2. Sendable(m)
    BY <1>1, <1>2, <2>1, Zenon
  <2>3. PICK f : f = Kinds[m.kind].fields
    OBVIOUS
  <2>4. /\ m.kind \in DOMAIN Kinds /\ Encodable(f, m.v) /\ EncodeOK(Kinds[m.kind].type, 1, Payload(m))
        /\ ValuesOf(f, m.v) /\ m.header \in {"encoder", "type", "flags", "request", "length", "version"}
    BY <2>2, <2>3, Zenon DEF Sendable
  <2>5. Fields(f)
    BY <2>3, <2>4, WireAssumption
  <2>6. Payload(m) \in Seq(Byte)
    <3>1. Encode(f, m.v) \in Seq(Byte)
      BY <2>4, <2>5, MessageIs, Zenon
    <3>2. QED
      BY <2>3, <3>1, Zenon DEF Payload
  <2>7. Payload(m) \in Seq(Nat) /\ Len(Payload(m)) \in Nat
    BY <2>6, ByteFacts, SeqMonotonic, LenProperties
  <2>8. Kinds[m.kind].type \in ValidTypes /\ Len(Payload(m)) <= MaxPayload
    BY <2>4, Zenon DEF EncodeOK
  <2>9. Kinds[m.kind].type \in 1 .. 26
    BY <2>8, WireAssumption
  <2>10. QED
    BY <2>1, <2>3, <2>4, <2>5, <2>6, <2>7, <2>8, <2>9, Zenon DEF MessageOK
<1>4. QED
  BY <1>1, <1>2, <1>3

HeaderOf(m, req) ==
  IF Proper(m) THEN Header(Kinds[m.kind].type, 0, req, Len(Payload(m))) ELSE ForeignHeader(m)
BodyOf(m) == IF Proper(m) THEN Payload(m) ELSE ForeignPayload(m)

LEMMA Wholes ==
  /\ 0 \in Shorts /\ 1 \in Shorts /\ 0 \in Longs /\ 1 \in Longs
  /\ VERSION \in Vers /\ VERSION + 1 \in Vers /\ MaxPayload \in Nat /\ MaxPayload + 1 \in Longs
  /\ \A n \in Nat : n <= MaxPayload => n \in Longs
  /\ 1 .. Radix4 - 1 \subseteq Longs /\ 1 .. 26 \subseteq Types /\ 0 \in Types
<1>1. MaxPayload \in Nat /\ MaxPayload + 1 < Radix4
  BY WireAssumption
<1>2. Radix > 3 /\ Radix \in Nat /\ Radix2 > 3 /\ Radix2 \in Nat /\ Radix4 > 3 /\ Radix4 \in Nat
  BY RadixFacts
<1>3. 0 \in Shorts /\ 1 \in Shorts /\ 0 \in Longs /\ 1 \in Longs
  BY <1>2 DEF Shorts, Longs
<1>4. VERSION \in Vers /\ VERSION + 1 \in Vers
  BY <1>2 DEF VERSION, Vers
<1>5. MaxPayload + 1 \in Longs /\ \A n \in Nat : n <= MaxPayload => n \in Longs
  BY <1>1, <1>2 DEF Longs
<1>6. 1 .. Radix4 - 1 \subseteq Longs /\ 1 .. 26 \subseteq Types /\ 0 \in Types
  BY <1>2 DEF Longs, Types
<1>7. QED
  BY <1>1, <1>3, <1>4, <1>5, <1>6

\* The header that a peer puts in front of a message.
LEMMA SentHeader ==
  ASSUME NEW m, MessageOK(m), NEW req \in Longs, req # 0
  PROVE  /\ Crced(HeaderOf(m, req)) /\ (HeaderOK(HeaderOf(m, req)) <=> Proper(m))
         /\ Proper(m) => /\ HeaderOf(m, req)[6] = Kinds[m.kind].type
                         /\ LoadBE(SubSeq(HeaderOf(m, req), 9, 12)) = req
                         /\ LoadBE(SubSeq(HeaderOf(m, req), 13, 16)) = Len(Payload(m))
<1>1. PICK type \in ValidTypes : type = Kinds[m.kind].type /\ type \in Types
  BY Wholes, Zenon DEF MessageOK
<1>2. PICK len \in Longs : len = Len(Payload(m)) /\ len <= MaxPayload
  BY Wholes, Zenon DEF MessageOK
<1>3. PICK h : h = HeaderOf(m, req)
  OBVIOUS
<1>4. \A v, t, f, r, l : Heads(h, v, t, f, r, l) => Crced(h)
  BY Zenon DEF Heads, Crced
<1>5. \A v, t, f, r, l : Heads(h, v, t, f, r, l) =>
        (HeaderOK(h) <=> v = VERSION /\ f = 0 /\ r # 0 /\ t \in ValidTypes /\ l <= MaxPayload)
  BY Zenon DEF Heads, HeaderOK
<1>6. 0 \notin ValidTypes /\ 1 # 0 /\ VERSION + 1 # VERSION /\ ~ (MaxPayload + 1 <= MaxPayload)
  BY WireAssumption DEF VERSION
<1>7. CASE Proper(m)
  <2>1. h = Checked(HeadOf(VERSION, type, 0, req, len))
    BY <1>1, <1>2, <1>3, <1>7, Zenon DEF HeaderOf, Header, HeadOf
  <2>2. Heads(h, VERSION, type, 0, req, len)
    <3>1. VERSION \in Vers /\ type \in Types /\ 0 \in Shorts /\ req \in Longs /\ len \in Longs
      BY <1>1, Wholes, Zenon
    <3>2. Heads(Checked(HeadOf(VERSION, type, 0, req, len)), VERSION, type, 0, req, len)
      BY <3>1, HeaderIs, Zenon
    <3>3. QED
      BY <2>1, <3>2, Zenon
  <2>3. Crced(h) /\ HeaderOK(h)
    <3>1. /\ Crced(h)
          /\ HeaderOK(h) <=> VERSION = VERSION /\ 0 = 0 /\ req # 0 /\ type \in ValidTypes /\ len <= MaxPayload
      BY <1>4, <1>5, <2>2, Zenon
    <3>2. QED
      BY <1>1, <1>2, <3>1
  <2>4. h[6] = type /\ LoadBE(SubSeq(h, 9, 12)) = req /\ LoadBE(SubSeq(h, 13, 16)) = len
    BY <2>2, Zenon DEF Heads
  <2>5. QED
    BY <1>1, <1>2, <1>3, <1>7, <2>3, <2>4, Zenon
<1>8. CASE ~ Proper(m)
  <2>1. m.header \in {"type", "flags", "request", "length", "version"} /\ h = ForeignHeader(m)
    BY <1>3, <1>8, Zenon DEF HeaderOf, MessageOK, Proper
  <2>2. SUFFICES Crced(h) /\ ~ HeaderOK(h)
    BY <1>3, <1>8, Zenon
  <2>3. CASE m.header = "type"
    <3>1. h = Header(0, 0, 1, len)
      BY <1>1, <1>2, <2>1, <2>3 DEF ForeignHeader
    <3>2. h = Checked(HeadOf(VERSION, 0, 0, 1, len))
      BY <3>1, Zenon DEF Header, HeadOf
    <3>3. Heads(h, VERSION, 0, 0, 1, len)
      BY <3>2, HeaderIs, Wholes, Zenon
    <3>4. QED
      BY <1>4, <1>5, <1>6, <3>3, Zenon
  <2>4. CASE m.header = "flags"
    <3>1. h = Header(type, 1, 1, len)
      BY <1>1, <1>2, <2>1, <2>4 DEF ForeignHeader
    <3>2. h = Checked(HeadOf(VERSION, type, 1, 1, len))
      BY <3>1, Zenon DEF Header, HeadOf
    <3>3. Heads(h, VERSION, type, 1, 1, len)
      BY <1>1, <3>2, HeaderIs, Wholes, Zenon
    <3>4. QED
      BY <1>4, <1>5, <1>6, <3>3, Zenon
  <2>5. CASE m.header = "request"
    <3>1. h = Header(type, 0, 0, len)
      BY <1>1, <1>2, <2>1, <2>5 DEF ForeignHeader
    <3>2. h = Checked(HeadOf(VERSION, type, 0, 0, len))
      BY <3>1, Zenon DEF Header, HeadOf
    <3>3. Heads(h, VERSION, type, 0, 0, len)
      BY <1>1, <3>2, HeaderIs, Wholes, Zenon
    <3>4. QED
      BY <1>4, <1>5, <1>6, <3>3, Zenon
  <2>6. CASE m.header = "length"
    <3>1. h = Header(type, 0, 1, MaxPayload + 1)
      BY <1>1, <1>2, <2>1, <2>6 DEF ForeignHeader
    <3>2. h = Checked(HeadOf(VERSION, type, 0, 1, MaxPayload + 1))
      BY <3>1, Zenon DEF Header, HeadOf
    <3>3. Heads(h, VERSION, type, 0, 1, MaxPayload + 1)
      BY <1>1, <3>2, HeaderIs, Wholes, Zenon
    <3>4. QED
      BY <1>4, <1>5, <1>6, <3>3, Zenon
  <2>7. CASE m.header = "version"
    <3>1. h = Checked(MAGIC \o <<VERSION + 1, type>> \o StoreBE(0, 2) \o StoreBE(1, 4) \o StoreBE(len, 4))
      BY <1>1, <1>2, <2>1, <2>7 DEF ForeignHeader
    <3>2. h = Checked(HeadOf(VERSION + 1, type, 0, 1, len))
      BY <3>1, Zenon DEF HeadOf
    <3>3. Heads(h, VERSION + 1, type, 0, 1, len)
      BY <1>1, <3>2, HeaderIs, Wholes, Zenon
    <3>4. QED
      BY <1>4, <1>5, <1>6, <3>3, Zenon
  <2>8. QED
    BY <2>1, <2>3, <2>4, <2>5, <2>6, <2>7
<1>9. QED
  BY <1>7, <1>8
-----------------------------------------------------------------------------

LEMMA FrameIs ==
  ASSUME NEW m, MessageOK(m), NEW req \in Longs, req # 0
  PROVE  /\ Frame(m, req) = HeaderOf(m, req) \o BodyOf(m) /\ BodyOf(m) \in Seq(Nat)
         /\ HeaderOf(m, req) \in Seq(Nat) /\ Len(HeaderOf(m, req)) = 20
<1>1. /\ Encodable(Kinds[m.kind].fields, m.v) /\ Payload(m) \in Seq(Nat)
      /\ EncodeOK(Kinds[m.kind].type, req, Payload(m))
  BY Zenon DEF MessageOK, EncodeOK
<1>2. Frame(m, req) = HeaderOf(m, req) \o BodyOf(m)
  <2>1. CASE Proper(m)
    BY <1>1, <2>1, Zenon DEF Frame, fr_frame_encode, HeaderOf, BodyOf
  <2>2. CASE ~ Proper(m)
    BY <2>2, Zenon DEF Frame, HeaderOf, BodyOf
  <2>3. QED
    BY <2>1, <2>2
<1>3. BodyOf(m) \in Seq(Nat)
  <2>1. [i \in 1 .. MaxPayload + 1 |-> 0] \in Seq(Nat)
    <3>1. MaxPayload + 1 \in Nat
      BY WireAssumption
    <3>2. QED
      BY <3>1
  <2>2. ForeignPayload(m) \in Seq(Nat)
    BY <1>1, <2>1, Zenon DEF ForeignPayload
  <2>3. QED
    BY <1>1, <2>2, Zenon DEF BodyOf
<1>4. QED
  BY <1>2, <1>3, SentHeader, Zenon DEF Crced

\* A frame on the wire: what it is made of, and what its header says of it.
PieceOK(al, m, i, H, B) ==
  /\ H \in Seq(Nat) /\ B \in Seq(Nat) /\ Len(H) = 20
  /\ HeaderOK(H) => /\ Proper(m) /\ H[6] = Kinds[m.kind].type /\ LoadBE(SubSeq(H, 9, 12)) = i
                    /\ LoadBE(SubSeq(H, 13, 16)) = Len(B) /\ B = Payload(m)
  /\ ~ HeaderOK(H) => al \/ ~ Proper(m)
TapeOK(al, s, F) ==
  /\ F \in Seq(Seq(Nat)) /\ Len(F) = Len(s)
  /\ \A i \in 1 .. Len(s) : \E H, B : F[i] = H \o B /\ PieceOK(al, s[i], i, H, B)
SentBy(s) == [i \in DOMAIN s |-> Frame(s[i], i)]

LEMMA SentPiece ==
  ASSUME NEW s \in Scripts, NEW i \in 1 .. Len(s)
  PROVE  /\ SentBy(s)[i] = HeaderOf(s[i], i) \o BodyOf(s[i]) /\ Crced(HeaderOf(s[i], i))
         /\ PieceOK(FALSE, s[i], i, HeaderOf(s[i], i), BodyOf(s[i]))
<1>1. /\ Len(s) \in 1 .. Radix4 - 1 /\ DOMAIN s = 1 .. Len(s) /\ MessageOK(s[i])
  BY ScriptFacts
<1>2. i \in Longs /\ i # 0
  BY <1>1, RadixType DEF Longs
<1>3. PICK m : m = s[i] /\ MessageOK(m)
  BY <1>1
<1>4. SentBy(s)[i] = Frame(m, i)
  BY <1>1, <1>3, Zenon DEF SentBy
<1>5. /\ Frame(m, i) = HeaderOf(m, i) \o BodyOf(m) /\ BodyOf(m) \in Seq(Nat)
      /\ HeaderOf(m, i) \in Seq(Nat) /\ Len(HeaderOf(m, i)) = 20
  BY <1>2, <1>3, FrameIs, Zenon
<1>6. /\ Crced(HeaderOf(m, i)) /\ (HeaderOK(HeaderOf(m, i)) <=> Proper(m))
      /\ Proper(m) => /\ HeaderOf(m, i)[6] = Kinds[m.kind].type
                      /\ LoadBE(SubSeq(HeaderOf(m, i), 9, 12)) = i
                      /\ LoadBE(SubSeq(HeaderOf(m, i), 13, 16)) = Len(Payload(m))
  BY <1>2, <1>3, SentHeader, Zenon
<1>7. Proper(m) => BodyOf(m) = Payload(m)
  BY Zenon DEF BodyOf
<1>8. PieceOK(FALSE, m, i, HeaderOf(m, i), BodyOf(m))
  BY <1>5, <1>6, <1>7, Zenon DEF PieceOK
<1>9. QED
  BY <1>3, <1>4, <1>5, <1>6, <1>8, Zenon

LEMMA SentIs ==
  ASSUME NEW s \in Scripts
  PROVE  TapeOK(FALSE, s, SentBy(s))
<1>1. Len(s) \in 1 .. Radix4 - 1 /\ DOMAIN s = 1 .. Len(s)
  BY ScriptFacts
<1>2. \A i \in 1 .. Len(s) : SentBy(s)[i] \in Seq(Nat)
  <2>1. ASSUME NEW i \in 1 .. Len(s) PROVE SentBy(s)[i] \in Seq(Nat)
    <3>1. PICK H, B : SentBy(s)[i] = H \o B /\ PieceOK(FALSE, s[i], i, H, B)
      BY SentPiece, Zenon
    <3>2. H \in Seq(Nat) /\ B \in Seq(Nat)
      BY <3>1, Zenon DEF PieceOK
    <3>3. QED
      BY <3>1, <3>2, ConcatProperties
  <2>2. QED
    BY <2>1
<1>3. SentBy(s) = [i \in 1 .. Len(s) |-> SentBy(s)[i]]
  BY <1>1, Zenon DEF SentBy
<1>4. SentBy(s) \in Seq(Seq(Nat)) /\ Len(SentBy(s)) = Len(s)
  BY <1>1, <1>2, <1>3
<1>5. \A i \in 1 .. Len(s) : \E H, B : SentBy(s)[i] = H \o B /\ PieceOK(FALSE, s[i], i, H, B)
  BY SentPiece, Zenon
<1>6. QED
  BY <1>4, <1>5, Zenon DEF TapeOK

Patched(s, b, x) == [s EXCEPT ![b] = x]
LEMMA FrontPatched ==
  ASSUME NEW h \in Seq(Nat), NEW c \in Seq(Nat), NEW b \in 1 .. Len(h), NEW x \in Nat
  PROVE  (h \o c)[b] = h[b] /\ Patched(h \o c, b, x) = Patched(h, b, x) \o c
<1>1. PICK y \in Seq(Nat) : y = h \o c
  BY ConcatProperties
<1>2. Len(y) = Len(h) + Len(c) /\ Len(h) \in Nat /\ Len(c) \in Nat
  BY <1>1, ConcatProperties, LenProperties
<1>3. \A j \in 1 .. Len(y) : y[j] = IF j <= Len(h) THEN h[j] ELSE c[j - Len(h)]
  BY <1>1, <1>2, ConcatProperties
<1>4. b \in 1 .. Len(y) /\ b <= Len(h)
  BY <1>2
<1>5. PICK g \in Seq(Nat) : g = [h EXCEPT ![b] = x]
  BY ExceptNat, Zenon
<1>6. Len(g) = Len(h) /\ \A j \in 1 .. Len(h) : g[j] = IF j = b THEN x ELSE h[j]
  <2>1. Len(g) = Len(h)
    BY <1>5, ExceptNat, Zenon
  <2>2. \A j \in 1 .. Len(h) : [h EXCEPT ![b] = x][j] = IF j = b THEN x ELSE h[j]
    BY ExceptSeq
  <2>3. QED
    BY <1>5, <2>1, <2>2, Zenon
<1>7. PICK u \in Seq(Nat) : u = [y EXCEPT ![b] = x]
  BY <1>4, ExceptNat, Zenon
<1>8. Len(u) = Len(y) /\ \A j \in 1 .. Len(y) : u[j] = IF j = b THEN x ELSE y[j]
  <2>1. Len(u) = Len(y)
    BY <1>4, <1>7, ExceptNat, Zenon
  <2>2. \A j \in 1 .. Len(y) : [y EXCEPT ![b] = x][j] = IF j = b THEN x ELSE y[j]
    BY <1>4, ExceptSeq
  <2>3. QED
    BY <1>7, <2>1, <2>2, Zenon
<1>9. PICK v \in Seq(Nat) : v = g \o c
  BY ConcatProperties
<1>10. Len(v) = Len(y) /\ \A j \in 1 .. Len(v) : v[j] = IF j <= Len(g) THEN g[j] ELSE c[j - Len(g)]
  <2>1. Len(v) = Len(g) + Len(c)
    BY <1>9, ConcatProperties
  <2>2. \A j \in 1 .. Len(g) + Len(c) : (g \o c)[j] = IF j <= Len(g) THEN g[j] ELSE c[j - Len(g)]
    BY ConcatProperties
  <2>3. Len(v) = Len(y)
    BY <1>2, <1>6, <2>1
  <2>4. QED
    BY <1>9, <2>1, <2>2, <2>3, Zenon
<1>11. ASSUME NEW j \in 1 .. Len(u) PROVE u[j] = v[j]
  <2>1. j \in 1 .. Len(y) /\ j \in 1 .. Len(v)
    BY <1>8, <1>10
  <2>2. CASE j <= Len(h)
    <3>1. j \in 1 .. Len(h)
      BY <1>2, <2>1, <2>2
    <3>2. y[j] = h[j] /\ v[j] = g[j]
      BY <1>3, <1>6, <1>10, <2>1, <2>2, Zenon
    <3>3. QED
      BY <1>6, <1>8, <2>1, <3>1, <3>2, Zenon
  <2>3. CASE ~ (j <= Len(h))
    <3>1. j # b
      BY <1>4, <2>3
    <3>2. y[j] = c[j - Len(h)] /\ v[j] = c[j - Len(h)]
      BY <1>3, <1>6, <1>10, <2>1, <2>3, Zenon
    <3>3. QED
      BY <1>8, <2>1, <3>1, <3>2, Zenon
  <2>4. QED
    BY <2>2, <2>3
<1>12. u = v
  BY <1>8, <1>10, <1>11, SeqEqual
<1>13. y[b] = h[b]
  BY <1>3, <1>4
<1>14. QED
  BY <1>1, <1>5, <1>7, <1>9, <1>12, <1>13, Zenon DEF Patched

AlteredBy(s, i, b) ==
  [SentBy(s) EXCEPT ![i][b] = IF b = 6 THEN (@ % 26) + 1 ELSE (@ + 1) % Radix]

LEMMA AlteredIs ==
  ASSUME NEW s \in Scripts, NEW i \in 1 .. Len(s), NEW b \in 1 .. 20
  PROVE  TapeOK(TRUE, s, AlteredBy(s, i, b))
<1>1. TapeOK(FALSE, s, SentBy(s))
  BY SentIs
<1>2. PICK F : F = SentBy(s)
  OBVIOUS
<1>3. F \in Seq(Seq(Nat)) /\ Len(F) = Len(s)
  BY <1>1, <1>2, Zenon DEF TapeOK
<1>4. PICK H, B : F[i] = H \o B /\ PieceOK(FALSE, s[i], i, H, B) /\ Crced(H)
  BY <1>2, SentPiece, Zenon
<1>5. H \in Seq(Nat) /\ B \in Seq(Nat) /\ Len(H) = 20
  BY <1>4, Zenon DEF PieceOK
<1>6. PICK I : I = AlteredAt(H, b) /\ I \in Seq(Nat) /\ Len(I) = 20 /\ ~ HeaderOK(I)
  BY <1>4, AlteredHeader, Zenon
<1>7. PICK G : G = AlteredBy(s, i, b)
  OBVIOUS
<1>9. DOMAIN F = 1 .. Len(F) /\ i \in DOMAIN F
  BY <1>3
<1>10. G = [F EXCEPT ![i] = AlteredAt(F[i], b)]
  BY <1>2, <1>7, <1>9, Zenon DEF AlteredBy, AlteredAt, AlteredByte
<1>11. AlteredAt(H \o B, b) = I \o B
  <2>1. PICK x : x = AlteredByte(H[b], b)
    OBVIOUS
  <2>2. b \in 1 .. Len(H)
    BY <1>5
  <2>3. x \in Nat
    <3>1. \A k \in 1 .. Len(H) : H[k] \in Nat
      BY <1>5, ElementOfSeq
    <3>2. \A k \in 1 .. Len(H) : ByteFits(k, H[k])
      BY <1>4, Zenon DEF Crced, AllFit
    <3>3. QED
      BY <2>1, <2>2, <3>1, <3>2, AlteredByteIs, Zenon
  <2>4. (H \o B)[b] = H[b] /\ [(H \o B) EXCEPT ![b] = x] = [H EXCEPT ![b] = x] \o B
    <3>1. H \in Seq(Nat)
      BY <1>5
    <3>2. B \in Seq(Nat)
      BY <1>5
    <3>3. (H \o B)[b] = H[b] /\ Patched(H \o B, b, x) = Patched(H, b, x) \o B
      BY <2>2, <2>3, <3>1, <3>2, FrontPatched
    <3>4. QED
      BY <3>3, Zenon DEF Patched
  <2>5. AlteredAt(H \o B, b) = [(H \o B) EXCEPT ![b] = x] /\ I = [H EXCEPT ![b] = x]
    BY <1>6, <2>1, <2>4, Zenon DEF AlteredAt
  <2>6. QED
    BY <2>4, <2>5, Zenon
<1>12. G = [F EXCEPT ![i] = I \o B]
  BY <1>4, <1>10, <1>11, Zenon
<1>13. I \o B \in Seq(Nat)
  BY <1>5, <1>6, ConcatProperties
<1>14. /\ G \in Seq(Seq(Nat)) /\ Len(G) = Len(s)
       /\ \A j \in 1 .. Len(s) : G[j] = IF j = i THEN I \o B ELSE F[j]
  BY <1>3, <1>9, <1>12, <1>13, ExceptSeq
<1>15. PieceOK(TRUE, s[i], i, I, B)
  BY <1>5, <1>6, Zenon DEF PieceOK
<1>16. \A j : \A K, C : PieceOK(FALSE, s[j], j, K, C) => PieceOK(TRUE, s[j], j, K, C)
  BY Zenon DEF PieceOK
<1>17. ASSUME NEW j \in 1 .. Len(s) PROVE \E K, C : G[j] = K \o C /\ PieceOK(TRUE, s[j], j, K, C)
  <2>1. CASE j = i
    BY <1>14, <1>15, <2>1, Zenon
  <2>2. CASE j # i
    <3>1. PICK K, C : F[j] = K \o C /\ PieceOK(FALSE, s[j], j, K, C)
      BY <1>1, <1>2, Zenon DEF TapeOK
    <3>2. QED
      BY <1>14, <1>16, <2>2, <3>1, Zenon
  <2>3. QED
    BY <2>1, <2>2
<1>18. QED
  BY <1>7, <1>14, <1>17, Zenon DEF TapeOK
-----------------------------------------------------------------------------

(* The bytes behind the frames that were handed out.                       *)

Behind(F, n) == FlattenSeq(SubSeq(F, n + 1, Len(F)))

Opened(al, s, F, n) ==
  /\ Behind(F, n) \in Seq(Nat) /\ (n = Len(s) => Behind(F, n) = <<>>)
  /\ n < Len(s) => \E H, B : /\ PieceOK(al, s[n + 1], n + 1, H, B)
                             /\ Behind(F, n + 1) \in Seq(Nat)
                             /\ Behind(F, n) = H \o (B \o Behind(F, n + 1))

LEMMA BehindIs ==
  ASSUME NEW al, NEW s \in Scripts, NEW F, TapeOK(al, s, F), NEW n \in 0 .. Len(s)
  PROVE  Opened(al, s, F, n)
<1>1. /\ F \in Seq(Seq(Nat)) /\ Len(F) = Len(s) /\ n \in 0 .. Len(F)
      /\ \A i \in 1 .. Len(s) : \E H, B : F[i] = H \o B /\ PieceOK(al, s[i], i, H, B)
  BY Zenon DEF TapeOK
<1>2. /\ Behind(F, n) \in Seq(Nat) /\ (n = Len(F) => Behind(F, n) = <<>>)
      /\ n < Len(F) => Behind(F, n) = F[n + 1] \o FlattenSeq(SubSeq(F, n + 2, Len(F)))
  BY <1>1, FlattenRest, Zenon DEF Behind
<1>3. ASSUME n < Len(s)
      PROVE  \E H, B : /\ PieceOK(al, s[n + 1], n + 1, H, B)
                       /\ Behind(F, n + 1) \in Seq(Nat)
                       /\ Behind(F, n) = H \o (B \o Behind(F, n + 1))
  <2>1. Len(s) \in Nat /\ n + 1 \in 1 .. Len(s) /\ n + 1 \in 0 .. Len(F) /\ n + 2 = (n + 1) + 1
    <3>1. Len(s) \in Nat
      BY ScriptFacts
    <3>2. QED
      BY <1>1, <1>3, <3>1
  <2>2. PICK H, B : F[n + 1] = H \o B /\ PieceOK(al, s[n + 1], n + 1, H, B)
    BY <1>1, <2>1, Zenon
  <2>3. PICK z \in Seq(Nat) : z = Behind(F, n + 1)
    BY <1>1, <2>1, FlattenRest, Zenon DEF Behind
  <2>4. Behind(F, n) = (H \o B) \o z
    BY <1>1, <1>2, <1>3, <2>1, <2>2, <2>3, Zenon DEF Behind
  <2>5. H \in Seq(Nat) /\ B \in Seq(Nat)
    BY <2>2, Zenon DEF PieceOK
  <2>6. (H \o B) \o z = H \o (B \o z)
    BY <2>5, Associative, SMTT(60)
  <2>7. QED
    BY <2>2, <2>3, <2>4, <2>6, Zenon
<1>4. QED
  BY <1>1, <1>2, <1>3, Zenon DEF Opened

LEMMA TapesOK ==
  ASSUME script \in Scripts, altered \in BOOLEAN, NEW F \in Tapes
  PROVE  TapeOK(altered, script, F)
<1>1. SentBy(script) = Sent
  BY Zenon DEF SentBy, Sent
<1>2. CASE ~ altered
  <2>1. F = Sent /\ altered = FALSE
    BY <1>2 DEF Tapes
  <2>2. QED
    BY <1>1, <2>1, SentIs, Zenon
<1>3. CASE altered
  <2>1. altered = TRUE
    BY <1>3, Zenon
  <2>2. PICK i \in DOMAIN script, b \in 1 .. HeaderSize : F = Altered(i, b)
    <3>1. F \in {Altered(i, b) : i \in DOMAIN script, b \in 1 .. HeaderSize}
      BY <1>3 DEF Tapes
    <3>2. QED
      BY <3>1
  <2>3. F = AlteredBy(script, i, b)
    BY <1>1, <2>2, Zenon DEF Altered, AlteredBy
  <2>4. i \in 1 .. Len(script) /\ b \in 1 .. 20
    BY <2>2, ScriptFacts DEF HeaderSize
  <2>5. QED
    BY <2>1, <2>3, <2>4, AlteredIs, Zenon
<1>4. QED
  BY <1>2, <1>3
-----------------------------------------------------------------------------
(* The parser's buffer.                                                    *)

DoubledTo(g, base, needed, n) ==
  g = [k \in 0 .. n |-> IF k = 0 THEN base
                        ELSE LET c == g[k - 1] IN IF c < needed THEN 2 * c ELSE c]
More(c, needed) == IF c < needed THEN 2 * c ELSE c

LEMMA DoubledExists ==
  ASSUME NEW base, NEW needed, NEW n \in Nat
  PROVE  \E g : DoubledTo(g, base, needed, n)
<1> DEFINE Is(g, k) == g = [i \in 0 .. k |-> IF i = 0 THEN base ELSE More(g[i - 1], needed)]
           Bad == {k \in Nat : ~ \E g : Is(g, k)}
<1>1. ASSUME Bad # {} PROVE FALSE
  <2>1. PICK m \in Bad : \A k \in Bad : m <= k
    <3>1. Bad \in SUBSET Nat
      OBVIOUS
    <3>2. QED
      BY <1>1, <3>1, LeastNat
  <2>2. m # 0
    <3>1. Is([i \in 0 .. 0 |-> base], 0)
      OBVIOUS
    <3>2. QED
      BY <2>1, <3>1
  <2>3. m - 1 \in Nat /\ m - 1 \notin Bad
    BY <2>1, <2>2, SMTT(60)
  <2>4. PICK g : Is(g, m - 1)
    BY <2>3
  <2> DEFINE h == [i \in 0 .. m |-> IF i = m THEN More(g[m - 1], needed) ELSE g[i]]
  <2>5. ASSUME NEW i \in 0 .. m PROVE h[i] = IF i = 0 THEN base ELSE More(h[i - 1], needed)
    <3>1. CASE i = m
      <4>1. h[i] = More(g[m - 1], needed)
        BY <3>1
      <4>2. h[i - 1] = g[m - 1]
        BY <2>1, <2>2, <3>1
      <4>3. QED
        BY <2>2, <3>1, <4>1, <4>2, Zenon
    <3>2. CASE i # m
      <4>1. i \in 0 .. m - 1 /\ h[i] = g[i]
        BY <2>1, <3>2
      <4>2. g[i] = IF i = 0 THEN base ELSE More(g[i - 1], needed)
        BY <2>4, <4>1, Zenon
      <4>3. i # 0 => h[i - 1] = g[i - 1]
        BY <2>1, <4>1
      <4>4. QED
        BY <4>1, <4>2, <4>3, Zenon
    <3>3. QED
      BY <3>1, <3>2
  <2>6. Is(h, m)
    BY <2>5, Zenon
  <2>7. QED
    BY <2>1, <2>6
<1>2. PICK g : Is(g, n)
  BY <1>1
<1>3. DoubledTo(g, base, needed, n)
  BY <1>2, Zenon DEF DoubledTo, More
<1>4. QED
  BY <1>3

LEMMA DoubledIs ==
  ASSUME NEW base \in Nat, NEW needed \in Nat, NEW n \in Nat, NEW lim \in Nat,
         base < 2 * lim, needed <= lim, NEW g, DoubledTo(g, base, needed, n)
  PROVE  \A k \in 0 .. n : g[k] \in Nat /\ g[k] < 2 * lim
<1> DEFINE Good(k) == g[k] \in Nat /\ g[k] < 2 * lim
           Bad == {k \in 0 .. n : ~ Good(k)}
<1>a. Good(0)
  <2>1. 0 \in 0 .. n
    OBVIOUS
  <2>2. g[0] = base
    BY <2>1, Zenon DEF DoubledTo
  <2>3. QED
    BY <2>2
<1>b. ASSUME NEW k \in 1 .. n, Good(k - 1) PROVE Good(k)
  <2>1. k \in 0 .. n /\ k # 0
    OBVIOUS
  <2>2. g[k] = IF g[k - 1] < needed THEN 2 * g[k - 1] ELSE g[k - 1]
    BY <2>1, Zenon DEF DoubledTo
  <2>3. QED
    BY <1>b, <2>2
<1> HIDE DEF Good
<1>1. ASSUME Bad # {} PROVE FALSE
  <2>1. PICK m \in Bad : \A k \in Bad : m <= k
    <3>1. Bad \in SUBSET Nat
      OBVIOUS
    <3>2. QED
      BY <1>1, <3>1, LeastNat
  <2>2. m # 0 /\ m \in 0 .. n /\ ~ Good(m)
    BY <1>a, <2>1
  <2>3. m \in 1 .. n /\ m - 1 \in 0 .. n /\ ~ (m <= m - 1)
    BY <2>2
  <2>4. m - 1 \notin Bad
    BY <2>1, <2>3, Zenon
  <2>5. Good(m - 1)
    BY <2>3, <2>4
  <2>6. QED
    BY <1>b, <2>2, <2>3, <2>5
<1>2. \A k \in 0 .. n : Good(k)
  BY <1>1
<1>3. QED
  BY <1>2 DEF Good

\* The buffer's capacity stays below twice the largest payload.
LEMMA ReserveIs ==
  ASSUME NEW cap \in Nat, cap < 2 * MaxPayload, NEW needed \in Nat, needed <= MaxPayload
  PROVE  fr_buf_reserve(cap, needed) \in Nat /\ fr_buf_reserve(cap, needed) < 2 * MaxPayload
<1> DEFINE base == IF cap = 0 THEN MinCap ELSE cap
           n == needed \div base
           c == CHOOSE g : DoubledTo(g, base, needed, n)
<1>1. base \in Nat /\ base > 0 /\ base < 2 * MaxPayload
  BY WireAssumption
<1>4. fr_buf_reserve(cap, needed) = IF needed <= cap THEN cap ELSE c[n]
  BY Zenon DEF fr_buf_reserve, DoubledTo
<1> HIDE DEF base
<1>2. n \in Nat
  BY <1>1, DivMod
<1> HIDE DEF n
<1>3. DoubledTo(c, base, needed, n)
  BY <1>2, DoubledExists, Zenon
<1> HIDE DEF c
<1>5. \A k \in 0 .. n : c[k] \in Nat /\ c[k] < 2 * MaxPayload
  <2>1. MaxPayload \in Nat
    BY WireAssumption
  <2>2. QED
    BY <1>1, <1>2, <1>3, <2>1, DoubledIs
<1>6. c[n] \in Nat /\ c[n] < 2 * MaxPayload
  BY <1>2, <1>5
<1>7. QED
  BY <1>4, <1>6
-----------------------------------------------------------------------------

MemOf(mem, l, bytes) ==
  SubSeq(mem, 1, l) \o bytes \o SubSeq(mem, l + Len(bytes) + 1, Len(mem))

\* What the buffer holds once bytes were appended.
LEMMA MemIs ==
  ASSUME NEW mem \in Seq(Nat), NEW l \in 0 .. Len(mem), NEW bytes \in Seq(Nat),
         NEW L \in Nat, L = l + Len(bytes)
  PROVE  /\ MemOf(mem, l, bytes) \in Seq(Nat) /\ L <= Len(MemOf(mem, l, bytes))
         /\ Len(MemOf(mem, l, bytes)) = L \/ Len(MemOf(mem, l, bytes)) = Len(mem)
         /\ SubSeq(MemOf(mem, l, bytes), 1, L) = SubSeq(mem, 1, l) \o bytes
<1>1. PICK a \in Seq(Nat) : a = SubSeq(mem, 1, l) /\ Len(a) = l
  BY PrefixIs
<1>2. Len(bytes) \in Nat /\ Len(mem) \in Nat /\ l \in Nat
  BY LenProperties
<1>3. PICK x \in Seq(Nat) : x = a \o bytes /\ Len(x) = L
  <2>1. a \o bytes \in Seq(Nat) /\ Len(a \o bytes) = Len(a) + Len(bytes)
    BY ConcatProperties
  <2>2. Len(a) + Len(bytes) = L
    BY <1>1
  <2>3. QED
    BY <2>1, <2>2, Zenon
<1>4. PICK t \in Seq(Nat) : /\ t = SubSeq(mem, L + 1, Len(mem))
                            /\ (L >= Len(mem) => Len(t) = 0) /\ (L < Len(mem) => Len(t) = Len(mem) - L)
  <2>1. CASE L >= Len(mem)
    <3>1. L + 1 \in Int /\ Len(mem) \in Int /\ Len(mem) < L + 1
      BY <1>2, <2>1
    <3>2. SubSeq(mem, L + 1, Len(mem)) = <<>>
      BY <3>1, SubSeqEmpty
    <3>3. <<>> \in Seq(Nat) /\ Len(<<>>) = 0
      OBVIOUS
    <3>4. ~ (L < Len(mem))
      BY <1>2, <2>1
    <3>5. QED
      BY <3>2, <3>3, <3>4, Zenon
  <2>2. CASE L < Len(mem)
    <3>1. L \in 0 .. Len(mem) /\ ~ (L >= Len(mem))
      BY <1>2, <2>2
    <3>2. QED
      BY <3>1, SuffixIs, Zenon
  <2>3. QED
    BY <1>2, <2>1, <2>2
<1>5. MemOf(mem, l, bytes) = x \o t
  BY <1>1, <1>3, <1>4, Zenon DEF MemOf
<1>6. x \o t \in Seq(Nat) /\ Len(x \o t) = L + Len(t)
  <2>1. x \o t \in Seq(Nat) /\ Len(x \o t) = Len(x) + Len(t)
    BY ConcatProperties
  <2>2. QED
    BY <1>3, <2>1, Zenon
<1>7. SubSeq(x \o t, 1, L) = x
  <2>1. SubSeq(x \o t, 1, Len(x)) = x
    BY PartsAre
  <2>2. QED
    BY <1>3, <2>1, Zenon
<1>8. L <= Len(x \o t) /\ (Len(x \o t) = L \/ Len(x \o t) = Len(mem))
  <2>1. Len(t) \in Nat
    BY <1>4, LenProperties
  <2>2. (L >= Len(mem) => Len(t) = 0) /\ (L < Len(mem) => Len(t) = Len(mem) - L)
    BY <1>4, Zenon
  <2>3. Len(x \o t) = L + Len(t)
    BY <1>6
  <2>4. QED
    BY <1>2, <2>1, <2>2, <2>3
<1>9. QED
  BY <1>1, <1>3, <1>5, <1>6, <1>7, <1>8, Zenon

\* A parser by its fields.
Rec(h, d, t, r, n, m, l, c) ==
  [header |-> h, done |-> d, type |-> t, req |-> r, need |-> n, mem |-> m, len |-> l, cap |-> c]

LEMMA RecIs ==
  ASSUME NEW h, NEW d, NEW t, NEW r, NEW n, NEW m, NEW l, NEW c
  PROVE  /\ Rec(h, d, t, r, n, m, l, c).header = h /\ Rec(h, d, t, r, n, m, l, c).done = d
         /\ Rec(h, d, t, r, n, m, l, c).type = t /\ Rec(h, d, t, r, n, m, l, c).req = r
         /\ Rec(h, d, t, r, n, m, l, c).need = n /\ Rec(h, d, t, r, n, m, l, c).mem = m
         /\ Rec(h, d, t, r, n, m, l, c).len = l /\ Rec(h, d, t, r, n, m, l, c).cap = c
BY DEF Rec

\* One field of it is set.
SetHeader(p, x) == [p EXCEPT !.header = x]
SetDone(p, x) == [p EXCEPT !.done = x]
SetType(p, x) == [p EXCEPT !.type = x]
SetReq(p, x) == [p EXCEPT !.req = x]
SetNeed(p, x) == [p EXCEPT !.need = x]
SetMem(p, x) == [p EXCEPT !.mem = x]
SetLen(p, x) == [p EXCEPT !.len = x]
SetCap(p, x) == [p EXCEPT !.cap = x]
FiveSet(p, x, e, y, z, k) ==
  [p EXCEPT !.header = x, !.done = e, !.type = y, !.req = z, !.need = k]

LEMMA RecHeader ==
  ASSUME NEW h, NEW d, NEW t, NEW r, NEW n, NEW m, NEW l, NEW c, NEW x
  PROVE  SetHeader(Rec(h, d, t, r, n, m, l, c), x) = Rec(x, d, t, r, n, m, l, c)
BY DEF Rec, SetHeader
LEMMA RecDone ==
  ASSUME NEW h, NEW d, NEW t, NEW r, NEW n, NEW m, NEW l, NEW c, NEW x
  PROVE  SetDone(Rec(h, d, t, r, n, m, l, c), x) = Rec(h, x, t, r, n, m, l, c)
BY DEF Rec, SetDone
LEMMA RecType ==
  ASSUME NEW h, NEW d, NEW t, NEW r, NEW n, NEW m, NEW l, NEW c, NEW x
  PROVE  SetType(Rec(h, d, t, r, n, m, l, c), x) = Rec(h, d, x, r, n, m, l, c)
BY DEF Rec, SetType
LEMMA RecReq ==
  ASSUME NEW h, NEW d, NEW t, NEW r, NEW n, NEW m, NEW l, NEW c, NEW x
  PROVE  SetReq(Rec(h, d, t, r, n, m, l, c), x) = Rec(h, d, t, x, n, m, l, c)
BY DEF Rec, SetReq
LEMMA RecNeed ==
  ASSUME NEW h, NEW d, NEW t, NEW r, NEW n, NEW m, NEW l, NEW c, NEW x
  PROVE  SetNeed(Rec(h, d, t, r, n, m, l, c), x) = Rec(h, d, t, r, x, m, l, c)
BY DEF Rec, SetNeed
LEMMA RecMem ==
  ASSUME NEW h, NEW d, NEW t, NEW r, NEW n, NEW m, NEW l, NEW c, NEW x
  PROVE  SetMem(Rec(h, d, t, r, n, m, l, c), x) = Rec(h, d, t, r, n, x, l, c)
BY DEF Rec, SetMem
LEMMA RecLen ==
  ASSUME NEW h, NEW d, NEW t, NEW r, NEW n, NEW m, NEW l, NEW c, NEW x
  PROVE  SetLen(Rec(h, d, t, r, n, m, l, c), x) = Rec(h, d, t, r, n, m, x, c)
BY DEF Rec, SetLen
LEMMA RecCap ==
  ASSUME NEW h, NEW d, NEW t, NEW r, NEW n, NEW m, NEW l, NEW c, NEW x
  PROVE  SetCap(Rec(h, d, t, r, n, m, l, c), x) = Rec(h, d, t, r, n, m, l, x)
BY DEF Rec, SetCap
LEMMA RecAppend ==
  ASSUME NEW h, NEW d, NEW t, NEW r, NEW n, NEW m, NEW l, NEW c, NEW bytes
  PROVE  fr_buf_append(Rec(h, d, t, r, n, m, l, c), bytes)
         = Rec(h, d, t, r, n, MemOf(m, l, bytes), l + Len(bytes), fr_buf_reserve(c, l + Len(bytes)))
<1>1. PICK p : p = Rec(h, d, t, r, n, m, l, c)
  OBVIOUS
<1>2. p.mem = m /\ p.len = l /\ p.cap = c
  BY <1>1, RecIs
<1>3. fr_buf_append(p, bytes)
        = [p EXCEPT !.mem = MemOf(p.mem, p.len, bytes), !.len = p.len + Len(bytes),
                    !.cap = fr_buf_reserve(p.cap, p.len + Len(bytes))]
  BY Zenon DEF fr_buf_append, MemOf
<1>4. fr_buf_append(p, bytes)
        = SetCap(SetLen(SetMem(p, MemOf(m, l, bytes)), l + Len(bytes)), fr_buf_reserve(c, l + Len(bytes)))
  <2>1. PICK x, y, z : x = MemOf(m, l, bytes) /\ y = l + Len(bytes) /\ z = fr_buf_reserve(c, l + Len(bytes))
    OBVIOUS
  <2>2. [p EXCEPT !.mem = x, !.len = y, !.cap = z] = SetCap(SetLen(SetMem(p, x), y), z)
    BY DEF SetCap, SetLen, SetMem
  <2>3. QED
    BY <1>2, <1>3, <2>1, <2>2, Zenon
<1>5. QED
  BY <1>1, <1>4, RecMem, RecLen, RecCap
LEMMA RecFive ==
  ASSUME NEW h, NEW d, NEW t, NEW r, NEW n, NEW m, NEW l, NEW c, NEW x, NEW y, NEW z, NEW k, NEW e
  PROVE  FiveSet(Rec(h, d, t, r, n, m, l, c), x, e, y, z, k) = Rec(x, e, y, z, k, m, l, c)
<1>1. PICK p : p = Rec(h, d, t, r, n, m, l, c)
  OBVIOUS
<1>2. FiveSet(p, x, e, y, z, k) = SetNeed(SetReq(SetType(SetDone(SetHeader(p, x), e), y), z), k)
  BY DEF FiveSet, SetHeader, SetDone, SetType, SetReq, SetNeed
<1>3. QED
  BY <1>1, <1>2, RecHeader, RecDone, RecType, RecReq, RecNeed
LEMMA RecNew ==
  ASSUME NEW m, NEW c
  PROVE  [NewParser EXCEPT !.mem = m, !.cap = c] = Rec(<<>>, FALSE, 0, 0, 0, m, 0, c)
<1>1. NewParser = Rec(<<>>, FALSE, 0, 0, 0, <<>>, 0, 0)
  BY Zenon DEF NewParser, Rec
<1>2. PICK p : p = NewParser
  OBVIOUS
<1>3. [p EXCEPT !.mem = m, !.cap = c] = SetCap(SetMem(p, m), c)
  BY DEF SetMem, SetCap
<1>4. SetCap(SetMem(p, m), c) = Rec(<<>>, FALSE, 0, 0, 0, m, 0, c)
  <2>1. \A d : SetCap(SetMem(Rec(<<>>, d, 0, 0, 0, <<>>, 0, 0), m), c) = Rec(<<>>, d, 0, 0, 0, m, 0, c)
    BY RecMem, RecCap
  <2>2. QED
    BY <1>1, <1>2, <2>1, Zenon
<1>5. QED
  BY <1>2, <1>3, <1>4, Zenon
-----------------------------------------------------------------------------
(* The two phases of a feed.                                               *)

Accepted(h, m, l, c) ==
  Rec(h, TRUE, h[6], LoadBE(SubSeq(h, 9, 12)), LoadBE(SubSeq(h, 13, 16)), m, l, c)
HeaderTaken(p, U, t, h, R) ==
  /\ h \in Seq(Nat) /\ R \in Seq(Nat) /\ t.n \in 0 .. Len(U) /\ R = SubSeq(U, t.n + 1, Len(U)) /\ t.n > 0
  /\ h \o R = p.header \o U /\ Len(h) <= 20 /\ (Len(h) < 20 => R = <<>>)
  /\ Len(h) = 20 /\ HeaderOK(h) => t.p = Accepted(h, p.mem, p.len, p.cap)
  /\ ~ (Len(h) = 20 /\ HeaderOK(h)) => t.p = Rec(h, FALSE, p.type, p.req, p.need, p.mem, p.len, p.cap)

LEMMA ParserRec ==
  ASSUME NEW p, ParserOK(p)
  PROVE  /\ p = Rec(p.header, p.done, p.type, p.req, p.need, p.mem, p.len, p.cap)
         /\ p.header \in Seq(Nat) /\ p.mem \in Seq(Nat) /\ p.len \in 0 .. Len(p.mem)
         /\ Len(p.mem) <= MaxPayload /\ p.cap \in Nat /\ p.cap < 2 * MaxPayload /\ p.done \in BOOLEAN
         /\ ~ p.done => p.len = 0 /\ Len(p.header) <= 20 /\ p.done = FALSE
<1>1. p = Rec(p.header, p.done, p.type, p.req, p.need, p.mem, p.len, p.cap)
  BY Zenon DEF ParserOK, Rec
<1>2. /\ p.header \in Seq(Nat) /\ p.mem \in Seq(Nat) /\ p.len \in 0 .. Len(p.mem)
      /\ Len(p.mem) <= MaxPayload /\ p.cap \in Nat /\ p.cap < 2 * MaxPayload /\ p.done \in BOOLEAN
      /\ ~ p.done => p.len = 0 /\ Len(p.header) <= 20
  BY Zenon DEF ParserOK, HeaderSize
<1>3. ~ p.done => p.done = FALSE
  BY <1>2, Zenon
<1>4. QED
  BY <1>1, <1>2, <1>3, Zenon

LEMMA NatAssociate ==
  \A x, y, z \in Seq(Nat) : (x \o y) \o z = x \o (y \o z)
BY Associative, SMTT(60)

LEMMA HeaderStage ==
  ASSUME NEW p, ParserOK(p), ~ p.done, Len(p.header) < 20, NEW U \in Seq(Nat), U # <<>>,
         NEW t, t = TakeHeader(p, U)
  PROVE  \E h, R : HeaderTaken(p, U, t, h, R)
<1> DEFINE k == Len(p.header)
           n == Min({HeaderSize - k, Len(U)})
           a == SubSeq(U, 1, n)
           R == SubSeq(U, n + 1, Len(U))
           h == p.header \o a
<1>1. p.header \in Seq(Nat) /\ k \in Nat /\ k < 20 /\ Len(U) \in Nat /\ Len(U) > 0
  <2>1. p.header \in Seq(Nat)
    BY ParserRec
  <2>2. QED
    BY <2>1, LenProperties, EmptySeq
<1>2. n \in 0 .. Len(U) /\ n > 0 /\ k + n <= 20 /\ (k + n < 20 => n = Len(U))
  <2>1. HeaderSize - k \in Int /\ HeaderSize = 20 /\ Len(U) \in Int
    BY <1>1 DEF HeaderSize
  <2>2. (HeaderSize - k <= Len(U) => n = HeaderSize - k) /\ (Len(U) <= HeaderSize - k => n = Len(U))
    BY <2>1, MinOfTwo
  <2> HIDE DEF n
  <2>3. QED
    BY <1>1, <2>1, <2>2
<1>3. /\ t = [p |-> IF Len(h) = HeaderSize /\ HeaderOK(h)
                    THEN [p EXCEPT !.header = h, !.done = TRUE, !.type = h[6],
                                   !.req = LoadBE(SubSeq(h, 9, 12)), !.need = LoadBE(SubSeq(h, 13, 16))]
                    ELSE [p EXCEPT !.header = h],
              n |-> n]
  BY Zenon DEF TakeHeader
<1> HIDE DEF n
<1>4. a \in Seq(Nat) /\ Len(a) = n /\ R \in Seq(Nat) /\ Len(R) = Len(U) - n /\ a \o R = U
  BY <1>2, Halves, ZenonT(60)
<1> HIDE DEF a, R
<1>5. h \in Seq(Nat) /\ Len(h) = k + n
  BY <1>1, <1>4, ConcatProperties
<1>6. h \o R = p.header \o U
  <2>1. PICK q \in Seq(Nat) : q = p.header
    BY <1>1, Zenon
  <2>2. (q \o a) \o R = q \o (a \o R)
    <3>1. a \in Seq(Nat) /\ R \in Seq(Nat)
      BY <1>4
    <3>2. QED
      BY <3>1, NatAssociate, Zenon
  <2>3. QED
    BY <1>4, <2>1, <2>2, Zenon
<1> HIDE DEF h
<1>7. Len(h) < 20 => R = <<>>
  <2>1. ASSUME Len(h) < 20 PROVE R = <<>>
    <3>1. Len(R) = 0
      BY <1>1, <1>2, <1>4, <1>5, <2>1
    <3>2. QED
      BY <1>4, <3>1, EmptySeq
  <2>2. QED
    BY <2>1
<1>8. p = Rec(p.header, p.done, p.type, p.req, p.need, p.mem, p.len, p.cap) /\ p.done = FALSE
  BY ParserRec, Zenon
<1>9. [p EXCEPT !.header = h] = Rec(h, FALSE, p.type, p.req, p.need, p.mem, p.len, p.cap)
  <2>1. [p EXCEPT !.header = h] = SetHeader(p, h)
    BY Zenon DEF SetHeader
  <2>2. SetHeader(p, h) = Rec(h, p.done, p.type, p.req, p.need, p.mem, p.len, p.cap)
    BY <1>8, RecHeader
  <2>3. QED
    BY <1>8, <2>1, <2>2, Zenon
<1>10. [p EXCEPT !.header = h, !.done = TRUE, !.type = h[6],
                 !.req = LoadBE(SubSeq(h, 9, 12)), !.need = LoadBE(SubSeq(h, 13, 16))]
       = Accepted(h, p.mem, p.len, p.cap)
  <2>1. \A e, y, z, x : FiveSet(p, h, e, y, z, x) = Rec(h, e, y, z, x, p.mem, p.len, p.cap)
    BY <1>8, RecFive
  <2>2. FiveSet(p, h, TRUE, h[6], LoadBE(SubSeq(h, 9, 12)), LoadBE(SubSeq(h, 13, 16)))
        = Accepted(h, p.mem, p.len, p.cap)
    BY <2>1, Zenon DEF Accepted
  <2>3. QED
    BY <2>2, Zenon DEF FiveSet
<1>11. PICK x : x = IF Len(h) = HeaderSize /\ HeaderOK(h)
                    THEN Accepted(h, p.mem, p.len, p.cap)
                    ELSE Rec(h, FALSE, p.type, p.req, p.need, p.mem, p.len, p.cap)
  OBVIOUS
<1>a. t = [p |-> x, n |-> n]
  BY <1>3, <1>9, <1>10, <1>11, Zenon
<1>b. t.n = n /\ t.p = x
  BY <1>a
<1>12. Len(h) = 20 /\ HeaderOK(h) => t.p = Accepted(h, p.mem, p.len, p.cap)
  BY <1>11, <1>b, Zenon DEF HeaderSize
<1>13. ~ (Len(h) = 20 /\ HeaderOK(h)) => t.p = Rec(h, FALSE, p.type, p.req, p.need, p.mem, p.len, p.cap)
  BY <1>11, <1>b, Zenon DEF HeaderSize
<1>14. Len(h) <= 20
  BY <1>2, <1>5
<1>15. R = SubSeq(U, n + 1, Len(U))
  BY DEF R
<1>16. HeaderTaken(p, U, t, h, R)
  BY <1>2, <1>4, <1>5, <1>6, <1>7, <1>b, <1>12, <1>13, <1>14, <1>15, Zenon DEF HeaderTaken
<1>17. QED
  BY <1>16, Zenon
-----------------------------------------------------------------------------

\* What the second phase takes of the bytes R, and what it leaves.
PayloadTaken(mem, l, need, R, b, n, m2, l2, c2, Q) ==
  /\ n = b.n /\ n \in 0 .. Len(R) /\ Q = SubSeq(R, n + 1, Len(R)) /\ Q \in Seq(Nat)
  /\ m2 \in Seq(Nat) /\ l2 \in 0 .. Len(m2) /\ Len(m2) <= MaxPayload
  /\ c2 \in Nat /\ c2 < 2 * MaxPayload
  /\ l2 <= need /\ (l2 < need => Q = <<>>)
  /\ SubSeq(m2, 1, l2) \o Q = SubSeq(mem, 1, l) \o R

LEMMA PayloadStage ==
  ASSUME NEW h, NEW d, NEW t, NEW r, NEW need \in Nat, need <= MaxPayload,
         NEW mem \in Seq(Nat), Len(mem) <= MaxPayload, NEW l \in 0 .. Len(mem), l <= need,
         NEW cap \in Nat, cap < 2 * MaxPayload, NEW R \in Seq(Nat),
         NEW p, p = Rec(h, d, t, r, need, mem, l, cap), NEW b, b = TakePayload(p, R)
  PROVE  \E n, m2, l2, c2, Q : /\ PayloadTaken(mem, l, need, R, b, n, m2, l2, c2, Q)
                               /\ b.p = Rec(h, d, t, r, need, m2, l2, c2)
<1>1. Len(R) \in Nat /\ Len(mem) \in Nat /\ l \in Nat /\ MaxPayload \in Nat /\ need - l \in Nat
  BY LenProperties, WireAssumption
<1>2. p.need = need /\ p.len = l
  BY RecIs
<1>3. PICK n : n = Min({need - l, Len(R)})
  OBVIOUS
<1>4. n \in 0 .. Len(R) /\ l + n <= need /\ (l + n < need => n = Len(R))
  <2>1. (need - l <= Len(R) => n = need - l) /\ (Len(R) <= need - l => n = Len(R))
    <3>1. need - l \in Int /\ Len(R) \in Int
      BY <1>1
    <3>2. QED
      BY <1>3, <3>1, MinOfTwo
  <2>2. QED
    BY <1>1, <2>1
<1>5. PICK a, Q : /\ a = SubSeq(R, 1, n) /\ a \in Seq(Nat) /\ Len(a) = n
                  /\ Q = SubSeq(R, n + 1, Len(R)) /\ Q \in Seq(Nat) /\ Len(Q) = Len(R) - n /\ a \o Q = R
  <2>1. n \in 0 .. Len(R)
    BY <1>4
  <2>2. /\ SubSeq(R, 1, n) \in Seq(Nat) /\ Len(SubSeq(R, 1, n)) = n
        /\ SubSeq(R, n + 1, Len(R)) \in Seq(Nat) /\ Len(SubSeq(R, n + 1, Len(R))) = Len(R) - n
        /\ SubSeq(R, 1, n) \o SubSeq(R, n + 1, Len(R)) = R
    BY <2>1, Halves
  <2>3. QED
    BY <2>2, Zenon
<1>6. l + n < need => Q = <<>>
  <2>1. ASSUME l + n < need PROVE Q = <<>>
    <3>1. Len(Q) = 0
      BY <1>1, <1>4, <1>5, <2>1
    <3>2. QED
      BY <1>5, <3>1, EmptySeq
  <2>2. QED
    BY <2>1
<1>7. PICK x : x = IF n = 0 THEN p ELSE fr_buf_append(p, a)
  OBVIOUS
<1>8. b = [p |-> x, n |-> n]
  BY <1>2, <1>3, <1>5, <1>7, Zenon DEF TakePayload
<1>9. b.p = x /\ b.n = n
  BY <1>8
<1>10. PICK z \in Seq(Nat) : z = SubSeq(mem, 1, l)
  BY PrefixIs, Zenon
<1>11. CASE n = 0
  <2>1. Q = R
    <3>1. a = <<>>
      BY <1>5, <1>11, EmptySeq
    <3>2. <<>> \o Q = Q
      BY <1>5, ConcatEmptySeq
    <3>3. QED
      BY <1>5, <3>1, <3>2, Zenon
  <2>2. l + n = l
    BY <1>1, <1>11
  <2>3. l <= need /\ (l < need => Q = <<>>)
    BY <1>6, <2>2, Zenon
  <2>4. SubSeq(mem, 1, l) \o Q = SubSeq(mem, 1, l) \o R
    BY <2>1, Zenon
  <2>5. PayloadTaken(mem, l, need, R, b, n, mem, l, cap, Q)
    BY <1>4, <1>5, <1>9, <2>3, <2>4, Zenon DEF PayloadTaken
  <2>6. b.p = Rec(h, d, t, r, need, mem, l, cap)
    BY <1>7, <1>9, <1>11, Zenon
  <2>7. QED
    BY <2>5, <2>6, Zenon
<1>12. CASE n # 0
  <2>1. PICK L \in Nat : L = l + n /\ L = l + Len(a)
    BY <1>1, <1>4, <1>5
  <2>2. PICK m2 : m2 = MemOf(mem, l, a)
    OBVIOUS
  <2>3. /\ m2 \in Seq(Nat) /\ L <= Len(m2) /\ (Len(m2) = L \/ Len(m2) = Len(mem))
        /\ SubSeq(m2, 1, L) = SubSeq(mem, 1, l) \o a
    <3>1. a \in Seq(Nat) /\ L = l + Len(a)
      BY <1>5, <2>1
    <3>2. /\ MemOf(mem, l, a) \in Seq(Nat) /\ L <= Len(MemOf(mem, l, a))
          /\ Len(MemOf(mem, l, a)) = L \/ Len(MemOf(mem, l, a)) = Len(mem)
          /\ SubSeq(MemOf(mem, l, a), 1, L) = SubSeq(mem, 1, l) \o a
      <4>1. \A bs \in Seq(Nat), k \in Nat : k = l + Len(bs) =>
              /\ MemOf(mem, l, bs) \in Seq(Nat) /\ k <= Len(MemOf(mem, l, bs))
              /\ Len(MemOf(mem, l, bs)) = k \/ Len(MemOf(mem, l, bs)) = Len(mem)
              /\ SubSeq(MemOf(mem, l, bs), 1, k) = SubSeq(mem, 1, l) \o bs
        BY MemIs
      <4>2. QED
        BY <3>1, <4>1, Zenon
    <3>3. QED
      BY <2>2, <3>2, Zenon
  <2>4. L <= need /\ L <= MaxPayload
    BY <1>1, <1>4, <2>1
  <2>5. PICK c2 : c2 = fr_buf_reserve(cap, L)
    OBVIOUS
  <2>6. c2 \in Nat /\ c2 < 2 * MaxPayload
    BY <2>4, <2>5, ReserveIs
  <2>7. b.p = Rec(h, d, t, r, need, m2, L, c2)
    <3>1. fr_buf_append(Rec(h, d, t, r, need, mem, l, cap), a)
            = Rec(h, d, t, r, need, MemOf(mem, l, a), l + Len(a), fr_buf_reserve(cap, l + Len(a)))
      BY RecAppend
    <3>2. QED
      BY <1>7, <1>9, <1>12, <2>1, <2>2, <2>5, <3>1, Zenon
  <2>8. L \in 0 .. Len(m2) /\ Len(m2) <= MaxPayload
    <3>1. Len(m2) \in Nat
      BY <2>3, LenProperties
    <3>2. QED
      BY <1>1, <2>3, <2>4, <3>1
  <2>9. L < need => Q = <<>>
    BY <1>6, <2>1, Zenon
  <2>10. SubSeq(m2, 1, L) \o Q = SubSeq(mem, 1, l) \o R
    <3>1. (z \o a) \o Q = z \o (a \o Q)
      BY <1>5, <1>10, NatAssociate, ZenonT(60)
    <3>2. QED
      BY <1>5, <1>10, <2>3, <3>1, Zenon
  <2>11. PayloadTaken(mem, l, need, R, b, n, m2, L, c2, Q)
    BY <1>4, <1>5, <1>9, <2>3, <2>4, <2>6, <2>8, <2>9, <2>10, Zenon DEF PayloadTaken
  <2>12. QED
    BY <2>7, <2>11, Zenon
<1>13. QED
  BY <1>11, <1>12
-----------------------------------------------------------------------------

\* The lengths that a header can announce.
LEMMA NatPiece ==
  ASSUME NEW h \in Seq(Nat), NEW a \in Nat, NEW b \in Nat, 1 <= a, a <= b, b <= Len(h)
  PROVE  SubSeq(h, a, b) \in Seq(Nat) /\ Len(SubSeq(h, a, b)) = b - a + 1
<1>1. a <= b + 1
  OBVIOUS
<1>2. QED
  BY <1>1, SubSeqIs

LEMMA HeaderNumbers ==
  ASSUME NEW h \in Seq(Nat), Len(h) = 20, HeaderOK(h)
  PROVE  LoadBE(SubSeq(h, 13, 16)) \in Nat /\ LoadBE(SubSeq(h, 13, 16)) <= MaxPayload
<1>1. PICK s : s = SubSeq(h, 13, 16)
  OBVIOUS
<1>2. s \in Seq(Nat) /\ Len(s) = 4
  <2>1. PICK a \in Nat, b \in Nat : a = 13 /\ b = 16
    OBVIOUS
  <2>2. 1 <= a /\ a <= b /\ b <= Len(h) /\ b - a + 1 = 4
    BY <2>1
  <2>3. SubSeq(h, a, b) \in Seq(Nat) /\ Len(SubSeq(h, a, b)) = b - a + 1
    BY <2>2, NatPiece
  <2>4. QED
    BY <1>1, <2>1, <2>2, <2>3, Zenon
<1>3. s[1] \in Nat /\ s[2] \in Nat /\ s[3] \in Nat /\ s[4] \in Nat
  <2>1. \A i \in 1 .. Len(s) : s[i] \in Nat
    BY <1>2, ElementOfSeq
  <2>2. QED
    BY <1>2, <2>1
<1>4. LoadBE(s) = Load4(s, 1)
  BY <1>2, LoadIs
<1>5. Load4(s, 1) \in Nat
  <2>1. Load4(s, 1) = (s[1] * Radix + s[2]) * Radix2 + (s[3] * Radix + s[4])
    <3>1. 1 + 1 = 2 /\ 1 + 2 = 3 /\ 3 + 1 = 4
      OBVIOUS
    <3>2. QED
      BY <3>1, Zenon DEF Load4, Load2
  <2>2. PICK a \in Nat, b \in Nat : a = s[1] * Radix /\ b = s[3] * Radix
    BY <1>3, RadixType, Products
  <2>3. PICK c \in Nat : c = a + s[2]
    BY <1>3
  <2>4. PICK e \in Nat : e = c * Radix2
    BY <2>3, RadixType, Products
  <2>5. Load4(s, 1) = e + (b + s[4])
    BY <2>1, <2>2, <2>3, <2>4, Zenon
  <2>6. QED
    BY <1>3, <2>5
<1>6. LoadBE(s) <= MaxPayload
  BY <1>1, Zenon DEF HeaderOK
<1>7. QED
  BY <1>1, <1>4, <1>5, <1>6

LEMMA SuffixTwice ==
  ASSUME NEW s \in Seq(Nat), NEW k \in 0 .. Len(s), NEW t, t = SubSeq(s, k + 1, Len(s)),
         NEW j \in 0 .. Len(t)
  PROVE  k + j \in 0 .. Len(s) /\ SubSeq(t, j + 1, Len(t)) = SubSeq(s, k + j + 1, Len(s))
<1>1. Len(s) \in Nat
  BY LenProperties
<1>2. t \in Seq(Nat) /\ Len(t) = Len(s) - k /\ \A i \in 1 .. Len(s) - k : t[i] = s[k + i]
  BY SuffixIs
<1>3. PICK m \in 0 .. Len(s) : m = k + j
  <2>1. Len(t) = Len(s) - k
    BY <1>2
  <2>2. k + j \in 0 .. Len(s)
    BY <1>1, <2>1
  <2>3. QED
    BY <2>2, Zenon
<1>4. PICK u \in Seq(Nat) : u = SubSeq(s, m + 1, Len(s)) /\ Len(u) = Len(s) - m /\ \A i \in 1 .. Len(s) - m : u[i] = s[m + i]
  <2>1. /\ SubSeq(s, m + 1, Len(s)) \in Seq(Nat) /\ Len(SubSeq(s, m + 1, Len(s))) = Len(s) - m
        /\ \A i \in 1 .. Len(s) - m : SubSeq(s, m + 1, Len(s))[i] = s[m + i]
    BY SuffixIs
  <2>2. QED
    BY <2>1, Zenon
<1>5. PICK v \in Seq(Nat) : v = SubSeq(t, j + 1, Len(t)) /\ Len(v) = Len(t) - j /\ \A i \in 1 .. Len(t) - j : v[i] = t[j + i]
  <2>1. t \in Seq(Nat)
    BY <1>2
  <2>2. /\ SubSeq(t, j + 1, Len(t)) \in Seq(Nat) /\ Len(SubSeq(t, j + 1, Len(t))) = Len(t) - j
        /\ \A i \in 1 .. Len(t) - j : SubSeq(t, j + 1, Len(t))[i] = t[j + i]
    BY <2>1, SuffixIs
  <2>3. QED
    BY <2>2, Zenon
<1>6. Len(u) = Len(v)
  BY <1>1, <1>2, <1>3, <1>4, <1>5
<1>7. ASSUME NEW i \in 1 .. Len(u) PROVE u[i] = v[i]
  <2>1. i \in 1 .. Len(s) - m /\ i \in 1 .. Len(t) - j /\ j + i \in 1 .. Len(s) - k /\ k + (j + i) = m + i
    BY <1>1, <1>2, <1>3, <1>4
  <2>2. QED
    BY <1>2, <1>4, <1>5, <2>1, Zenon
<1>8. u = v
  BY <1>6, <1>7, SeqEqual
<1>9. QED
  BY <1>3, <1>4, <1>5, <1>8, Zenon

LEMMA IdleOK ==
  ASSUME NEW h \in Seq(Nat), Len(h) <= 20, NEW t, NEW r, NEW n, NEW m \in Seq(Nat), Len(m) <= MaxPayload,
         NEW c \in Nat, c < 2 * MaxPayload
  PROVE  ParserOK(Rec(h, FALSE, t, r, n, m, 0, c))
<1>1. PICK p : p = Rec(h, FALSE, t, r, n, m, 0, c)
  OBVIOUS
<1>2. /\ p.header = h /\ p.done = FALSE /\ p.type = t /\ p.req = r /\ p.need = n
      /\ p.mem = m /\ p.len = 0 /\ p.cap = c
  <2>1. \A d, l : LET q == Rec(h, d, t, r, n, m, l, c) IN
          /\ q.header = h /\ q.done = d /\ q.type = t /\ q.req = r /\ q.need = n
          /\ q.mem = m /\ q.len = l /\ q.cap = c
    BY RecIs
  <2>2. QED
    BY <1>1, <2>1, Zenon
<1>3. 0 \in 0 .. Len(m)
  BY LenProperties
<1>4. p = [header |-> p.header, done |-> p.done, type |-> p.type, req |-> p.req, need |-> p.need,
           mem |-> p.mem, len |-> p.len, cap |-> p.cap]
  BY <1>1, <1>2, Zenon DEF Rec
<1>5. ParserOK(p)
  BY <1>2, <1>3, <1>4, Zenon DEF ParserOK, HeaderSize
<1>6. QED
  BY <1>1, <1>5, Zenon

LEMMA AcceptedOK ==
  ASSUME NEW h \in Seq(Nat), Len(h) = 20, HeaderOK(h), NEW m \in Seq(Nat), Len(m) <= MaxPayload,
         NEW l \in 0 .. Len(m), l < LoadBE(SubSeq(h, 13, 16)), NEW c \in Nat, c < 2 * MaxPayload
  PROVE  ParserOK(Accepted(h, m, l, c))
<1>1. PICK p : p = Accepted(h, m, l, c)
  OBVIOUS
<1>2. PICK t, r, n : /\ p = Rec(h, TRUE, t, r, n, m, l, c) /\ t = h[6] /\ r = LoadBE(SubSeq(h, 9, 12))
                     /\ n = LoadBE(SubSeq(h, 13, 16))
  BY <1>1, Zenon DEF Accepted
<1>3. /\ p.header = h /\ p.done = TRUE /\ p.type = t /\ p.req = r /\ p.need = n
      /\ p.mem = m /\ p.len = l /\ p.cap = c
  <2>1. \A d : LET q == Rec(h, d, t, r, n, m, l, c) IN
          /\ q.header = h /\ q.done = d /\ q.type = t /\ q.req = r /\ q.need = n
          /\ q.mem = m /\ q.len = l /\ q.cap = c
    BY RecIs
  <2>2. QED
    BY <1>2, <2>1, Zenon
<1>4. p = [header |-> p.header, done |-> p.done, type |-> p.type, req |-> p.req, need |-> p.need,
           mem |-> p.mem, len |-> p.len, cap |-> p.cap]
  BY <1>2, <1>3, Zenon DEF Rec
<1>5. ParserOK(p)
  <2>1. /\ Len(p.header) = 20 /\ HeaderOK(p.header) /\ p.type = p.header[6]
        /\ p.req = LoadBE(SubSeq(p.header, 9, 12)) /\ p.need = LoadBE(SubSeq(p.header, 13, 16))
    BY <1>2, <1>3, Zenon
  <2>2. p.header \in Seq(Nat) /\ p.mem \in Seq(Nat) /\ Len(p.mem) <= MaxPayload
    BY <1>3, Zenon
  <2>3. p.len \in 0 .. Len(p.mem) /\ p.len < p.need /\ p.cap \in Nat /\ p.cap < 2 * MaxPayload
    BY <1>2, <1>3, Zenon
  <2>4. QED
    BY <1>3, <1>4, <2>1, <2>2, <2>3, Zenon DEF ParserOK, HeaderSize
<1>6. QED
  BY <1>1, <1>5, Zenon
-----------------------------------------------------------------------------

(* What one call of fr_frame_parser_feed does.                             *)

Kept(p) == p.header \o SubSeq(p.mem, 1, p.len)
\* A frame of header H and payload P that is handed out.
FrameOf(H, P) ==
  [ready |-> TRUE, type |-> H[6], req |-> LoadBE(SubSeq(H, 9, 12)), len |-> Len(P)]
\* The call ends in one of three ways, with the bytes R left and the bytes Y ahead.
Waits(Y, f, R) ==
  /\ f.error = FALSE /\ f.out = NoFrame
  /\ ParserOK(f.p) /\ (~ f.p.done => Len(f.p.header) < 20)
  /\ Kept(f.p) \o R = Y
Rejects(Y, f, R) ==
  /\ f.error = TRUE /\ f.out = NoFrame
  /\ ParserOK(f.p) /\ f.p.done = FALSE /\ Len(f.p.header) = 20 /\ ~ HeaderOK(f.p.header)
  /\ f.p.header \o R = Y
Frames(Y, f, R, H, P) ==
  /\ f.error = FALSE /\ f.out = FrameOf(H, P)
  /\ H \in Seq(Nat) /\ Len(H) = 20 /\ HeaderOK(H)
  /\ P \in Seq(Nat) /\ Len(P) = LoadBE(SubSeq(H, 13, 16)) /\ H \o (P \o R) = Y
  /\ ParserOK(f.p) /\ f.p.done = FALSE /\ f.p.header = <<>> /\ f.p.len = 0
  /\ Len(P) <= Len(f.p.mem) /\ SubSeq(f.p.mem, 1, Len(P)) = P
Fed(Y, U, f, R) ==
  /\ f.consumed \in 0 .. Len(U) /\ R = SubSeq(U, f.consumed + 1, Len(U)) /\ R \in Seq(Nat)
  /\ Waits(Y, f, R) \/ Rejects(Y, f, R) \/ \E H, P : Frames(Y, f, R, H, P)

\* The second phase and what follows, behind n bytes of the header.
Second(q, n, W) ==
  LET b == TakePayload(q, W) IN
  IF b.p.len # b.p.need
  THEN [p |-> b.p, consumed |-> n + b.n, out |-> NoFrame, error |-> FALSE]
  ELSE [p |-> Restarted(b.p), consumed |-> n + b.n, error |-> FALSE,
        out |-> [ready |-> TRUE, type |-> b.p.type, req |-> b.p.req, len |-> b.p.len]]

SecondFrom(h, mem, l, cap, U, k, W, q, f) ==
  /\ h \in Seq(Nat) /\ Len(h) = 20 /\ HeaderOK(h)
  /\ mem \in Seq(Nat) /\ Len(mem) <= MaxPayload /\ l \in 0 .. Len(mem)
  /\ l <= LoadBE(SubSeq(h, 13, 16)) /\ cap \in Nat /\ cap < 2 * MaxPayload
  /\ U \in Seq(Nat) /\ k \in 0 .. Len(U) /\ W = SubSeq(U, k + 1, Len(U))
  /\ q = Accepted(h, mem, l, cap) /\ f = Second(q, k, W)

LEMMA SecondIs ==
  ASSUME NEW h, NEW mem, NEW l, NEW cap, NEW U, NEW k, NEW W, NEW q, NEW f,
         SecondFrom(h, mem, l, cap, U, k, W, q, f)
  PROVE  \E R : Fed((h \o SubSeq(mem, 1, l)) \o W, U, f, R)
<1>a. h \in Seq(Nat) /\ Len(h) = 20 /\ HeaderOK(h)
  BY Zenon DEF SecondFrom
<1>b. mem \in Seq(Nat) /\ Len(mem) <= MaxPayload /\ l \in 0 .. Len(mem)
  BY Zenon DEF SecondFrom
<1>c. cap \in Nat /\ cap < 2 * MaxPayload
  BY Zenon DEF SecondFrom
<1>d. U \in Seq(Nat) /\ k \in 0 .. Len(U) /\ W = SubSeq(U, k + 1, Len(U))
  BY Zenon DEF SecondFrom
<1>1. PICK t, r, need : /\ t = h[6] /\ r = LoadBE(SubSeq(h, 9, 12)) /\ need = LoadBE(SubSeq(h, 13, 16))
                        /\ q = Rec(h, TRUE, t, r, need, mem, l, cap)
  BY Zenon DEF SecondFrom, Accepted
<1>e. l <= need /\ f = Second(q, k, W)
  BY <1>1, Zenon DEF SecondFrom
<1>2. need \in Nat /\ need <= MaxPayload /\ l <= need
  <2>1. LoadBE(SubSeq(h, 13, 16)) \in Nat /\ LoadBE(SubSeq(h, 13, 16)) <= MaxPayload
    BY <1>a, HeaderNumbers
  <2>2. QED
    BY <1>1, <1>e, <2>1, Zenon
<1>3. W \in Seq(Nat)
  BY <1>d, SuffixIs
<1>4. PICK b : b = TakePayload(q, W)
  OBVIOUS
<1>5. PICK n, m2, l2, c2, R : /\ PayloadTaken(mem, l, need, W, b, n, m2, l2, c2, R)
                              /\ b.p = Rec(h, TRUE, t, r, need, m2, l2, c2)
  <2>1. PICK d : d = TRUE /\ q = Rec(h, d, t, r, need, mem, l, cap)
    BY <1>1, Zenon
  <2>2. need \in Nat /\ need <= MaxPayload
    BY <1>2
  <2>3. q = Rec(h, d, t, r, need, mem, l, cap)
    BY <2>1
  <2>4. l <= need
    BY <1>2
  <2>5. \E n, m2, l2, c2, R : /\ PayloadTaken(mem, l, need, W, b, n, m2, l2, c2, R)
                              /\ b.p = Rec(h, d, t, r, need, m2, l2, c2)
    BY <1>b, <1>c, <1>3, <1>4, <2>2, <2>3, <2>4, PayloadStage
  <2>6. QED
    BY <2>1, <2>5, Zenon
<1>6. /\ n = b.n /\ n \in 0 .. Len(W) /\ R = SubSeq(W, n + 1, Len(W)) /\ R \in Seq(Nat)
      /\ m2 \in Seq(Nat) /\ l2 \in 0 .. Len(m2) /\ Len(m2) <= MaxPayload
      /\ c2 \in Nat /\ c2 < 2 * MaxPayload
      /\ l2 <= need /\ (l2 < need => R = <<>>)
      /\ SubSeq(m2, 1, l2) \o R = SubSeq(mem, 1, l) \o W
  BY <1>5, Zenon DEF PayloadTaken
<1>7. PICK c \in 0 .. Len(U) : c = k + n /\ R = SubSeq(U, c + 1, Len(U))
  <2>1. k + n \in 0 .. Len(U) /\ SubSeq(W, n + 1, Len(W)) = SubSeq(U, k + n + 1, Len(U))
    <3>1. n \in 0 .. Len(W)
      BY <1>6
    <3>2. QED
      BY <1>d, <3>1, SuffixTwice, SMTT(60)
  <2>2. QED
    BY <1>6, <2>1, Zenon
<1>8. PICK z \in Seq(Nat), P \in Seq(Nat) :
        z = SubSeq(mem, 1, l) /\ P = SubSeq(m2, 1, l2) /\ Len(P) = l2
  <2>1. SubSeq(mem, 1, l) \in Seq(Nat)
    BY <1>b, PrefixIs
  <2>2. SubSeq(m2, 1, l2) \in Seq(Nat) /\ Len(SubSeq(m2, 1, l2)) = l2
    BY <1>6, PrefixIs
  <2>3. QED
    BY <2>1, <2>2, Zenon
<1>9. PICK Y : Y = (h \o z) \o W /\ (h \o P) \o R = Y /\ h \o (P \o R) = Y
  <2>1. P \o R = z \o W
    BY <1>6, <1>8, Zenon
  <2>2. R \in Seq(Nat) /\ W \in Seq(Nat)
    BY <1>3, <1>6
  <2>3. h \o (P \o R) = (h \o z) \o W /\ (h \o P) \o R = (h \o z) \o W
    <3>1. h \in Seq(Nat) /\ z \in Seq(Nat) /\ P \in Seq(Nat)
      BY <1>8, <1>a
    <3>2. (h \o z) \o W = h \o (z \o W)
      BY <2>2, <3>1, NatAssociate, ZenonT(60)
    <3>3. (h \o P) \o R = h \o (P \o R)
      BY <2>2, <3>1, NatAssociate, ZenonT(60)
    <3>4. QED
      BY <2>1, <3>2, <3>3, Zenon
  <2>4. QED
    BY <2>3, Zenon
<1>10. /\ b.p.header = h /\ b.p.done = TRUE /\ b.p.type = t /\ b.p.req = r /\ b.p.need = need
       /\ b.p.mem = m2 /\ b.p.len = l2 /\ b.p.cap = c2
  <2>1. \A d : LET e == Rec(h, d, t, r, need, m2, l2, c2) IN
          /\ e.header = h /\ e.done = d /\ e.type = t /\ e.req = r /\ e.need = need
          /\ e.mem = m2 /\ e.len = l2 /\ e.cap = c2
    BY RecIs
  <2>2. QED
    BY <1>5, <2>1, Zenon
<1>11. CASE l2 # need
  <2>1. f = [p |-> b.p, consumed |-> c, out |-> NoFrame, error |-> FALSE]
    BY <1>e, <1>4, <1>6, <1>7, <1>10, <1>11, Zenon DEF Second
  <2>2. f.p = b.p /\ f.consumed = c /\ f.out = NoFrame /\ f.error = FALSE
    BY <2>1
  <2>3. l2 < need
    BY <1>2, <1>6, <1>11
  <2>4. ParserOK(f.p)
    <3>1. ParserOK(Accepted(h, m2, l2, c2))
      BY <1>1, <1>6, <1>a, <2>3, AcceptedOK
    <3>2. f.p = Accepted(h, m2, l2, c2)
      BY <1>1, <1>5, <2>2, Zenon DEF Accepted
    <3>3. QED
      BY <3>1, <3>2, Zenon
  <2>5. Kept(f.p) = h \o P
    BY <1>8, <1>10, <2>2, Zenon DEF Kept
  <2>6. Waits(Y, f, R)
    BY <1>9, <1>10, <2>2, <2>4, <2>5, Zenon DEF Waits
  <2>7. Fed(Y, U, f, R)
    BY <1>6, <1>7, <2>2, <2>6, Zenon DEF Fed
  <2>8. QED
    BY <1>8, <1>9, <2>7, Zenon
<1>12. CASE l2 = need
  <2>1. PICK o : o = [ready |-> TRUE, type |-> t, req |-> r, len |-> l2]
    OBVIOUS
  <2>2. f = [p |-> Restarted(b.p), consumed |-> c, error |-> FALSE, out |-> o]
    BY <1>e, <1>4, <1>6, <1>7, <1>10, <1>12, <2>1, Zenon DEF Second
  <2>3. f.p = Restarted(b.p) /\ f.consumed = c /\ f.out = o /\ f.error = FALSE
    BY <2>2
  <2>4. f.p = Rec(<<>>, FALSE, 0, 0, 0, m2, 0, c2)
    <3>1. Restarted(b.p) = [NewParser EXCEPT !.mem = m2, !.cap = c2]
      BY <1>10, Zenon DEF Restarted
    <3>2. [NewParser EXCEPT !.mem = m2, !.cap = c2] = Rec(<<>>, FALSE, 0, 0, 0, m2, 0, c2)
      BY RecNew, Zenon
    <3>3. QED
      BY <2>3, <3>1, <3>2, Zenon
  <2>5. /\ f.p.header = <<>> /\ f.p.done = FALSE /\ f.p.mem = m2 /\ f.p.len = 0
    <3>1. PICK x, d, a, y : x = <<>> /\ d = FALSE /\ a = 0 /\ y = 0
      OBVIOUS
    <3>2. f.p = Rec(x, d, a, a, a, m2, y, c2)
      BY <2>4, <3>1, Zenon
    <3>3. f.p.header = x /\ f.p.done = d /\ f.p.mem = m2 /\ f.p.len = y
      BY <3>2, RecIs
    <3>4. QED
      BY <3>1, <3>3, Zenon
  <2>6. ParserOK(f.p)
    <3>1. \A x \in Seq(Nat) : \A a : Len(x) <= 20 => ParserOK(Rec(x, FALSE, a, a, a, m2, 0, c2))
      BY <1>6, IdleOK
    <3>2. <<>> \in Seq(Nat) /\ Len(<<>>) <= 20
      OBVIOUS
    <3>3. QED
      BY <2>4, <3>1, <3>2, Zenon
  <2>7. o = FrameOf(h, P)
    BY <1>1, <1>8, <2>1, Zenon DEF FrameOf
  <2>8. Len(P) = LoadBE(SubSeq(h, 13, 16)) /\ Len(P) <= Len(f.p.mem) /\ SubSeq(f.p.mem, 1, Len(P)) = P
    <3>1. l2 <= Len(m2)
      BY <1>6
    <3>2. QED
      BY <1>1, <1>8, <1>12, <2>5, <3>1, Zenon
  <2>9. Frames(Y, f, R, h, P)
    BY <1>8, <1>9, <1>a, <2>3, <2>5, <2>6, <2>7, <2>8, Zenon DEF Frames
  <2>10. Fed(Y, U, f, R)
    BY <1>6, <1>7, <2>3, <2>9, Zenon DEF Fed
  <2>11. QED
    BY <1>8, <1>9, <2>10, Zenon
<1>13. QED
  BY <1>11, <1>12
-----------------------------------------------------------------------------

FeedFrom(p, U, f) ==
  /\ ParserOK(p) /\ (~ p.done => Len(p.header) < 20)
  /\ U \in Seq(Nat) /\ U # <<>> /\ f = Feed(p, U)

LEMMA FeedIs ==
  ASSUME NEW p, NEW U, NEW f, FeedFrom(p, U, f)
  PROVE  \E R : Fed(Kept(p) \o U, U, f, R)
<1>a. U \in Seq(Nat) /\ U # <<>>
  BY Zenon DEF FeedFrom
<1>b. ParserOK(p)
  BY Zenon DEF FeedFrom
<1>1. PICK h, m, l, c : /\ h = p.header /\ m = p.mem /\ l = p.len /\ c = p.cap
  OBVIOUS
<1>2. /\ h \in Seq(Nat) /\ m \in Seq(Nat) /\ Len(m) <= MaxPayload /\ l \in 0 .. Len(m)
      /\ c \in Nat /\ c < 2 * MaxPayload
  BY <1>1, <1>b, ParserRec, Zenon
<1>3. PICK t : t = TakeHeader(p, U)
  OBVIOUS
<1>4. f = IF ~ t.p.done
          THEN [p |-> t.p, consumed |-> t.n, out |-> NoFrame,
                error |-> t.n > 0 /\ Len(t.p.header) = HeaderSize]
          ELSE Second(t.p, t.n, SubSeq(U, t.n + 1, Len(U)))
  <2>1. PICK W : W = SubSeq(U, t.n + 1, Len(U))
    OBVIOUS
  <2>2. f = Feed(p, U)
    BY Zenon DEF FeedFrom
  <2>3. QED
    BY <1>3, <2>1, <2>2, Zenon DEF Feed, Second
<1>5. CASE p.done
  <2>1. /\ Len(h) = 20 /\ HeaderOK(h) /\ l < LoadBE(SubSeq(h, 13, 16))
        /\ p.type = h[6] /\ p.req = LoadBE(SubSeq(h, 9, 12)) /\ p.need = LoadBE(SubSeq(h, 13, 16))
    BY <1>1, <1>5, <1>b, Zenon DEF ParserOK, HeaderSize
  <2>2. p.done = TRUE
    <3>1. p.done \in BOOLEAN
      BY <1>b, ParserRec, Zenon
    <3>2. QED
      BY <1>5, <3>1, Zenon
  <2>3. p = Accepted(h, m, l, c)
    <3>1. p = Rec(p.header, p.done, p.type, p.req, p.need, p.mem, p.len, p.cap)
      BY <1>b, ParserRec, Zenon
    <3>2. QED
      BY <1>1, <2>1, <2>2, <3>1, Zenon DEF Accepted
  <2>4. t.p = p /\ t.n = 0
    <3>1. t = [p |-> p, n |-> 0]
      BY <1>3, <1>5, Zenon DEF TakeHeader
    <3>2. QED
      BY <3>1
  <2>5. PICK k : k = 0 /\ k \in 0 .. Len(U) /\ t.n = k
    <3>1. Len(U) \in Nat
      BY <1>a, LenProperties
    <3>2. QED
      BY <2>4, <3>1
  <2>6. PICK W : W = SubSeq(U, k + 1, Len(U)) /\ W = U
    <3>1. SubSeq(U, 1, Len(U)) = U
      BY <1>a, SubSeqFull
    <3>2. k + 1 = 1
      BY <2>5
    <3>3. QED
      BY <3>1, <3>2, Zenon
  <2>7. f = Second(p, k, W)
    BY <1>4, <1>5, <2>4, <2>5, <2>6, Zenon
  <2>8. l <= LoadBE(SubSeq(h, 13, 16))
    <3>1. LoadBE(SubSeq(h, 13, 16)) \in Nat
      BY <1>2, <2>1, HeaderNumbers
    <3>2. l \in Nat
      BY <1>2, LenProperties
    <3>3. QED
      BY <2>1, <3>1, <3>2
  <2>9. SecondFrom(h, m, l, c, U, k, W, p, f)
    BY <1>2, <1>a, <2>1, <2>3, <2>5, <2>6, <2>7, <2>8, Zenon DEF SecondFrom
  <2>10. PICK R : Fed((h \o SubSeq(m, 1, l)) \o W, U, f, R)
    BY <2>9, SecondIs, Zenon
  <2>11. QED
    BY <1>1, <2>6, <2>10, Zenon DEF Kept
<1>6. CASE ~ p.done
  <2>1. Len(h) < 20 /\ l = 0 /\ p.done = FALSE
    <3>1. Len(p.header) < 20
      BY <1>6, Zenon DEF FeedFrom
    <3>2. QED
      BY <1>1, <1>6, <1>b, <3>1, ParserRec, Zenon
  <2>2. Kept(p) = h
    <3>1. SubSeq(m, 1, 0) = <<>>
      BY <1>2, SubSeqEmpty
    <3>2. h \o <<>> = h
      BY <1>2, ConcatEmptySeq
    <3>3. QED
      BY <1>1, <2>1, <3>1, <3>2, Zenon DEF Kept
  <2>3. PICK g, W : HeaderTaken(p, U, t, g, W)
    <3>1. Len(p.header) < 20
      BY <1>1, <2>1, Zenon
    <3>2. QED
      BY <1>3, <1>6, <1>a, <1>b, <3>1, HeaderStage
  <2>4. /\ g \in Seq(Nat) /\ W \in Seq(Nat) /\ t.n \in 0 .. Len(U) /\ W = SubSeq(U, t.n + 1, Len(U))
        /\ t.n > 0 /\ g \o W = h \o U /\ Len(g) <= 20 /\ (Len(g) < 20 => W = <<>>)
    BY <1>1, <2>3, Zenon DEF HeaderTaken
  <2>5. CASE Len(g) = 20 /\ HeaderOK(g)
    <3>1. t.p = Accepted(g, m, l, c)
      BY <1>1, <2>3, <2>5, Zenon DEF HeaderTaken
    <3>2. t.p.done
      <4>1. \A d, y, r, n : Rec(g, d, y, r, n, m, l, c).done = d
        BY RecIs
      <4>2. t.p.done = TRUE
        BY <3>1, <4>1, ZenonT(60) DEF Accepted
      <4>3. QED
        BY <4>2
    <3>3. PICK k : k = t.n
      OBVIOUS
    <3>4. f = Second(t.p, k, W)
      BY <1>4, <2>4, <3>2, <3>3, Zenon
    <3>5. l <= LoadBE(SubSeq(g, 13, 16))
      <4>1. LoadBE(SubSeq(g, 13, 16)) \in Nat
        BY <2>4, <2>5, HeaderNumbers
      <4>2. QED
        BY <2>1, <4>1
    <3>6. SecondFrom(g, m, l, c, U, k, W, t.p, f)
      BY <1>2, <1>a, <2>4, <2>5, <3>1, <3>3, <3>4, <3>5, Zenon DEF SecondFrom
    <3>7. PICK R : Fed((g \o SubSeq(m, 1, l)) \o W, U, f, R)
      BY <3>6, SecondIs, Zenon
    <3>8. g \o SubSeq(m, 1, l) = g
      <4>1. SubSeq(m, 1, 0) = <<>>
        BY <1>2, SubSeqEmpty
      <4>2. g \o <<>> = g
        BY <2>4, ConcatEmptySeq
      <4>3. QED
        BY <2>1, <4>1, <4>2, Zenon
    <3>9. QED
      BY <2>2, <2>4, <3>7, <3>8, Zenon
  <2>6. CASE ~ (Len(g) = 20 /\ HeaderOK(g))
    <3>1. PICK y, r, n : t.p = Rec(g, FALSE, y, r, n, m, 0, c)
      BY <1>1, <2>1, <2>3, <2>6, Zenon DEF HeaderTaken
    <3>2. t.p.header = g /\ t.p.done = FALSE /\ t.p.mem = m /\ t.p.len = 0
      <4>1. PICK d, z : d = FALSE /\ z = 0 /\ t.p = Rec(g, d, y, r, n, m, z, c)
        BY <3>1, Zenon
      <4>2. t.p.header = g /\ t.p.done = d /\ t.p.mem = m /\ t.p.len = z
        BY <4>1, RecIs
      <4>3. QED
        BY <4>1, <4>2, Zenon
    <3>3. PICK e : e = (t.n > 0 /\ Len(t.p.header) = HeaderSize)
      OBVIOUS
    <3>4. f = [p |-> t.p, consumed |-> t.n, out |-> NoFrame, error |-> e]
      BY <1>4, <3>2, <3>3, Zenon
    <3>5. f.p = t.p /\ f.consumed = t.n /\ f.out = NoFrame /\ f.error = e
      BY <3>4
    <3>6. ParserOK(t.p)
      <4>1. ParserOK(Rec(g, FALSE, y, r, n, m, 0, c))
        BY <1>2, <2>4, IdleOK
      <4>2. QED
        BY <3>1, <4>1, Zenon
    <3>7. CASE Len(g) = 20
      <4>1. f.error = TRUE
        <5>1. Len(t.p.header) = HeaderSize /\ t.n > 0
          BY <2>4, <3>2, <3>7, Zenon DEF HeaderSize
        <5>2. QED
          BY <3>3, <3>5, <5>1, Zenon
      <4>2. ~ HeaderOK(g)
        BY <2>6, <3>7, Zenon
      <4>3. Rejects(Kept(p) \o U, f, W)
        BY <2>2, <2>4, <3>2, <3>5, <3>6, <3>7, <4>1, <4>2, Zenon DEF Rejects
      <4>4. QED
        BY <2>4, <3>5, <4>3, Zenon DEF Fed
    <3>8. CASE Len(g) # 20
      <4>1. f.error = FALSE
        <5>1. Len(t.p.header) # HeaderSize
          BY <3>2, <3>8, Zenon DEF HeaderSize
        <5>2. QED
          BY <3>3, <3>5, <5>1, Zenon
      <4>2. Len(g) < 20
        <5>1. g \in Seq(Nat)
          BY <2>4
        <5>2. Len(g) \in Nat
          BY <5>1, LenProperties
        <5>3. Len(g) <= 20
          BY <2>4
        <5>4. \A x \in Nat : x <= 20 /\ x # 20 => x < 20
          OBVIOUS
        <5>5. QED
          BY <3>8, <5>2, <5>3, <5>4, Zenon
      <4>3. Kept(f.p) = g
        <5>1. SubSeq(m, 1, 0) = <<>>
          BY <1>2, SubSeqEmpty
        <5>2. g \o <<>> = g
          BY <2>4, ConcatEmptySeq
        <5>3. QED
          BY <3>2, <3>5, <5>1, <5>2, Zenon DEF Kept
      <4>4. Waits(Kept(p) \o U, f, W)
        BY <2>2, <2>4, <3>2, <3>5, <3>6, <4>1, <4>2, <4>3, Zenon DEF Waits
      <4>5. QED
        BY <2>4, <3>5, <4>4, Zenon DEF Fed
    <3>9. QED
      BY <3>7, <3>8
  <2>7. QED
    BY <2>5, <2>6
<1>7. QED
  BY <1>5, <1>6

\* A parser that has refused a header takes nothing.
LEMMA FeedDead ==
  ASSUME NEW p, ParserOK(p), ~ p.done, Len(p.header) = 20, ~ HeaderOK(p.header), NEW U \in Seq(Nat)
  PROVE  Feed(p, U) = [p |-> p, consumed |-> 0, out |-> NoFrame, error |-> FALSE]
<1>1. p.header \in Seq(Nat) /\ p = Rec(p.header, p.done, p.type, p.req, p.need, p.mem, p.len, p.cap)
  BY ParserRec, Zenon
<1>2. Min({HeaderSize - Len(p.header), Len(U)}) = 0
  <2>1. PICK x \in Int, y \in Int : x = HeaderSize - Len(p.header) /\ y = Len(U) /\ x = 0 /\ x <= y
    <3>1. Len(U) \in Nat /\ Len(p.header) = 20
      BY LenProperties
    <3>2. QED
      BY <3>1 DEF HeaderSize
  <2>2. Min({x, y}) = x
    BY <2>1, MinOfTwo
  <2>3. QED
    BY <2>1, <2>2, Zenon
<1>3. p.header \o SubSeq(U, 1, 0) = p.header
  <2>1. SubSeq(U, 1, 0) = <<>>
    BY SubSeqEmpty
  <2>2. p.header \o <<>> = p.header
    BY <1>1, ConcatEmptySeq
  <2>3. QED
    BY <2>1, <2>2, Zenon
<1>4. [p EXCEPT !.header = p.header] = p
  <2>1. SetHeader(p, p.header) = p
    BY <1>1, RecHeader
  <2>2. QED
    BY <2>1, Zenon DEF SetHeader
<1>5. TakeHeader(p, U) = [p |-> p, n |-> 0]
  BY <1>2, <1>3, <1>4, Zenon DEF TakeHeader
<1>6. PICK t : t = TakeHeader(p, U)
  OBVIOUS
<1>7. t.p = p /\ t.n = 0
  BY <1>5, <1>6
<1>8. ~ (0 > 0)
  OBVIOUS
<1>9. (t.n > 0 /\ Len(t.p.header) = HeaderSize) = FALSE
  BY <1>7, <1>8, Zenon
<1>10. Feed(p, U) = [p |-> t.p, consumed |-> t.n, out |-> NoFrame,
                     error |-> t.n > 0 /\ Len(t.p.header) = HeaderSize]
  BY <1>6, <1>7, Zenon DEF Feed
<1>11. QED
  BY <1>7, <1>9, <1>10, Zenon
-----------------------------------------------------------------------------

(* What the frames ahead say of a header that was put together.            *)

\* Two sequences that start with parts of one length are equal part by part.
LEMMA SameParts ==
  ASSUME NEW a \in Seq(Nat), NEW b \in Seq(Nat), NEW c \in Seq(Nat), NEW d \in Seq(Nat),
         a \o b = c \o d, Len(a) = Len(c)
  PROVE  a = c /\ b = d
<1>1. SubSeq(a \o b, 1, Len(a)) = a /\ SubSeq(a \o b, Len(a) + 1, Len(a \o b)) = b
  BY PartsAre
<1>2. SubSeq(c \o d, 1, Len(c)) = c /\ SubSeq(c \o d, Len(c) + 1, Len(c \o d)) = d
  BY PartsAre
<1>3. QED
  BY <1>1, <1>2, Zenon

AheadOf(al, s, F, n, G, X) ==
  /\ TapeOK(al, s, F) /\ s \in Scripts /\ n \in 0 .. Len(s)
  /\ G \in Seq(Nat) /\ Len(G) = 20 /\ X \in Seq(Nat) /\ G \o X = Behind(F, n)

LEMMA NextFrame ==
  ASSUME NEW al, NEW s, NEW F, NEW n, NEW G, NEW X, AheadOf(al, s, F, n, G, X)
  PROVE  /\ n < Len(s) /\ Behind(F, n + 1) \in Seq(Nat)
         /\ \E B : PieceOK(al, s[n + 1], n + 1, G, B) /\ X = B \o Behind(F, n + 1)
<1>1. /\ TapeOK(al, s, F) /\ s \in Scripts /\ n \in 0 .. Len(s)
      /\ G \in Seq(Nat) /\ Len(G) = 20 /\ X \in Seq(Nat) /\ G \o X = Behind(F, n)
  BY Zenon DEF AheadOf
<1>2. /\ Behind(F, n) \in Seq(Nat) /\ (n = Len(s) => Behind(F, n) = <<>>)
      /\ n < Len(s) => \E H, B : /\ PieceOK(al, s[n + 1], n + 1, H, B)
                                 /\ Behind(F, n + 1) \in Seq(Nat)
                                 /\ Behind(F, n) = H \o (B \o Behind(F, n + 1))
  <2>1. TapeOK(al, s, F) /\ s \in Scripts /\ n \in 0 .. Len(s)
    BY <1>1
  <2>2. Opened(al, s, F, n)
    BY <2>1, BehindIs
  <2>3. QED
    BY <2>2, Zenon DEF Opened
<1>3. Behind(F, n) # <<>>
  <2>1. Len(G \o X) = Len(G) + Len(X)
    BY <1>1, ConcatProperties
  <2>2. Len(X) \in Nat
    BY <1>1, LenProperties
  <2>3. Len(G \o X) # 0
    BY <1>1, <2>1, <2>2
  <2>4. Len(<<>>) = 0
    OBVIOUS
  <2>5. QED
    BY <1>1, <2>3, <2>4, Zenon
<1>4. n < Len(s)
  <2>1. Len(s) \in Nat
    BY <1>1, ScriptFacts
  <2>2. n # Len(s)
    BY <1>2, <1>3
  <2>3. QED
    BY <1>1, <2>1, <2>2
<1>5. PICK H, B : /\ PieceOK(al, s[n + 1], n + 1, H, B)
                  /\ Behind(F, n + 1) \in Seq(Nat)
                  /\ Behind(F, n) = H \o (B \o Behind(F, n + 1))
  BY <1>2, <1>4, Zenon
<1>6. H \in Seq(Nat) /\ B \in Seq(Nat) /\ Len(H) = 20
  BY <1>5, Zenon DEF PieceOK
<1>7. PICK Z \in Seq(Nat) : Z = B \o Behind(F, n + 1)
  BY <1>5, <1>6, ConcatProperties
<1>8. G = H /\ X = Z
  <2>1. G \o X = H \o Z /\ Len(G) = Len(H)
    BY <1>1, <1>5, <1>6, <1>7, Zenon
  <2>2. G \in Seq(Nat) /\ X \in Seq(Nat)
    BY <1>1, Zenon
  <2>3. H \in Seq(Nat)
    BY <1>6
  <2>4. QED
    BY <2>1, <2>2, <2>3, SameParts
<1>9. QED
  BY <1>4, <1>5, <1>7, <1>8, Zenon
-----------------------------------------------------------------------------
(* The invariant as a relation between values.                             *)

OutOf(s, i) ==
  [ready |-> TRUE, type |-> Kinds[s[i].kind].type, req |-> i, len |-> Len(Payload(s[i]))]
TaskOf(s, i) == [f |-> OutOf(s, i), payload |-> Payload(s[i])]
GotOf(s, i) ==
  [req |-> i, type |-> Kinds[s[i].kind].type, in |-> [ok |-> TRUE, left |-> <<>>, vals |-> s[i].v]]
Count(fr, ts, rc) == Len(rc) + Len(ts) + (IF fr.ready THEN 1 ELSE 0)

Shape(sd, s, al, w, ib, ip, ts, dd) ==
  /\ sd \in {"server", "client"} /\ s \in Scripts
  /\ al \in BOOLEAN /\ dd \in BOOLEAN
  /\ w \in Seq(Nat) /\ ib \in Seq(Nat) /\ ip \in 0 .. Len(ib)
  /\ sd = "client" => ts = <<>>
Viewable(s, p, fr, n) ==
  /\ p.header = <<>> /\ ~ p.done /\ fr.len <= Len(p.mem)
  /\ SubSeq(p.mem, 1, fr.len) = Payload(s[n])
Order(s, p, fr, ts, rc, n) ==
  /\ n = Count(fr, ts, rc)
  /\ Len(rc) \in Nat /\ Len(ts) \in Nat /\ fr.ready \in BOOLEAN
  /\ n <= Len(s) /\ \A i \in 1 .. n : Proper(s[i])
  /\ rc = [i \in 1 .. Len(rc) |-> GotOf(s, i)]
  /\ ts = [j \in 1 .. Len(ts) |-> TaskOf(s, Len(rc) + j)]
  /\ fr = IF fr.ready THEN OutOf(s, n) ELSE NoFrame
  /\ fr.ready => Viewable(s, p, fr, n)
Stream(dd, p, ib, ip, w, n, F) ==
  ~ dd => /\ ~ p.done => Len(p.header) < 20
          /\ Kept(p) \o (SubSeq(ib, ip + 1, Len(ib)) \o w) = Behind(F, n)
Refusal(al, s, p, fr, dd) ==
  dd => /\ ~ p.done /\ ~ fr.ready /\ Len(p.header) = 20 /\ ~ HeaderOK(p.header)
        /\ al \/ \E i \in DOMAIN s : ~ Proper(s[i])
Good(sd, s, al, w, p, ib, ip, fr, ts, rc, dd, n, F) ==
  /\ Shape(sd, s, al, w, ib, ip, ts, dd) /\ ParserOK(p) /\ Order(s, p, fr, ts, rc, n)
  /\ Refusal(al, s, p, fr, dd) /\ TapeOK(al, s, F) /\ Stream(dd, p, ib, ip, w, n, F)

LEMMA GoodIs ==
  /\ WireInvariant =>
       \E F \in Tapes : Good(side, script, altered, wire, parser, inbuf, inpos, frame, tasks,
                             received, dead, HandedOut, F)
  /\ (\E F \in Tapes : Good(side, script, altered, wire, parser, inbuf, inpos, frame, tasks,
                            received, dead, HandedOut, F)) => WireInvariant
<1>1. HandedOut = Count(frame, tasks, received)
  BY Zenon DEF HandedOut, Count
<1>2. Shapes <=> Shape(side, script, altered, wire, inbuf, inpos, tasks, dead)
  BY Zenon DEF Shapes, Shape
<1>3. \A i : Out(i) = OutOf(script, i) /\ Task(i) = TaskOf(script, i) /\ Got(i) = GotOf(script, i)
  BY Zenon DEF Out, Task, Got, OutOf, TaskOf, GotOf
<1>4. [i \in 1 .. Len(received) |-> Got(i)] = [i \in 1 .. Len(received) |-> GotOf(script, i)]
  BY <1>3, Zenon
<1>5. [j \in 1 .. Len(tasks) |-> Task(Len(received) + j)]
        = [j \in 1 .. Len(tasks) |-> TaskOf(script, Len(received) + j)]
  BY <1>3, Zenon
<1>6. InOrder <=> Order(script, parser, frame, tasks, received, HandedOut)
  BY <1>1, <1>3, <1>4, <1>5, Zenon DEF InOrder, Order, Viewable, View
<1>7. Refused <=> Refusal(altered, script, parser, frame, dead)
  BY Zenon DEF Refused, Refusal, HeaderSize
<1>8. ASSUME NEW F PROVE Streamed(F) <=> Stream(dead, parser, inbuf, inpos, wire, HandedOut, F)
  BY Zenon DEF Streamed, Stream, HeaderSize, Behind, Ahead, Held, Kept, Unfed
<1>9. ASSUME WireInvariant, NEW F \in Tapes PROVE TapeOK(altered, script, F)
  <2>1. script \in Scripts /\ altered \in BOOLEAN
    BY <1>9, Zenon DEF WireInvariant, Shapes
  <2>2. QED
    BY <2>1, TapesOK
<1>10. QED
  BY <1>2, <1>6, <1>7, <1>8, <1>9, Zenon DEF WireInvariant, Good
-----------------------------------------------------------------------------

(* The steps.                                                              *)

LEMMA GoodParts ==
  ASSUME NEW sd, NEW s, NEW al, NEW w, NEW p, NEW ib, NEW ip, NEW fr, NEW ts, NEW rc, NEW dd,
         NEW n, NEW F, Good(sd, s, al, w, p, ib, ip, fr, ts, rc, dd, n, F)
  PROVE  /\ sd \in {"server", "client"} /\ s \in Scripts /\ w \in Seq(Nat) /\ ib \in Seq(Nat)
         /\ ip \in 0 .. Len(ib) /\ al \in BOOLEAN /\ dd \in BOOLEAN /\ (sd = "client" => ts = <<>>)
         /\ Len(rc) \in Nat /\ Len(ts) \in Nat /\ fr.ready \in BOOLEAN
         /\ n = Count(fr, ts, rc) /\ n \in 0 .. Len(s) /\ Len(s) \in Nat
         /\ (~ fr.ready => fr = NoFrame) /\ (fr.ready => fr = OutOf(s, n) /\ Viewable(s, p, fr, n))
<1>1. /\ sd \in {"server", "client"} /\ s \in Scripts /\ w \in Seq(Nat) /\ ib \in Seq(Nat)
      /\ ip \in 0 .. Len(ib) /\ al \in BOOLEAN /\ dd \in BOOLEAN /\ (sd = "client" => ts = <<>>)
  BY Zenon DEF Good, Shape
<1>2. /\ Len(rc) \in Nat /\ Len(ts) \in Nat /\ fr.ready \in BOOLEAN
      /\ n = Count(fr, ts, rc) /\ n <= Len(s)
      /\ (~ fr.ready => fr = NoFrame) /\ (fr.ready => fr = OutOf(s, n) /\ Viewable(s, p, fr, n))
  BY Zenon DEF Good, Order
<1>3. Len(s) \in Nat
  BY <1>1, ScriptFacts
<1>4. n \in 0 .. Len(s)
  <2>1. PICK k \in {0, 1} : k = IF fr.ready THEN 1 ELSE 0
    OBVIOUS
  <2>2. n = Len(rc) + Len(ts) + k
    BY <1>2, <2>1, Zenon DEF Count
  <2>3. n <= Len(s)
    BY <1>2
  <2>4. n \in Nat
    BY <1>2, <2>2
  <2>5. QED
    BY <1>3, <2>3, <2>4
<1>5. QED
  BY <1>1, <1>2, <1>3, <1>4, Zenon

LEMMA AheadTypes ==
  ASSUME NEW p, ParserOK(p)
  PROVE  Kept(p) \in Seq(Nat)
<1>1. p.header \in Seq(Nat) /\ p.mem \in Seq(Nat) /\ p.len \in 0 .. Len(p.mem)
  BY ParserRec, Zenon
<1>2. SubSeq(p.mem, 1, p.len) \in Seq(Nat)
  BY <1>1, PrefixIs
<1>3. p.header \o SubSeq(p.mem, 1, p.len) \in Seq(Nat)
  BY <1>1, <1>2, ConcatProperties
<1>4. QED
  BY <1>3, Zenon DEF Kept

\* What was read is unfed, and what was unfed is nothing.
LEMMA AllFed ==
  ASSUME NEW ib \in Seq(Nat), NEW ip \in 0 .. Len(ib), SubSeq(ib, ip + 1, Len(ib)) = <<>>
  PROVE  ip = Len(ib)
<1>1. Len(SubSeq(ib, ip + 1, Len(ib))) = Len(ib) - ip
  BY SuffixIs
<1>2. Len(<<>>) = 0
  OBVIOUS
<1>3. Len(ib) - ip = 0
  BY <1>1, <1>2, Zenon
<1>4. Len(ib) \in Nat
  BY LenProperties
<1>5. QED
  BY <1>3, <1>4

RecvTo(sd, w, ib, ip, w2, ib2, ip2) ==
  /\ SubSeq(ib, ip + 1, Len(ib)) = <<>>
  /\ \E k \in {Min({r, Len(w)}) : r \in ReadSizes} :
       /\ ib2 = IF sd = "server" THEN SubSeq(w, 1, k) ELSE ib \o SubSeq(w, 1, k)
       /\ w2 = SubSeq(w, k + 1, Len(w))
  /\ ip2 = IF sd = "server" THEN 0 ELSE ip

LEMMA RecvStep ==
  ASSUME NEW sd, NEW s, NEW al, NEW w, NEW p, NEW ib, NEW ip, NEW fr, NEW ts, NEW rc, NEW dd,
         NEW n, NEW F, Good(sd, s, al, w, p, ib, ip, fr, ts, rc, dd, n, F),
         NEW w2, NEW ib2, NEW ip2, RecvTo(sd, w, ib, ip, w2, ib2, ip2)
  PROVE  Good(sd, s, al, w2, p, ib2, ip2, fr, ts, rc, dd, n, F)
<1>1. w \in Seq(Nat) /\ ib \in Seq(Nat) /\ ip \in 0 .. Len(ib)
  BY GoodParts, Zenon
<1>2. PICK r, k :
        /\ r \in ReadSizes /\ k = Min({r, Len(w)})
        /\ ib2 = IF sd = "server" THEN SubSeq(w, 1, k) ELSE ib \o SubSeq(w, 1, k)
        /\ w2 = SubSeq(w, k + 1, Len(w))
  BY Zenon DEF RecvTo
<1>3. k \in 0 .. Len(w)
  <2>1. r \in Nat /\ Len(w) \in Nat
    <3>1. r \in ReadSizes
      BY <1>2
    <3>2. QED
      BY <1>1, <3>1, WireAssumption, LenProperties
  <2>2. (r <= Len(w) => k = r) /\ (Len(w) <= r => k = Len(w))
    BY <1>2, <2>1, MinOfTwo
  <2>3. QED
    BY <2>1, <2>2
<1>4. PICK a \in Seq(Nat), v \in Seq(Nat) : a = SubSeq(w, 1, k) /\ v = SubSeq(w, k + 1, Len(w)) /\ a \o v = w
  <2>1. /\ SubSeq(w, 1, k) \in Seq(Nat) /\ SubSeq(w, k + 1, Len(w)) \in Seq(Nat)
        /\ SubSeq(w, 1, k) \o SubSeq(w, k + 1, Len(w)) = w
    BY <1>1, <1>3, Halves
  <2>2. QED
    BY <2>1, Zenon
<1>5. SubSeq(ib, ip + 1, Len(ib)) = <<>> /\ ip2 = IF sd = "server" THEN 0 ELSE ip
  BY Zenon DEF RecvTo
<1>6. ib2 \in Seq(Nat) /\ ip2 \in 0 .. Len(ib2) /\ SubSeq(ib2, ip2 + 1, Len(ib2)) = a
  <2>1. CASE sd = "server"
    <3>1. ib2 = a /\ ip2 = 0
      BY <1>2, <1>4, <1>5, <2>1, Zenon
    <3>2. SubSeq(a, 1, Len(a)) = a
      BY SubSeqFull
    <3>3. ip2 + 1 = 1
      BY <3>1
    <3>4. 0 \in 0 .. Len(a)
      BY LenProperties
    <3>5. QED
      BY <3>1, <3>2, <3>3, <3>4, Zenon
  <2>2. CASE sd # "server"
    <3>1. ib2 = ib \o a /\ ip2 = ip
      BY <1>2, <1>4, <1>5, <2>2, Zenon
    <3>2. ip = Len(ib)
      BY <1>1, <1>5, AllFed
    <3>3. SubSeq(ib \o a, Len(ib) + 1, Len(ib \o a)) = a
      BY <1>1, PartsAre
    <3>4. ib \o a \in Seq(Nat) /\ Len(ib \o a) = Len(ib) + Len(a)
      BY <1>1, ConcatProperties
    <3>5. Len(ib) \in Nat /\ Len(a) \in Nat
      BY <1>1, LenProperties
    <3>6. Len(ib) \in 0 .. Len(ib \o a)
      BY <3>4, <3>5
    <3>7. QED
      BY <3>1, <3>2, <3>3, <3>4, <3>6, Zenon
  <2>3. QED
    BY <2>1, <2>2
<1>7. a \o v = <<>> \o w
  <2>1. <<>> \o w = w
    BY <1>1, ConcatEmptySeq
  <2>2. QED
    BY <1>4, <2>1, Zenon
<1>8. w2 = v
  BY <1>2, <1>4, Zenon
<1>9. Stream(dd, p, ib2, ip2, w2, n, F)
  <2>1. Stream(dd, p, ib, ip, w, n, F)
    BY Zenon DEF Good
  <2>2. SubSeq(ib2, ip2 + 1, Len(ib2)) \o w2 = SubSeq(ib, ip + 1, Len(ib)) \o w
    BY <1>5, <1>6, <1>7, <1>8, Zenon
  <2>3. QED
    BY <2>1, <2>2, Zenon DEF Stream
<1>10. Shape(sd, s, al, w2, ib2, ip2, ts, dd)
  <2>1. /\ sd \in {"server", "client"} /\ s \in Scripts /\ al \in BOOLEAN /\ dd \in BOOLEAN
        /\ (sd = "client" => ts = <<>>)
    BY Zenon DEF Good, Shape
  <2>2. w2 \in Seq(Nat)
    BY <1>4, <1>8
  <2>3. QED
    BY <1>6, <2>1, <2>2, Zenon DEF Shape
<1>11. QED
  BY <1>9, <1>10, Zenon DEF Good

\* A dead parser's connection is read until it is closed.
RecvDeadTo(w, w2, ib2, ip2) ==
  /\ ib2 = SubSeq(w, 1, Min({Max(ReadSizes), Len(w)}))
  /\ w2 = SubSeq(w, Len(ib2) + 1, Len(w))
  /\ ip2 = 0

LEMMA RecvDeadStep ==
  ASSUME NEW sd, NEW s, NEW al, NEW w, NEW p, NEW ib, NEW ip, NEW fr, NEW ts, NEW rc, NEW dd,
         NEW n, NEW F, Good(sd, s, al, w, p, ib, ip, fr, ts, rc, dd, n, F), dd,
         NEW w2, NEW ib2, NEW ip2, RecvDeadTo(w, w2, ib2, ip2)
  PROVE  Good(sd, s, al, w2, p, ib2, ip2, fr, ts, rc, dd, n, F)
<1>1. w \in Seq(Nat)
  BY GoodParts, Zenon
<1>2. PICK k : k = Min({Max(ReadSizes), Len(w)})
  OBVIOUS
<1>3. k \in 0 .. Len(w)
  <2>1. PICK m \in ReadSizes : \A r \in ReadSizes : r <= m
    BY WireAssumption
  <2>2. m \in Nat /\ \A r \in ReadSizes : r \in Nat
    BY WireAssumption
  <2>3. Max(ReadSizes) \in ReadSizes
    <3>1. \A r \in ReadSizes : m >= r
      BY <2>1, <2>2
    <3>2. QED
      BY <2>1, <3>1, Zenon DEF Max
  <2>4. Max(ReadSizes) \in Nat /\ Len(w) \in Nat
    BY <1>1, <2>2, <2>3, LenProperties
  <2>5. PICK r \in Nat : r = Max(ReadSizes)
    BY <2>4
  <2>6. (r <= Len(w) => k = r) /\ (Len(w) <= r => k = Len(w))
    <3>1. k = Min({r, Len(w)})
      BY <1>2, <2>5, Zenon
    <3>2. QED
      BY <2>4, <3>1, MinOfTwo
  <2>7. QED
    BY <2>4, <2>5, <2>6
<1>4. ib2 = SubSeq(w, 1, k) /\ ib2 \in Seq(Nat) /\ Len(ib2) = k
  <2>1. ib2 = SubSeq(w, 1, k)
    BY <1>2, Zenon DEF RecvDeadTo
  <2>2. SubSeq(w, 1, k) \in Seq(Nat) /\ Len(SubSeq(w, 1, k)) = k
    BY <1>1, <1>3, PrefixIs
  <2>3. QED
    BY <2>1, <2>2, Zenon
<1>5. w2 \in Seq(Nat)
  <2>1. w2 = SubSeq(w, k + 1, Len(w))
    BY <1>4, Zenon DEF RecvDeadTo
  <2>2. QED
    BY <1>1, <1>3, <2>1, SuffixIs
<1>6. ip2 = 0 /\ ip2 \in 0 .. Len(ib2)
  <2>1. ip2 = 0
    BY Zenon DEF RecvDeadTo
  <2>2. Len(ib2) \in Nat
    BY <1>4, LenProperties
  <2>3. QED
    BY <2>1, <2>2
<1>7. Shape(sd, s, al, w2, ib2, ip2, ts, dd)
  <2>1. /\ sd \in {"server", "client"} /\ s \in Scripts /\ al \in BOOLEAN /\ dd \in BOOLEAN
        /\ (sd = "client" => ts = <<>>)
    BY Zenon DEF Good, Shape
  <2>2. QED
    BY <1>4, <1>5, <1>6, <2>1, Zenon DEF Shape
<1>8. Stream(dd, p, ib2, ip2, w2, n, F)
  BY Zenon DEF Stream
<1>9. QED
  BY <1>7, <1>8, Zenon DEF Good
-----------------------------------------------------------------------------

\* Feeding what was read: the parser p2 and the frame fr2 come out of it.
FeedTo(sd, p, ib, ip, fr, dd, U, f, p2, ib2, ip2, fr2, dd2) ==
  /\ U = SubSeq(ib, ip + 1, Len(ib)) /\ f = Feed(p, U)
  /\ U # <<>> /\ ~ fr.ready
  /\ p2 = f.p /\ fr2 = f.out /\ dd2 = (dd \/ f.error)
  /\ IF f.error \/ dd \/ (f.out.ready /\ ip + f.consumed = Len(ib) /\ sd = "client")
     THEN ib2 = <<>> /\ ip2 = 0
     ELSE ib2 = ib /\ ip2 = ip + f.consumed
FeedBefore(sd, s, al, w, p, ib, ip, fr, ts, rc, dd, n, F, U, f, p2, ib2, ip2, fr2, dd2) ==
  /\ Good(sd, s, al, w, p, ib, ip, fr, ts, rc, dd, n, F)
  /\ FeedTo(sd, p, ib, ip, fr, dd, U, f, p2, ib2, ip2, fr2, dd2)

LEMMA NoFrameIs == NoFrame.ready = FALSE
BY DEF NoFrame

\* A parser without a frame changes the order of nothing.
LEMMA OrderKept ==
  ASSUME NEW s, NEW p, NEW fr, NEW ts, NEW rc, NEW n, Order(s, p, fr, ts, rc, n), ~ fr.ready, NEW p2
  PROVE  Order(s, p2, fr, ts, rc, n)
BY Zenon DEF Order

\* Where the bytes that were not taken are found again.
LEMMA RestAt ==
  ASSUME NEW ib \in Seq(Nat), NEW ip \in 0 .. Len(ib), NEW U, U = SubSeq(ib, ip + 1, Len(ib)),
         NEW c \in 0 .. Len(U), NEW R, R = SubSeq(U, c + 1, Len(U))
  PROVE  /\ ip + c \in 0 .. Len(ib) /\ SubSeq(ib, ip + c + 1, Len(ib)) = R
         /\ ip + c = Len(ib) => R = <<>>
<1>1. ip + c \in 0 .. Len(ib) /\ SubSeq(U, c + 1, Len(U)) = SubSeq(ib, ip + c + 1, Len(ib))
  BY SuffixTwice, SMTT(60)
<1>2. PICK k \in 0 .. Len(ib) : k = ip + c
  BY <1>1
<1>3. R = SubSeq(ib, k + 1, Len(ib))
  BY <1>1, <1>2
<1>4. k = Len(ib) => R = <<>>
  <2>1. ASSUME k = Len(ib) PROVE R = <<>>
    <3>1. SubSeq(ib, k + 1, Len(ib)) \in Seq(Nat) /\ Len(SubSeq(ib, k + 1, Len(ib))) = Len(ib) - k
      BY SuffixIs
    <3>2. Len(ib) \in Nat
      BY LenProperties
    <3>3. Len(ib) - k = 0
      BY <2>1, <3>2
    <3>4. R \in Seq(Nat) /\ Len(R) = 0
      BY <1>3, <3>1, <3>3, Zenon
    <3>5. QED
      BY <3>4, EmptySeq
  <2>2. QED
    BY <2>1
<1>5. QED
  BY <1>1, <1>2, <1>3, <1>4

LEMMA FeedDeadStep ==
  ASSUME NEW sd, NEW s, NEW al, NEW w, NEW p, NEW ib, NEW ip, NEW fr, NEW ts, NEW rc, NEW dd,
         NEW n, NEW F, NEW U, NEW f, NEW p2, NEW ib2, NEW ip2, NEW fr2, NEW dd2,
         FeedBefore(sd, s, al, w, p, ib, ip, fr, ts, rc, dd, n, F, U, f, p2, ib2, ip2, fr2, dd2), dd
  PROVE  Good(sd, s, al, w, p2, ib2, ip2, fr2, ts, rc, dd2, n, F)
<1>1. Good(sd, s, al, w, p, ib, ip, fr, ts, rc, dd, n, F)
  BY Zenon DEF FeedBefore
<1>2. /\ U = SubSeq(ib, ip + 1, Len(ib)) /\ f = Feed(p, U) /\ ~ fr.ready
      /\ p2 = f.p /\ fr2 = f.out /\ dd2 = (dd \/ f.error) /\ ib2 = <<>> /\ ip2 = 0
  BY Zenon DEF FeedBefore, FeedTo
<1>3. ParserOK(p) /\ ~ p.done /\ Len(p.header) = 20 /\ ~ HeaderOK(p.header)
  BY <1>1, Zenon DEF Good, Refusal
<1>4. U \in Seq(Nat)
  <2>1. ib \in Seq(Nat) /\ ip \in 0 .. Len(ib)
    BY <1>1, GoodParts, Zenon
  <2>2. SubSeq(ib, ip + 1, Len(ib)) \in Seq(Nat)
    BY <2>1, SuffixIs
  <2>3. QED
    BY <1>2, <2>2, Zenon
<1>5. f.p = p /\ f.out = NoFrame
  <2>1. Feed(p, U) = [p |-> p, consumed |-> 0, out |-> NoFrame, error |-> FALSE]
    BY <1>3, <1>4, FeedDead, Zenon
  <2>2. f = [p |-> p, consumed |-> 0, out |-> NoFrame, error |-> FALSE]
    BY <1>2, <2>1, Zenon
  <2>3. QED
    BY <2>2
<1>6. dd2 = TRUE /\ p2 = p /\ fr2 = fr
  <2>1. fr = NoFrame
    BY <1>1, <1>2, Zenon DEF Good, Order
  <2>2. QED
    BY <1>2, <1>5, <2>1, Zenon
<1>7. Shape(sd, s, al, w, ib2, ip2, ts, dd2)
  <2>1. /\ sd \in {"server", "client"} /\ s \in Scripts /\ al \in BOOLEAN /\ w \in Seq(Nat)
        /\ (sd = "client" => ts = <<>>)
    BY <1>1, Zenon DEF Good, Shape
  <2>2. ib2 \in Seq(Nat) /\ ip2 \in 0 .. Len(ib2)
    BY <1>2
  <2>3. QED
    BY <1>6, <2>1, <2>2, Zenon DEF Shape
<1>8. Stream(dd2, p2, ib2, ip2, w, n, F)
  BY <1>6, Zenon DEF Stream
<1>9. Refusal(al, s, p2, fr2, dd2) /\ Order(s, p2, fr2, ts, rc, n) /\ ParserOK(p2) /\ TapeOK(al, s, F)
  BY <1>1, <1>6, Zenon DEF Good, Refusal
<1>10. QED
  BY <1>7, <1>8, <1>9, Zenon DEF Good

\* The facts that the three ends of a call of a living parser share.
FedFacts(sd, s, al, w, p, ib, ip, fr, ts, rc, dd, n, F, U, f, R) ==
  /\ dd = FALSE /\ fr.ready = FALSE /\ fr = NoFrame /\ n \in 0 .. Len(s) /\ Len(s) \in Nat
  /\ sd \in {"server", "client"} /\ s \in Scripts /\ al \in BOOLEAN /\ w \in Seq(Nat)
  /\ (sd = "client" => ts = <<>>) /\ Order(s, p, fr, ts, rc, n) /\ TapeOK(al, s, F)
  /\ ib \in Seq(Nat) /\ ip \in 0 .. Len(ib)
  /\ R \in Seq(Nat) /\ ip + f.consumed \in 0 .. Len(ib)
  /\ SubSeq(ib, ip + f.consumed + 1, Len(ib)) = R
  /\ (ip + f.consumed = Len(ib) => R = <<>>)
  /\ Fed(Kept(p) \o U, U, f, R)
  /\ (Kept(p) \o U) \o w = Behind(F, n)

LEMMA FedFactsAre ==
  ASSUME NEW sd, NEW s, NEW al, NEW w, NEW p, NEW ib, NEW ip, NEW fr, NEW ts, NEW rc, NEW dd,
         NEW n, NEW F, NEW U, NEW f, NEW p2, NEW ib2, NEW ip2, NEW fr2, NEW dd2,
         FeedBefore(sd, s, al, w, p, ib, ip, fr, ts, rc, dd, n, F, U, f, p2, ib2, ip2, fr2, dd2), ~ dd
  PROVE  \E R : FedFacts(sd, s, al, w, p, ib, ip, fr, ts, rc, dd, n, F, U, f, R)
<1>1. Good(sd, s, al, w, p, ib, ip, fr, ts, rc, dd, n, F)
  BY Zenon DEF FeedBefore
<1>2. U = SubSeq(ib, ip + 1, Len(ib)) /\ f = Feed(p, U) /\ U # <<>> /\ ~ fr.ready
  BY Zenon DEF FeedBefore, FeedTo
<1>3. /\ sd \in {"server", "client"} /\ s \in Scripts /\ w \in Seq(Nat) /\ ib \in Seq(Nat)
      /\ ip \in 0 .. Len(ib) /\ al \in BOOLEAN /\ dd \in BOOLEAN /\ (sd = "client" => ts = <<>>)
  BY <1>1, Zenon DEF Good, Shape
<1>4. fr.ready \in BOOLEAN /\ n \in 0 .. Len(s) /\ Len(s) \in Nat /\ fr = NoFrame
  <2>1. fr.ready \in BOOLEAN /\ n \in 0 .. Len(s) /\ Len(s) \in Nat
    BY <1>1, GoodParts, Zenon
  <2>2. fr = NoFrame
    BY <1>1, <1>2, Zenon DEF Good, Order
  <2>3. QED
    BY <2>1, <2>2
<1>5. dd = FALSE /\ fr.ready = FALSE
  BY <1>2, <1>3, <1>4, Zenon
<1>6. Order(s, p, fr, ts, rc, n) /\ TapeOK(al, s, F) /\ ParserOK(p)
  BY <1>1, Zenon DEF Good
<1>7. (~ p.done => Len(p.header) < 20) /\ Kept(p) \o (U \o w) = Behind(F, n)
  BY <1>1, <1>2, <1>5, Zenon DEF Good, Stream
<1>8. U \in Seq(Nat)
  <2>1. SubSeq(ib, ip + 1, Len(ib)) \in Seq(Nat)
    BY <1>3, SuffixIs
  <2>2. QED
    BY <1>2, <2>1, Zenon
<1>9. FeedFrom(p, U, f)
  BY <1>2, <1>6, <1>7, <1>8, Zenon DEF FeedFrom
<1>10. PICK R : Fed(Kept(p) \o U, U, f, R)
  BY <1>9, FeedIs, Zenon
<1>11. PICK c \in 0 .. Len(U) : c = f.consumed /\ R = SubSeq(U, c + 1, Len(U)) /\ R \in Seq(Nat)
  BY <1>10, Zenon DEF Fed
<1>12. /\ ip + c \in 0 .. Len(ib) /\ SubSeq(ib, ip + c + 1, Len(ib)) = R
       /\ ip + c = Len(ib) => R = <<>>
  <2>1. R = SubSeq(U, c + 1, Len(U))
    BY <1>11
  <2>2. U = SubSeq(ib, ip + 1, Len(ib))
    BY <1>2
  <2>3. ib \in Seq(Nat) /\ ip \in 0 .. Len(ib)
    BY <1>3
  <2>4. QED
    BY <2>1, <2>2, <2>3, RestAt
<1>13. (Kept(p) \o U) \o w = Behind(F, n)
  <2>1. Kept(p) \in Seq(Nat)
    BY <1>6, AheadTypes
  <2>2. (Kept(p) \o U) \o w = Kept(p) \o (U \o w)
    BY <1>3, <1>8, <2>1, NatAssociate, Zenon
  <2>3. QED
    BY <1>7, <2>2, Zenon
<1>14. QED
  BY <1>3, <1>4, <1>5, <1>6, <1>10, <1>11, <1>12, <1>13, Zenon DEF FedFacts
-----------------------------------------------------------------------------

FeedAfter(sd, f, ib, ip, dd2, ib2, ip2) ==
  /\ dd2 = f.error
  /\ IF f.error \/ (f.out.ready /\ ip + f.consumed = Len(ib) /\ sd = "client")
     THEN ib2 = <<>> /\ ip2 = 0
     ELSE ib2 = ib /\ ip2 = ip + f.consumed
FeedCase(sd, s, al, w, p, ib, ip, fr, ts, rc, dd, n, F, U, f, R, ib2, ip2, dd2) ==
  /\ FedFacts(sd, s, al, w, p, ib, ip, fr, ts, rc, dd, n, F, U, f, R)
  /\ FeedAfter(sd, f, ib, ip, dd2, ib2, ip2)

LEMMA WaitStep ==
  ASSUME NEW sd, NEW s, NEW al, NEW w, NEW p, NEW ib, NEW ip, NEW fr, NEW ts, NEW rc, NEW dd,
         NEW n, NEW F, NEW U, NEW f, NEW R, NEW ib2, NEW ip2, NEW dd2,
         FeedCase(sd, s, al, w, p, ib, ip, fr, ts, rc, dd, n, F, U, f, R, ib2, ip2, dd2),
         Waits(Kept(p) \o U, f, R)
  PROVE  Good(sd, s, al, w, f.p, ib2, ip2, f.out, ts, rc, dd2, n, F)
<1>1. FedFacts(sd, s, al, w, p, ib, ip, fr, ts, rc, dd, n, F, U, f, R)
  BY Zenon DEF FeedCase
<1>2. /\ f.error = FALSE /\ f.out = NoFrame /\ ParserOK(f.p) /\ (~ f.p.done => Len(f.p.header) < 20)
      /\ Kept(f.p) \o R = Kept(p) \o U
  BY Zenon DEF Waits
<1>3. dd2 = FALSE /\ ib2 = ib /\ ip2 = ip + f.consumed
  <2>1. ~ f.out.ready
    BY <1>2, NoFrameIs, Zenon
  <2>2. QED
    BY <1>2, <2>1, Zenon DEF FeedCase, FeedAfter
<1>4. /\ SubSeq(ib2, ip2 + 1, Len(ib2)) = R /\ ib2 \in Seq(Nat) /\ ip2 \in 0 .. Len(ib2)
      /\ R \in Seq(Nat) /\ w \in Seq(Nat)
  BY <1>1, <1>3, Zenon DEF FedFacts
<1>5. Kept(f.p) \o (R \o w) = Behind(F, n)
  <2>1. Kept(f.p) \in Seq(Nat)
    BY <1>2, AheadTypes
  <2>2. (Kept(f.p) \o R) \o w = Kept(f.p) \o (R \o w)
    BY <1>4, <2>1, NatAssociate, Zenon
  <2>3. (Kept(p) \o U) \o w = Behind(F, n)
    BY <1>1, Zenon DEF FedFacts
  <2>4. QED
    BY <1>2, <2>2, <2>3, Zenon
<1>6. Stream(dd2, f.p, ib2, ip2, w, n, F)
  BY <1>2, <1>4, <1>5, Zenon DEF Stream
<1>7. Shape(sd, s, al, w, ib2, ip2, ts, dd2)
  <2>1. /\ sd \in {"server", "client"} /\ s \in Scripts /\ al \in BOOLEAN
        /\ (sd = "client" => ts = <<>>)
    BY <1>1, Zenon DEF FedFacts
  <2>2. dd2 \in BOOLEAN
    BY <1>3
  <2>3. QED
    BY <1>4, <2>1, <2>2, Zenon DEF Shape
<1>8. Order(s, f.p, f.out, ts, rc, n)
  <2>1. Order(s, p, fr, ts, rc, n) /\ ~ fr.ready /\ fr = NoFrame
    BY <1>1, Zenon DEF FedFacts
  <2>2. Order(s, f.p, fr, ts, rc, n)
    BY <2>1, OrderKept, Zenon
  <2>3. QED
    BY <1>2, <2>1, <2>2, Zenon
<1>9. Refusal(al, s, f.p, f.out, dd2)
  BY <1>3, Zenon DEF Refusal
<1>10. TapeOK(al, s, F)
  BY <1>1, Zenon DEF FedFacts
<1>11. QED
  BY <1>2, <1>6, <1>7, <1>8, <1>9, <1>10, Zenon DEF Good

LEMMA RejectStep ==
  ASSUME NEW sd, NEW s, NEW al, NEW w, NEW p, NEW ib, NEW ip, NEW fr, NEW ts, NEW rc, NEW dd,
         NEW n, NEW F, NEW U, NEW f, NEW R, NEW ib2, NEW ip2, NEW dd2,
         FeedCase(sd, s, al, w, p, ib, ip, fr, ts, rc, dd, n, F, U, f, R, ib2, ip2, dd2),
         Rejects(Kept(p) \o U, f, R)
  PROVE  Good(sd, s, al, w, f.p, ib2, ip2, f.out, ts, rc, dd2, n, F)
<1>1. FedFacts(sd, s, al, w, p, ib, ip, fr, ts, rc, dd, n, F, U, f, R)
  BY Zenon DEF FeedCase
<1>2. /\ f.error = TRUE /\ f.out = NoFrame /\ ParserOK(f.p) /\ f.p.done = FALSE
      /\ Len(f.p.header) = 20 /\ ~ HeaderOK(f.p.header) /\ f.p.header \o R = Kept(p) \o U
  BY Zenon DEF Rejects
<1>3. dd2 = TRUE /\ ib2 = <<>> /\ ip2 = 0
  BY <1>2, Zenon DEF FeedCase, FeedAfter
<1>4. /\ s \in Scripts /\ n \in 0 .. Len(s) /\ TapeOK(al, s, F) /\ R \in Seq(Nat) /\ w \in Seq(Nat)
      /\ (Kept(p) \o U) \o w = Behind(F, n)
  BY <1>1, Zenon DEF FedFacts
<1>5. PICK G : G = f.p.header /\ G \in Seq(Nat)
  BY <1>2, ParserRec, Zenon
<1>6. PICK X \in Seq(Nat) : X = R \o w
  BY <1>4, ConcatProperties
<1>7. G \o X = Behind(F, n)
  <2>1. (G \o R) \o w = G \o (R \o w)
    BY <1>4, <1>5, NatAssociate, Zenon
  <2>2. QED
    BY <1>2, <1>4, <1>5, <1>6, <2>1, Zenon
<1>8. AheadOf(al, s, F, n, G, X)
  BY <1>2, <1>4, <1>5, <1>6, <1>7, Zenon DEF AheadOf
<1>9. n < Len(s) /\ \E B : PieceOK(al, s[n + 1], n + 1, G, B)
  BY <1>8, NextFrame, Zenon
<1>10. al \/ ~ Proper(s[n + 1])
  BY <1>2, <1>5, <1>9, Zenon DEF PieceOK
<1>11. al \/ \E i \in DOMAIN s : ~ Proper(s[i])
  <2>1. n + 1 \in DOMAIN s
    <3>1. DOMAIN s = 1 .. Len(s) /\ Len(s) \in Nat
      BY <1>4, ScriptFacts
    <3>2. n \in 0 .. Len(s) /\ n < Len(s)
      BY <1>4, <1>9
    <3>3. n + 1 \in 1 .. Len(s)
      BY <3>1, <3>2
    <3>4. QED
      BY <3>1, <3>3
  <2>2. QED
    BY <1>10, <2>1, Zenon
<1>12. Refusal(al, s, f.p, f.out, dd2)
  BY <1>2, <1>11, NoFrameIs, Zenon DEF Refusal
<1>13. Order(s, f.p, f.out, ts, rc, n)
  <2>1. Order(s, p, fr, ts, rc, n) /\ ~ fr.ready /\ fr = NoFrame
    BY <1>1, Zenon DEF FedFacts
  <2>2. Order(s, f.p, fr, ts, rc, n)
    BY <2>1, OrderKept, Zenon
  <2>3. QED
    BY <1>2, <2>1, <2>2, Zenon
<1>14. Shape(sd, s, al, w, ib2, ip2, ts, dd2)
  <2>1. /\ sd \in {"server", "client"} /\ al \in BOOLEAN /\ (sd = "client" => ts = <<>>)
    BY <1>1, Zenon DEF FedFacts
  <2>2. dd2 \in BOOLEAN /\ ib2 \in Seq(Nat) /\ ip2 \in 0 .. Len(ib2)
    BY <1>3
  <2>3. QED
    BY <1>4, <2>1, <2>2, Zenon DEF Shape
<1>15. Stream(dd2, f.p, ib2, ip2, w, n, F)
  BY <1>3, Zenon DEF Stream
<1>16. QED
  BY <1>2, <1>4, <1>12, <1>13, <1>14, <1>15, Zenon DEF Good

InParts(g, q, r, w, y, b) ==
  /\ g \in Seq(Nat) /\ q \in Seq(Nat) /\ r \in Seq(Nat) /\ w \in Seq(Nat)
  /\ g \o (q \o r) = y /\ y \o w = b
LEMMA Parted ==
  ASSUME NEW g, NEW q, NEW r, NEW w, NEW y, NEW b, InParts(g, q, r, w, y, b)
  PROVE  g \o (q \o (r \o w)) = b
<1>1. g \in Seq(Nat) /\ q \in Seq(Nat) /\ r \in Seq(Nat) /\ w \in Seq(Nat)
  BY Zenon DEF InParts
<1>2. g \o (q \o r) = y /\ y \o w = b
  BY Zenon DEF InParts
<1>3. (q \o r) \o w = q \o (r \o w)
  BY <1>1, NatAssociate, ZenonT(60)
<1>4. q \o r \in Seq(Nat)
  BY <1>1, ConcatProperties
<1>5. (g \o (q \o r)) \o w = g \o ((q \o r) \o w)
  BY <1>1, <1>4, NatAssociate, ZenonT(60)
<1>6. QED
  BY <1>2, <1>3, <1>5, Zenon

LEMMA FrameStep ==
  ASSUME NEW sd, NEW s, NEW al, NEW w, NEW p, NEW ib, NEW ip, NEW fr, NEW ts, NEW rc, NEW dd,
         NEW n, NEW F, NEW U, NEW f, NEW R, NEW ib2, NEW ip2, NEW dd2, NEW G, NEW P,
         FeedCase(sd, s, al, w, p, ib, ip, fr, ts, rc, dd, n, F, U, f, R, ib2, ip2, dd2),
         Frames(Kept(p) \o U, f, R, G, P)
  PROVE  Good(sd, s, al, w, f.p, ib2, ip2, f.out, ts, rc, dd2, n + 1, F)
<1>1. FedFacts(sd, s, al, w, p, ib, ip, fr, ts, rc, dd, n, F, U, f, R)
  BY Zenon DEF FeedCase
<1>2. /\ f.error = FALSE /\ f.out = FrameOf(G, P) /\ G \in Seq(Nat) /\ Len(G) = 20 /\ HeaderOK(G)
      /\ P \in Seq(Nat) /\ Len(P) = LoadBE(SubSeq(G, 13, 16)) /\ G \o (P \o R) = Kept(p) \o U
  BY Zenon DEF Frames
<1>3. /\ ParserOK(f.p) /\ f.p.done = FALSE /\ f.p.header = <<>> /\ f.p.len = 0
      /\ Len(P) <= Len(f.p.mem) /\ SubSeq(f.p.mem, 1, Len(P)) = P
  BY Zenon DEF Frames
<1>4. /\ s \in Scripts /\ n \in 0 .. Len(s) /\ Len(s) \in Nat /\ TapeOK(al, s, F) /\ R \in Seq(Nat)
      /\ w \in Seq(Nat) /\ (Kept(p) \o U) \o w = Behind(F, n)
      /\ ib \in Seq(Nat) /\ ip + f.consumed \in 0 .. Len(ib)
      /\ SubSeq(ib, ip + f.consumed + 1, Len(ib)) = R /\ (ip + f.consumed = Len(ib) => R = <<>>)
  BY <1>1, Zenon DEF FedFacts
<1>5. PICK X \in Seq(Nat), V \in Seq(Nat) : V = R \o w /\ X = P \o V
  <2>1. R \o w \in Seq(Nat)
    BY <1>4, ConcatProperties
  <2>2. PICK V \in Seq(Nat) : V = R \o w
    BY <2>1
  <2>3. P \o V \in Seq(Nat)
    BY <1>2, ConcatProperties
  <2>4. QED
    BY <2>2, <2>3
<1>6. G \o X = Behind(F, n)
  <2>1. InParts(G, P, R, w, Kept(p) \o U, Behind(F, n))
    BY <1>2, <1>4, Zenon DEF InParts
  <2>2. G \o (P \o (R \o w)) = Behind(F, n)
    BY <2>1, Parted, ZenonT(60)
  <2>3. QED
    BY <1>5, <2>2, Zenon
<1>7. AheadOf(al, s, F, n, G, X)
  BY <1>2, <1>4, <1>5, <1>6, Zenon DEF AheadOf
<1>a. /\ n < Len(s) /\ Behind(F, n + 1) \in Seq(Nat)
      /\ \E B : PieceOK(al, s[n + 1], n + 1, G, B) /\ X = B \o Behind(F, n + 1)
  BY <1>7, NextFrame
<1>8. PICK B : PieceOK(al, s[n + 1], n + 1, G, B) /\ X = B \o Behind(F, n + 1)
  BY <1>a
<1>9. n < Len(s) /\ Behind(F, n + 1) \in Seq(Nat)
  BY <1>a
<1>10. PICK i \in 1 .. Len(s) : i = n + 1 /\ i - 1 = n
  BY <1>4, <1>9
<1>11. /\ B \in Seq(Nat) /\ Proper(s[i]) /\ G[6] = Kinds[s[i].kind].type
       /\ LoadBE(SubSeq(G, 9, 12)) = i /\ LoadBE(SubSeq(G, 13, 16)) = Len(B) /\ B = Payload(s[i])
  BY <1>2, <1>8, <1>10, Zenon DEF PieceOK
<1>12. P = B /\ V = Behind(F, i)
  <2>1. P \o V = B \o Behind(F, i) /\ Len(P) = Len(B)
    BY <1>2, <1>5, <1>8, <1>10, <1>11, Zenon
  <2>2. P \in Seq(Nat) /\ V \in Seq(Nat)
    BY <1>2, <1>5
  <2>3. B \in Seq(Nat) /\ Behind(F, i) \in Seq(Nat)
    BY <1>9, <1>10, <1>11, Zenon
  <2>4. QED
    BY <2>1, <2>2, <2>3, SameParts
<1>13. f.out = OutOf(s, i)
  BY <1>2, <1>11, <1>12, Zenon DEF FrameOf, OutOf
<1>14. f.out.ready = TRUE /\ f.out.len = Len(P)
  BY <1>2 DEF FrameOf
<1>15. Order(s, f.p, f.out, ts, rc, i)
  <2>1. Order(s, p, fr, ts, rc, n) /\ fr.ready = FALSE
    BY <1>1, Zenon DEF FedFacts
  <2>2. /\ n = Count(fr, ts, rc) /\ Len(rc) \in Nat /\ Len(ts) \in Nat
        /\ \A j \in 1 .. n : Proper(s[j])
        /\ rc = [j \in 1 .. Len(rc) |-> GotOf(s, j)]
        /\ ts = [j \in 1 .. Len(ts) |-> TaskOf(s, Len(rc) + j)]
    BY <2>1, Zenon DEF Order
  <2>3. i = Count(f.out, ts, rc)
    <3>1. n = Len(rc) + Len(ts) + 0
      BY <2>1, <2>2, Zenon DEF Count
    <3>2. Count(f.out, ts, rc) = Len(rc) + Len(ts) + 1
      BY <1>14, Zenon DEF Count
    <3>3. Len(rc) \in Nat /\ Len(ts) \in Nat
      BY <2>2
    <3>4. QED
      BY <1>10, <3>1, <3>2, <3>3
  <2>4. \A j \in 1 .. i : Proper(s[j])
    <3>1. \A j \in 1 .. i : j \in 1 .. n \/ j = i
      BY <1>4, <1>10
    <3>2. QED
      BY <1>11, <2>2, <3>1, Zenon
  <2>5. Viewable(s, f.p, f.out, i)
    BY <1>3, <1>11, <1>12, <1>14, Zenon DEF Viewable
  <2>6. i <= Len(s) /\ f.out.ready \in BOOLEAN
    <3>1. i <= Len(s)
      BY <1>4
    <3>2. QED
      BY <1>14, <3>1, Zenon
  <2>7. f.out = IF f.out.ready THEN OutOf(s, i) ELSE NoFrame
    BY <1>13, <1>14, Zenon
  <2>8. QED
    BY <2>2, <2>3, <2>4, <2>5, <2>6, <2>7, Zenon DEF Order
<1>16. dd2 = FALSE
  BY <1>2, Zenon DEF FeedCase, FeedAfter
<1>17. ib2 \in Seq(Nat) /\ ip2 \in 0 .. Len(ib2) /\ SubSeq(ib2, ip2 + 1, Len(ib2)) = R
  <2>1. CASE f.out.ready /\ ip + f.consumed = Len(ib) /\ sd = "client"
    <3>1. ib2 = <<>> /\ ip2 = 0
      BY <2>1, Zenon DEF FeedCase, FeedAfter
    <3>2. R = <<>>
      BY <1>4, <2>1, Zenon
    <3>3. SubSeq(<<>>, 0 + 1, Len(<<>>)) = <<>>
      <4>1. 0 + 1 = 1
        OBVIOUS
      <4>2. <<>> \in Seq(Nat)
        OBVIOUS
      <4>3. SubSeq(<<>>, 1, Len(<<>>)) = <<>>
        BY <4>2, SubSeqFull
      <4>4. QED
        BY <4>1, <4>3, Zenon
    <3>4. <<>> \in Seq(Nat) /\ 0 \in 0 .. Len(<<>>)
      OBVIOUS
    <3>5. QED
      BY <3>1, <3>2, <3>3, <3>4, Zenon
  <2>2. CASE ~ (f.out.ready /\ ip + f.consumed = Len(ib) /\ sd = "client")
    <3>1. ib2 = ib /\ ip2 = ip + f.consumed
      BY <1>2, <2>2, Zenon DEF FeedCase, FeedAfter
    <3>2. QED
      BY <1>4, <3>1, Zenon
  <2>3. QED
    BY <2>1, <2>2
<1>18. Kept(f.p) = <<>>
  <2>1. f.p.mem \in Seq(Nat)
    BY <1>3, ParserRec, Zenon
  <2>2. SubSeq(f.p.mem, 1, 0) = <<>>
    BY <2>1, SubSeqEmpty
  <2>3. <<>> \o <<>> = <<>>
    OBVIOUS
  <2>4. QED
    BY <1>3, <2>2, <2>3, Zenon DEF Kept
<1>19. Stream(dd2, f.p, ib2, ip2, w, i, F)
  <2>1. <<>> \o V = V
    BY ConcatEmptySeq
  <2>2. Len(<<>>) < 20
    OBVIOUS
  <2>3. Kept(f.p) \o (R \o w) = Behind(F, i)
    BY <1>5, <1>12, <1>18, <2>1, Zenon
  <2>4. QED
    BY <1>3, <1>17, <2>2, <2>3, Zenon DEF Stream
<1>20. Shape(sd, s, al, w, ib2, ip2, ts, dd2)
  <2>1. /\ sd \in {"server", "client"} /\ al \in BOOLEAN /\ (sd = "client" => ts = <<>>)
    BY <1>1, Zenon DEF FedFacts
  <2>2. dd2 \in BOOLEAN
    BY <1>16
  <2>3. QED
    BY <1>4, <1>17, <2>1, <2>2, Zenon DEF Shape
<1>21. Refusal(al, s, f.p, f.out, dd2)
  BY <1>16, Zenon DEF Refusal
<1>22. Good(sd, s, al, w, f.p, ib2, ip2, f.out, ts, rc, dd2, i, F)
  BY <1>3, <1>4, <1>15, <1>19, <1>20, <1>21, Zenon DEF Good
<1>23. QED
  BY <1>10, <1>22, Zenon
-----------------------------------------------------------------------------

LEMMA FeedStep ==
  ASSUME NEW sd, NEW s, NEW al, NEW w, NEW p, NEW ib, NEW ip, NEW fr, NEW ts, NEW rc, NEW dd,
         NEW n, NEW F, NEW U, NEW f, NEW p2, NEW ib2, NEW ip2, NEW fr2, NEW dd2,
         FeedBefore(sd, s, al, w, p, ib, ip, fr, ts, rc, dd, n, F, U, f, p2, ib2, ip2, fr2, dd2)
  PROVE  \E m : Good(sd, s, al, w, p2, ib2, ip2, fr2, ts, rc, dd2, m, F)
<1>1. CASE dd
  <2>1. Good(sd, s, al, w, p2, ib2, ip2, fr2, ts, rc, dd2, n, F)
    BY <1>1, FeedDeadStep, Zenon
  <2>2. QED
    BY <2>1
<1>2. CASE ~ dd
  <2>1. PICK R : FedFacts(sd, s, al, w, p, ib, ip, fr, ts, rc, dd, n, F, U, f, R)
    BY <1>2, FedFactsAre, Zenon
  <2>2. p2 = f.p /\ fr2 = f.out
    BY Zenon DEF FeedBefore, FeedTo
  <2>3. Fed(Kept(p) \o U, U, f, R) /\ dd = FALSE
    BY <2>1, Zenon DEF FedFacts
  <2>4. f.error \in BOOLEAN
    <3>1. f.error = FALSE \/ f.error = TRUE
      BY <2>3, Zenon DEF Fed, Waits, Rejects, Frames
    <3>2. QED
      BY <3>1
  <2>5. FeedAfter(sd, f, ib, ip, dd2, ib2, ip2)
    <3>1. dd2 = (dd \/ f.error)
      BY Zenon DEF FeedBefore, FeedTo
    <3>2. dd2 = f.error
      BY <2>3, <2>4, <3>1, Zenon
    <3>3. IF f.error \/ dd \/ (f.out.ready /\ ip + f.consumed = Len(ib) /\ sd = "client")
          THEN ib2 = <<>> /\ ip2 = 0
          ELSE ib2 = ib /\ ip2 = ip + f.consumed
      BY Zenon DEF FeedBefore, FeedTo
    <3>4. IF f.error \/ (f.out.ready /\ ip + f.consumed = Len(ib) /\ sd = "client")
          THEN ib2 = <<>> /\ ip2 = 0
          ELSE ib2 = ib /\ ip2 = ip + f.consumed
      BY <2>3, <3>3, Zenon
    <3>5. QED
      BY <3>2, <3>4, Zenon DEF FeedAfter
  <2>6. FeedCase(sd, s, al, w, p, ib, ip, fr, ts, rc, dd, n, F, U, f, R, ib2, ip2, dd2)
    BY <2>1, <2>5, Zenon DEF FeedCase
  <2>7. CASE Waits(Kept(p) \o U, f, R)
    <3>1. Good(sd, s, al, w, f.p, ib2, ip2, f.out, ts, rc, dd2, n, F)
      BY <2>6, <2>7, WaitStep, Zenon
    <3>2. QED
      BY <2>2, <3>1, Zenon
  <2>8. CASE Rejects(Kept(p) \o U, f, R)
    <3>1. Good(sd, s, al, w, f.p, ib2, ip2, f.out, ts, rc, dd2, n, F)
      BY <2>6, <2>8, RejectStep, Zenon
    <3>2. QED
      BY <2>2, <3>1, Zenon
  <2>9. CASE \E G, P : Frames(Kept(p) \o U, f, R, G, P)
    <3>1. PICK G, P : Frames(Kept(p) \o U, f, R, G, P)
      BY <2>9
    <3>2. Good(sd, s, al, w, f.p, ib2, ip2, f.out, ts, rc, dd2, n + 1, F)
      BY <2>6, <3>1, FrameStep, Zenon
    <3>3. QED
      BY <2>2, <3>2, Zenon
  <2>10. QED
    BY <2>3, <2>7, <2>8, <2>9, Zenon DEF Fed
<1>3. QED
  BY <1>1, <1>2

\* What a decoder makes of the frame that comes next.
DecodedOf(s, k, f, payload) ==
  [req |-> f.req, type |-> f.type,
   in |-> Decode(Kinds[s[Min({k, Len(s)})].kind].fields, payload)]
LEMMA DecodedIs ==
  ASSUME NEW s \in Scripts, NEW i \in 1 .. Len(s)
  PROVE  DecodedOf(s, i, OutOf(s, i), Payload(s[i])) = GotOf(s, i)
<1>1. MessageOK(s[i]) /\ Len(s) \in Nat
  BY ScriptFacts
<1>2. PICK m : m = s[i] /\ MessageOK(m)
  BY <1>1
<1>3. PICK fs : /\ fs = Kinds[m.kind].fields /\ Fields(fs) /\ ValuesOf(fs, m.v) /\ Encodable(fs, m.v)
                /\ Payload(m) = Encode(fs, m.v)
  BY <1>2, Zenon DEF MessageOK, Payload
<1>4. Min({i, Len(s)}) = i
  <2>1. PICK x \in Int, y \in Int : x = i /\ y = Len(s) /\ x <= y
    BY <1>1
  <2>2. Min({x, y}) = x
    BY <2>1, MinOfTwo
  <2>3. QED
    BY <2>1, <2>2, Zenon
<1>5. Decode(fs, Encode(fs, m.v)) = At(<<>>, m.v)
  BY <1>3, RoundTrip, Zenon
<1>6. Decode(Kinds[s[Min({i, Len(s)})].kind].fields, Payload(s[i]))
        = [ok |-> TRUE, left |-> <<>>, vals |-> s[i].v]
  BY <1>2, <1>3, <1>4, <1>5, Zenon DEF At
<1>7. PICK o : o = OutOf(s, i)
  OBVIOUS
<1>8. o.req = i /\ o.type = Kinds[s[i].kind].type
  BY <1>7 DEF OutOf
<1>9. QED
  BY <1>6, <1>7, <1>8, Zenon DEF DecodedOf, GotOf

EnqueueTo(sd, p, fr, ts, fr2, ts2) ==
  /\ sd = "server" /\ fr.ready
  /\ ts2 = Append(ts, [f |-> fr, payload |-> SubSeq(p.mem, 1, fr.len)])
  /\ fr2 = NoFrame

LEMMA EnqueueStep ==
  ASSUME NEW sd, NEW s, NEW al, NEW w, NEW p, NEW ib, NEW ip, NEW fr, NEW ts, NEW rc, NEW dd,
         NEW n, NEW F, Good(sd, s, al, w, p, ib, ip, fr, ts, rc, dd, n, F),
         NEW fr2, NEW ts2, EnqueueTo(sd, p, fr, ts, fr2, ts2)
  PROVE  Good(sd, s, al, w, p, ib, ip, fr2, ts2, rc, dd, n, F)
<1>1. sd = "server" /\ fr.ready /\ fr2 = NoFrame /\ fr2.ready = FALSE
  BY NoFrameIs, Zenon DEF EnqueueTo
<1>2. /\ n = Count(fr, ts, rc) /\ Len(rc) \in Nat /\ Len(ts) \in Nat /\ fr.ready \in BOOLEAN
      /\ n <= Len(s) /\ \A i \in 1 .. n : Proper(s[i])
      /\ rc = [i \in 1 .. Len(rc) |-> GotOf(s, i)]
      /\ ts = [j \in 1 .. Len(ts) |-> TaskOf(s, Len(rc) + j)]
      /\ fr = OutOf(s, n) /\ Viewable(s, p, fr, n)
  BY <1>1, Zenon DEF Good, Order
<1>3. PICK k \in Nat, m \in Nat : k = Len(rc) /\ m = Len(ts) /\ n = k + m + 1 /\ n = k + (m + 1)
  <2>1. Count(fr, ts, rc) = Len(rc) + Len(ts) + 1
    BY <1>1, ZenonT(60) DEF Count
  <2>2. PICK k \in Nat, m \in Nat : k = Len(rc) /\ m = Len(ts)
    BY <1>2, ZenonT(60)
  <2>3. n = k + m + 1
    BY <1>2, <2>1, <2>2, Zenon
  <2>4. k + m + 1 = k + (m + 1)
    OBVIOUS
  <2>5. QED
    BY <2>2, <2>3, <2>4, Zenon
<1>4. ts2 = [j \in 1 .. m + 1 |-> TaskOf(s, k + j)]
  <2>1. PICK xs : xs = [j \in Nat |-> TaskOf(s, k + j)]
    OBVIOUS
  <2>2. [j \in 1 .. m |-> xs[j]] = ts
    <3>1. \A j \in 1 .. m : xs[j] = TaskOf(s, k + j)
      BY <2>1
    <3>2. [j \in 1 .. m |-> xs[j]] = [j \in 1 .. m |-> TaskOf(s, k + j)]
      BY <3>1, Zenon
    <3>3. QED
      BY <1>2, <1>3, <3>2, Zenon
  <2>3. xs[m + 1] = TaskOf(s, n)
    <3>1. m + 1 \in Nat
      BY <1>3
    <3>2. xs[m + 1] = TaskOf(s, k + (m + 1))
      BY <2>1, <3>1, Zenon
    <3>3. QED
      BY <1>3, <3>2, Zenon
  <2>4. TaskOf(s, n) = [f |-> fr, payload |-> SubSeq(p.mem, 1, fr.len)]
    BY <1>2, Zenon DEF TaskOf, Viewable
  <2>5. Append([j \in 1 .. m |-> xs[j]], xs[m + 1]) = [j \in 1 .. m + 1 |-> xs[j]]
    BY <1>3, OneMore, Zenon
  <2>6. \A j \in 1 .. m + 1 : xs[j] = TaskOf(s, k + j)
    BY <1>3, <2>1
  <2>7. [j \in 1 .. m + 1 |-> xs[j]] = [j \in 1 .. m + 1 |-> TaskOf(s, k + j)]
    BY <2>6, Zenon
  <2>8. QED
    BY <2>2, <2>3, <2>4, <2>5, <2>7, Zenon DEF EnqueueTo
<1>5. Len(ts2) = m + 1
  BY <1>3, <1>4
<1>6. Order(s, p, fr2, ts2, rc, n)
  <2>1. Count(fr2, ts2, rc) = Len(rc) + Len(ts2) + 0
    BY <1>1, Zenon DEF Count
  <2>2. n = Count(fr2, ts2, rc)
    BY <1>3, <1>5, <2>1
  <2>3. ts2 = [j \in 1 .. Len(ts2) |-> TaskOf(s, Len(rc) + j)]
    BY <1>3, <1>4, <1>5, Zenon
  <2>4. Len(ts2) \in Nat /\ fr2.ready \in BOOLEAN
    <3>1. m + 1 \in Nat
      BY <1>3
    <3>2. fr2.ready \in BOOLEAN
      BY <1>1
    <3>3. QED
      BY <1>5, <3>1, <3>2, Zenon
  <2>5. QED
    BY <1>1, <1>2, <2>2, <2>3, <2>4, Zenon DEF Order
<1>7. Shape(sd, s, al, w, ib, ip, ts2, dd)
  <2>1. sd # "client"
    BY <1>1
  <2>2. QED
    BY <2>1, Zenon DEF Good, Shape
<1>8. Refusal(al, s, p, fr2, dd)
  BY <1>1, Zenon DEF Good, Refusal
<1>9. QED
  BY <1>6, <1>7, <1>8, Zenon DEF Good
-----------------------------------------------------------------------------

\* The first task is taken.
TasksFrom(s, k, m) == [j \in 1 .. m |-> TaskOf(s, k + j)]
FirstTaken(s, k, m, ts) ==
  /\ Head(ts) = TaskOf(s, k + 1) /\ Len(Tail(ts)) = m - 1
  /\ Tail(ts) = TasksFrom(s, k + 1, m - 1)
LEMMA TaskTaken ==
  ASSUME NEW s, NEW k \in Nat, NEW m \in Nat, m > 0, NEW ts, ts = TasksFrom(s, k, m)
  PROVE  FirstTaken(s, k, m, ts)
<1>0. ts = [j \in 1 .. m |-> TaskOf(s, k + j)]
  BY Zenon DEF TasksFrom
<1>1. PICK xs : xs = [j \in Nat |-> TaskOf(s, k + j)]
  OBVIOUS
<1>2. PICK S : S = {xs[j] : j \in 1 .. m + 1}
  OBVIOUS
<1>3. ts = [j \in 1 .. m |-> xs[j]]
  <2>1. \A j \in 1 .. m : xs[j] = TaskOf(s, k + j)
    BY <1>1
  <2>2. [j \in 1 .. m |-> xs[j]] = [j \in 1 .. m |-> TaskOf(s, k + j)]
    BY <2>1, Zenon
  <2>3. QED
    BY <1>0, <2>2, Zenon
<1>4. ts \in Seq(S)
  <2>1. [j \in 1 .. m |-> xs[j]] \in Seq({xs[j] : j \in 1 .. m + 1})
    BY OneMore
  <2>2. QED
    BY <1>2, <1>3, <2>1, Zenon
<1>5. Len(ts) = m /\ \A j \in 1 .. m : ts[j] = xs[j]
  BY <1>3
<1>6. PICK x : x = Tail(ts)
  OBVIOUS
<1>7. x \in Seq(S) /\ Len(x) = m - 1 /\ \A i \in 1 .. m - 1 : x[i] = ts[i + 1]
  <2>1. ts # <<>>
    BY <1>5
  <2>2. /\ Tail(ts) \in Seq(S) /\ Len(Tail(ts)) = Len(ts) - 1
        /\ \A i \in 1 .. Len(Tail(ts)) : Tail(ts)[i] = ts[i + 1]
    BY <1>4, <2>1, HeadTailProperties
  <2>3. Len(ts) - 1 = m - 1
    BY <1>5
  <2>4. QED
    BY <1>6, <2>2, <2>3, Zenon
<1>8. PICK v : v = [j \in 1 .. m - 1 |-> xs[j + 1]]
  OBVIOUS
<1>9. v \in Seq(S) /\ Len(v) = m - 1 /\ \A j \in 1 .. m - 1 : v[j] = xs[j + 1]
  <2>1. \A j \in 1 .. m - 1 : xs[j + 1] \in S
    BY <1>2
  <2>2. QED
    BY <1>8, <2>1
<1>10. ASSUME NEW i \in 1 .. Len(x) PROVE x[i] = v[i]
  <2>1. i \in 1 .. m - 1 /\ i + 1 \in 1 .. m
    BY <1>7
  <2>2. QED
    BY <1>5, <1>7, <1>9, <2>1, Zenon
<1>11. x = v
  <2>1. Len(x) = Len(v)
    BY <1>7, <1>9
  <2>2. QED
    BY <1>7, <1>9, <1>10, <2>1, SeqEqual
<1>12. v = [j \in 1 .. m - 1 |-> TaskOf(s, (k + 1) + j)]
  <2>1. \A j \in 1 .. m - 1 : xs[j + 1] = TaskOf(s, (k + 1) + j)
    <3>1. ASSUME NEW j \in 1 .. m - 1 PROVE xs[j + 1] = TaskOf(s, (k + 1) + j)
      <4>1. j + 1 \in Nat /\ k + (j + 1) = (k + 1) + j
        OBVIOUS
      <4>2. xs[j + 1] = TaskOf(s, k + (j + 1))
        BY <1>1, <4>1, Zenon
      <4>3. QED
        BY <4>1, <4>2, Zenon
    <3>2. QED
      BY <3>1
  <2>2. QED
    BY <1>8, <2>1, Zenon
<1>13. Head(ts) = TaskOf(s, k + 1)
  <2>1. 1 \in 1 .. m /\ 1 \in Nat
    OBVIOUS
  <2>2. ts[1] = TaskOf(s, k + 1)
    BY <1>1, <1>5, <2>1, Zenon
  <2>3. Head(ts) = ts[1]
    OBVIOUS
  <2>4. QED
    BY <2>2, <2>3, Zenon
<1>14. QED
  BY <1>6, <1>7, <1>11, <1>12, <1>13, Zenon DEF TasksFrom, FirstTaken

\* One more message is decoded.
LEMMA GotMore ==
  ASSUME NEW s, NEW k \in Nat, NEW rc, rc = [i \in 1 .. k |-> GotOf(s, i)]
  PROVE  /\ Append(rc, GotOf(s, k + 1)) = [i \in 1 .. k + 1 |-> GotOf(s, i)]
         /\ Len(Append(rc, GotOf(s, k + 1))) = k + 1
<1>1. PICK xs : xs = [j \in Nat |-> GotOf(s, j)]
  OBVIOUS
<1>2. k + 1 \in Nat
  OBVIOUS
<1>3. rc = [j \in 1 .. k |-> xs[j]]
  <2>1. \A j \in 1 .. k : xs[j] = GotOf(s, j)
    BY <1>1
  <2>2. [j \in 1 .. k |-> xs[j]] = [j \in 1 .. k |-> GotOf(s, j)]
    BY <2>1, Zenon
  <2>3. QED
    BY <2>2
<1>4. [j \in 1 .. k + 1 |-> xs[j]] = [j \in 1 .. k + 1 |-> GotOf(s, j)]
  <2>1. \A j \in 1 .. k + 1 : xs[j] = GotOf(s, j)
    BY <1>1
  <2>2. QED
    BY <2>1, Zenon
<1>5. Append([j \in 1 .. k |-> xs[j]], xs[k + 1]) = [j \in 1 .. k + 1 |-> xs[j]]
  BY OneMore, Zenon
<1>6. xs[k + 1] = GotOf(s, k + 1)
  BY <1>1, <1>2, Zenon
<1>7. Append(rc, GotOf(s, k + 1)) = [i \in 1 .. k + 1 |-> GotOf(s, i)]
  BY <1>3, <1>4, <1>5, <1>6, Zenon
<1>8. PICK v : v = [i \in 1 .. k + 1 |-> GotOf(s, i)] /\ Len(v) = k + 1
  <2>1. PICK q \in Nat : q = k + 1
    BY <1>2
  <2>2. PICK v : v = [i \in 1 .. q |-> GotOf(s, i)]
    OBVIOUS
  <2>3. Len(v) = q
    BY <2>1, <2>2
  <2>4. QED
    BY <2>1, <2>2, <2>3, Zenon
<1>9. QED
  BY <1>7, <1>8, Zenon

WorkTo(s, ts, rc, ts2, rc2) ==
  /\ ts # <<>>
  /\ rc2 = Append(rc, DecodedOf(s, Len(rc) + 1, Head(ts).f, Head(ts).payload))
  /\ ts2 = Tail(ts)

LEMMA WorkStep ==
  ASSUME NEW sd, NEW s, NEW al, NEW w, NEW p, NEW ib, NEW ip, NEW fr, NEW ts, NEW rc, NEW dd,
         NEW n, NEW F, Good(sd, s, al, w, p, ib, ip, fr, ts, rc, dd, n, F),
         NEW ts2, NEW rc2, WorkTo(s, ts, rc, ts2, rc2)
  PROVE  Good(sd, s, al, w, p, ib, ip, fr, ts2, rc2, dd, n, F)
<1>1. /\ n = Count(fr, ts, rc) /\ Len(rc) \in Nat /\ Len(ts) \in Nat
      /\ n <= Len(s)
      /\ rc = [i \in 1 .. Len(rc) |-> GotOf(s, i)]
      /\ ts = [j \in 1 .. Len(ts) |-> TaskOf(s, Len(rc) + j)]
  BY Zenon DEF Good, Order
<1>2. s \in Scripts
  BY Zenon DEF Good, Shape
<1>3. PICK k \in Nat, m \in Nat : k = Len(rc) /\ m = Len(ts)
  BY <1>1, ZenonT(60)
<1>4. PICK b \in {0, 1} : b = (IF fr.ready THEN 1 ELSE 0) /\ n = k + m + b
  <2>1. PICK b \in {0, 1} : b = IF fr.ready THEN 1 ELSE 0
    OBVIOUS
  <2>2. n = k + m + b
    BY <1>1, <1>3, <2>1, Zenon DEF Count
  <2>3. QED
    BY <2>1, <2>2
<1>5. m > 0
  <2>1. ASSUME m = 0 PROVE FALSE
    <3>1. ts = [j \in 1 .. 0 |-> TaskOf(s, k + j)]
      BY <1>1, <1>3, <2>1, Zenon
    <3>2. ts = <<>>
      BY <3>1
    <3>3. QED
      BY <3>2, Zenon DEF WorkTo
  <2>2. QED
    BY <1>3, <2>1
<1>6. /\ Head(ts) = TaskOf(s, k + 1) /\ Len(Tail(ts)) = m - 1
      /\ Tail(ts) = TasksFrom(s, k + 1, m - 1)
  <2>1. ts = TasksFrom(s, k, m)
    BY <1>1, <1>3, Zenon DEF TasksFrom
  <2>2. QED
    <3>1. FirstTaken(s, k, m, ts)
      BY <1>3, <1>5, <2>1, TaskTaken
    <3>2. QED
      BY <3>1, Zenon DEF FirstTaken
<1>7. PICK i \in 1 .. Len(s) : i = k + 1
  <2>1. Len(s) \in Nat
    BY <1>2, ScriptFacts
  <2>2. n <= Len(s)
    BY <1>1
  <2>3. k + 1 \in 1 .. Len(s)
    BY <1>4, <1>5, <2>1, <2>2
  <2>4. QED
    BY <2>3
<1>8. Head(ts).f = OutOf(s, i) /\ Head(ts).payload = Payload(s[i])
  <2>1. Head(ts) = [f |-> OutOf(s, i), payload |-> Payload(s[i])]
    BY <1>6, <1>7, Zenon DEF TaskOf
  <2>2. QED
    BY <2>1
<1>9. rc2 = Append(rc, GotOf(s, i))
  <2>1. DecodedOf(s, i, OutOf(s, i), Payload(s[i])) = GotOf(s, i)
    BY <1>2, DecodedIs
  <2>2. rc2 = Append(rc, DecodedOf(s, k + 1, Head(ts).f, Head(ts).payload))
    BY <1>3, Zenon DEF WorkTo
  <2>3. QED
    BY <1>7, <1>8, <2>1, <2>2, Zenon
<1>10. Len(rc2) = i /\ rc2 = [j \in 1 .. i |-> GotOf(s, j)]
  <2>1. rc = [j \in 1 .. k |-> GotOf(s, j)]
    BY <1>1, <1>3, Zenon
  <2>2. /\ Append(rc, GotOf(s, k + 1)) = [j \in 1 .. k + 1 |-> GotOf(s, j)]
        /\ Len(Append(rc, GotOf(s, k + 1))) = k + 1
    BY <2>1, GotMore
  <2>3. QED
    BY <1>7, <1>9, <2>2, Zenon
<1>11. ts2 = Tail(ts) /\ Len(ts2) = m - 1 /\ ts2 = [j \in 1 .. m - 1 |-> TaskOf(s, i + j)]
  BY <1>6, <1>7, Zenon DEF WorkTo, TasksFrom
<1>12. Order(s, p, fr, ts2, rc2, n)
  <2>1. n = Count(fr, ts2, rc2)
    <3>1. Count(fr, ts2, rc2) = i + (m - 1) + b
      BY <1>4, <1>10, <1>11, Zenon DEF Count
    <3>2. n = k + m + b /\ i = k + 1
      BY <1>4, <1>7
    <3>3. QED
      BY <3>1, <3>2
  <2>2. Len(rc2) \in Nat /\ Len(ts2) \in Nat
    <3>1. i \in Nat /\ m - 1 \in Nat
      BY <1>5, <1>7
    <3>2. QED
      BY <1>10, <1>11, <3>1, Zenon
  <2>3. rc2 = [j \in 1 .. Len(rc2) |-> GotOf(s, j)]
    BY <1>10, Zenon
  <2>4. ts2 = [j \in 1 .. Len(ts2) |-> TaskOf(s, Len(rc2) + j)]
    BY <1>10, <1>11, Zenon
  <2>5. Order(s, p, fr, ts, rc, n)
    BY Zenon DEF Good
  <2>6. QED
    BY <2>1, <2>2, <2>3, <2>4, <2>5, Zenon DEF Order
<1>13. Shape(sd, s, al, w, ib, ip, ts2, dd)
  <2>1. sd # "client"
    <3>1. sd = "client" => ts = <<>>
      BY Zenon DEF Good, Shape
    <3>2. ts # <<>>
      BY Zenon DEF WorkTo
    <3>3. QED
      BY <3>1, <3>2
  <2>2. QED
    BY <2>1, Zenon DEF Good, Shape
<1>14. QED
  BY <1>12, <1>13, Zenon DEF Good

ReadTo(sd, s, p, fr, rc, fr2, rc2) ==
  /\ sd = "client" /\ fr.ready
  /\ rc2 = Append(rc, DecodedOf(s, Len(rc) + 1, fr, SubSeq(p.mem, 1, fr.len)))
  /\ fr2 = NoFrame

LEMMA ReadStep ==
  ASSUME NEW sd, NEW s, NEW al, NEW w, NEW p, NEW ib, NEW ip, NEW fr, NEW ts, NEW rc, NEW dd,
         NEW n, NEW F, Good(sd, s, al, w, p, ib, ip, fr, ts, rc, dd, n, F),
         NEW fr2, NEW rc2, ReadTo(sd, s, p, fr, rc, fr2, rc2)
  PROVE  Good(sd, s, al, w, p, ib, ip, fr2, ts, rc2, dd, n, F)
<1>1. sd = "client" /\ fr.ready /\ fr2 = NoFrame /\ fr2.ready = FALSE
  BY NoFrameIs, Zenon DEF ReadTo
<1>2. ts = <<>> /\ s \in Scripts
  BY <1>1, Zenon DEF Good, Shape
<1>3. /\ n = Count(fr, ts, rc) /\ Len(rc) \in Nat
      /\ n <= Len(s) /\ \A i \in 1 .. n : Proper(s[i])
      /\ rc = [i \in 1 .. Len(rc) |-> GotOf(s, i)]
      /\ ts = [j \in 1 .. Len(ts) |-> TaskOf(s, Len(rc) + j)]
      /\ fr = OutOf(s, n) /\ Viewable(s, p, fr, n)
  BY <1>1, Zenon DEF Good, Order
<1>4. Len(ts) = 0
  BY <1>2
<1>5. PICK k \in Nat : k = Len(rc) /\ n = k + 1
  <2>1. Count(fr, ts, rc) = Len(rc) + Len(ts) + 1
    BY <1>1, ZenonT(60) DEF Count
  <2>2. PICK k \in Nat : k = Len(rc)
    BY <1>3, Zenon
  <2>3. n = k + 0 + 1
    BY <1>3, <1>4, <2>1, <2>2, Zenon
  <2>4. QED
    BY <2>2, <2>3
<1>6. PICK i \in 1 .. Len(s) : i = n
  <2>1. Len(s) \in Nat
    BY <1>2, ScriptFacts
  <2>2. n <= Len(s)
    BY <1>3
  <2>3. QED
    BY <1>5, <2>1, <2>2
<1>7. rc2 = Append(rc, GotOf(s, k + 1))
  <2>1. DecodedOf(s, i, OutOf(s, i), Payload(s[i])) = GotOf(s, i)
    BY <1>2, DecodedIs
  <2>2. rc2 = Append(rc, DecodedOf(s, k + 1, fr, SubSeq(p.mem, 1, fr.len)))
    BY <1>5, Zenon DEF ReadTo
  <2>3. SubSeq(p.mem, 1, fr.len) = Payload(s[n])
    BY <1>3, Zenon DEF Viewable
  <2>4. QED
    BY <1>3, <1>5, <1>6, <2>1, <2>2, <2>3, Zenon
<1>8. Len(rc2) = n /\ rc2 = [j \in 1 .. n |-> GotOf(s, j)]
  <2>1. rc = [j \in 1 .. k |-> GotOf(s, j)]
    BY <1>3, <1>5, Zenon
  <2>2. /\ Append(rc, GotOf(s, k + 1)) = [j \in 1 .. k + 1 |-> GotOf(s, j)]
        /\ Len(Append(rc, GotOf(s, k + 1))) = k + 1
    BY <2>1, GotMore
  <2>3. QED
    BY <1>5, <1>7, <2>2, Zenon
<1>9. Order(s, p, fr2, ts, rc2, n)
  <2>1. n = Count(fr2, ts, rc2)
    <3>1. Count(fr2, ts, rc2) = n + 0 + 0
      BY <1>1, <1>4, <1>8, Zenon DEF Count
    <3>2. n + 0 + 0 = n
      BY <1>5
    <3>3. QED
      BY <3>1, <3>2
  <2>2. Len(rc2) \in Nat /\ Len(ts) \in Nat /\ fr2.ready \in BOOLEAN
    <3>1. n \in Nat
      BY <1>5
    <3>2. 0 \in Nat /\ FALSE \in BOOLEAN
      OBVIOUS
    <3>3. QED
      BY <1>1, <1>4, <1>8, <3>1, <3>2, Zenon
  <2>3. rc2 = [j \in 1 .. Len(rc2) |-> GotOf(s, j)]
    BY <1>8, Zenon
  <2>4. ts = [j \in 1 .. Len(ts) |-> TaskOf(s, Len(rc2) + j)]
    <3>1. [j \in 1 .. 0 |-> TaskOf(s, Len(rc2) + j)] = <<>>
      OBVIOUS
    <3>2. QED
      BY <1>2, <1>4, <3>1, Zenon
  <2>5. QED
    BY <1>1, <1>3, <2>1, <2>2, <2>3, <2>4, Zenon DEF Order
<1>10. Refusal(al, s, p, fr2, dd)
  BY <1>1, Zenon DEF Good, Refusal
<1>11. QED
  BY <1>9, <1>10, Zenon DEF Good
-----------------------------------------------------------------------------

(* Nothing has been read: everything is ahead.                             *)

Fresh(w, p, ib, ip, fr, ts, rc, dd, F) ==
  /\ w = FlattenSeq(F) /\ p = NewParser /\ ib = <<>> /\ ip = 0
  /\ fr = NoFrame /\ ts = <<>> /\ rc = <<>> /\ dd = FALSE

LEMMA NewParserOK ==
  ASSUME NEW p, p = NewParser
  PROVE  ParserOK(p) /\ p.done = FALSE /\ p.header = <<>> /\ Kept(p) = <<>>
<1>1. p = Rec(<<>>, FALSE, 0, 0, 0, <<>>, 0, 0)
  BY Zenon DEF NewParser, Rec
<1>2. ParserOK(p)
  <2>1. MaxPayload \in Nat /\ 0 < 2 * MaxPayload
    <3>1. MaxPayload \in Nat /\ MinCap \in 1 .. 2 * MaxPayload - 1
      BY WireAssumption, Zenon
    <3>2. QED
      BY <3>1
  <2>2. PICK h, c : h = <<>> /\ c = 0
    OBVIOUS
  <2>3. h \in Seq(Nat) /\ c \in Nat /\ Len(h) <= 20 /\ Len(h) <= MaxPayload /\ c < 2 * MaxPayload
    BY <2>1, <2>2
  <2>4. ParserOK(Rec(h, FALSE, 0, 0, 0, h, 0, c))
    BY <2>3, IdleOK
  <2>5. QED
    BY <1>1, <2>2, <2>4, Zenon
<1>3. p.done = FALSE /\ p.header = <<>> /\ p.mem = <<>> /\ p.len = 0
  BY DEF NewParser
<1>4. Kept(p) = <<>>
  <2>1. SubSeq(p.mem, 1, p.len) = <<>>
    BY <1>3
  <2>2. <<>> \o <<>> = <<>>
    OBVIOUS
  <2>3. QED
    BY <1>3, <2>1, <2>2, Zenon DEF Kept
<1>5. QED
  BY <1>2, <1>3, <1>4

LEMMA FreshOrder ==
  ASSUME NEW s \in Scripts, NEW p, NEW fr, NEW ts, NEW rc, fr = NoFrame, ts = <<>>, rc = <<>>
  PROVE  Order(s, p, fr, ts, rc, 0)
<1>1. fr.ready = FALSE
  BY NoFrameIs, Zenon
<1>2. Len(rc) = 0 /\ Len(ts) = 0
  OBVIOUS
<1>3. PICK c : c = IF fr.ready THEN 1 ELSE 0
  OBVIOUS
<1>4. c = 0
  BY <1>1, <1>3
<1>5. 0 = Count(fr, ts, rc)
  <2>1. Count(fr, ts, rc) = Len(rc) + Len(ts) + c
    BY <1>3, Zenon DEF Count
  <2>2. Len(rc) + Len(ts) + c = 0
    BY <1>2, <1>4
  <2>3. QED
    BY <2>1, <2>2, Zenon
<1>6. 0 <= Len(s) /\ Len(rc) \in Nat /\ Len(ts) \in Nat
  BY <1>2, ScriptFacts
<1>7. \A i \in 1 .. 0 : Proper(s[i])
  OBVIOUS
<1>8. rc = [i \in 1 .. Len(rc) |-> GotOf(s, i)]
  <2>1. 1 .. Len(rc) = {}
    BY <1>2
  <2>2. [i \in {} |-> GotOf(s, i)] = <<>>
    OBVIOUS
  <2>3. QED
    BY <2>1, <2>2, Zenon
<1>9. ts = [j \in 1 .. Len(ts) |-> TaskOf(s, Len(rc) + j)]
  <2>1. 1 .. Len(ts) = {}
    BY <1>2
  <2>2. [j \in {} |-> TaskOf(s, Len(rc) + j)] = <<>>
    OBVIOUS
  <2>3. QED
    BY <2>1, <2>2, Zenon
<1>10. QED
  BY <1>1, <1>5, <1>6, <1>7, <1>8, <1>9, Zenon DEF Order

LEMMA FreshGood ==
  ASSUME NEW sd \in {"server", "client"}, NEW s \in Scripts, NEW al \in BOOLEAN, NEW F,
         TapeOK(al, s, F), NEW w, NEW p, NEW ib, NEW ip, NEW fr, NEW ts, NEW rc, NEW dd,
         Fresh(w, p, ib, ip, fr, ts, rc, dd, F)
  PROVE  \E n : Good(sd, s, al, w, p, ib, ip, fr, ts, rc, dd, n, F)
<1>1. /\ w = FlattenSeq(F) /\ p = NewParser /\ ib = <<>> /\ ip = 0
      /\ fr = NoFrame /\ ts = <<>> /\ rc = <<>> /\ dd = FALSE
  BY Zenon DEF Fresh
<1>2. ParserOK(p) /\ p.done = FALSE /\ p.header = <<>> /\ Kept(p) = <<>>
  BY <1>1, NewParserOK
<1>3. PICK n : n = 0 /\ Order(s, p, fr, ts, rc, n)
  BY <1>1, FreshOrder
<1>4. F \in Seq(Seq(Nat)) /\ Len(F) = Len(s) /\ n \in 0 .. Len(s)
  <2>1. F \in Seq(Seq(Nat)) /\ Len(F) = Len(s)
    BY Zenon DEF TapeOK
  <2>2. n \in 0 .. Len(s)
    BY <1>3, ScriptFacts
  <2>3. QED
    BY <2>1, <2>2
<1>5. w = Behind(F, n) /\ w \in Seq(Nat)
  <2>1. SubSeq(F, 1, Len(F)) = F
    BY <1>4, SubSeqFull
  <2>2. n + 1 = 1
    BY <1>3
  <2>3. Behind(F, n) \in Seq(Nat)
    <3>1. TapeOK(al, s, F)
      OBVIOUS
    <3>2. Opened(al, s, F, n)
      BY <1>4, <3>1, BehindIs
    <3>3. QED
      BY <3>2, Zenon DEF Opened
  <2>4. QED
    BY <1>1, <2>1, <2>2, <2>3, Zenon DEF Behind
<1>6. Stream(dd, p, ib, ip, w, n, F)
  <2>1. SubSeq(ib, ip + 1, Len(ib)) = <<>>
    BY <1>1
  <2>2. <<>> \o w = w
    BY <1>5, ConcatEmptySeq
  <2>3. Len(p.header) < 20
    BY <1>2
  <2>4. QED
    BY <1>2, <1>5, <2>1, <2>2, <2>3, Zenon DEF Stream
<1>7. Shape(sd, s, al, w, ib, ip, ts, dd)
  <2>1. <<>> \in Seq(Nat) /\ 0 \in 0 .. Len(<<>>) /\ FALSE \in BOOLEAN
    BY EmptySeq, LenProperties
  <2>3. ib \in Seq(Nat) /\ ip \in 0 .. Len(ib) /\ dd \in BOOLEAN
    BY <1>1, <2>1, Zenon
  <2>2. QED
    BY <1>1, <1>5, <2>3, Zenon DEF Shape
<1>8. Refusal(al, s, p, fr, dd)
  BY <1>1, Zenon DEF Refusal
<1>9. QED
  BY <1>2, <1>3, <1>6, <1>7, <1>8, Zenon DEF Good
-----------------------------------------------------------------------------

(* The invariant holds and is kept.                                        *)

LEMMA GoodStart ==
  ASSUME NEW F \in Tapes, NEW n,
         Good(side, script, altered, wire, parser, inbuf, inpos, frame, tasks, received, dead, n, F)
  PROVE  WireInvariant
<1>1. n = HandedOut
  BY Zenon DEF Good, Order, HandedOut, Count
<1>2. \E G \in Tapes : Good(side, script, altered, wire, parser, inbuf, inpos, frame, tasks, received,
                            dead, HandedOut, G)
  BY <1>1, Zenon
<1>3. QED
  BY <1>2, GoodIs, Zenon

LEMMA GoodPrime ==
  ASSUME NEW F \in Tapes', NEW n,
         Good(side', script', altered', wire', parser', inbuf', inpos', frame', tasks', received',
              dead', n, F)
  PROVE  WireInvariant'
<1>1. HandedOut' = Count(frame', tasks', received') /\ n = HandedOut'
  BY Zenon DEF Good, Order, HandedOut, Count
<1>2. Shapes' <=> Shape(side', script', altered', wire', inbuf', inpos', tasks', dead')
  BY Zenon DEF Shapes, Shape
<1>3. \A i : Out(i)' = OutOf(script', i) /\ Task(i)' = TaskOf(script', i) /\ Got(i)' = GotOf(script', i)
  BY Zenon DEF Out, Task, Got, OutOf, TaskOf, GotOf
<1>4. [i \in 1 .. Len(received') |-> Got(i)'] = [i \in 1 .. Len(received') |-> GotOf(script', i)]
  BY <1>3, Zenon
<1>5. [j \in 1 .. Len(tasks') |-> Task(Len(received) + j)']
        = [j \in 1 .. Len(tasks') |-> TaskOf(script', Len(received') + j)]
  BY Zenon DEF Task, Out, TaskOf, OutOf
<1>6. InOrder' <=> Order(script', parser', frame', tasks', received', HandedOut')
  BY <1>1, <1>3, <1>4, <1>5, Zenon DEF InOrder, Order, Viewable, View, Task, Out, TaskOf, OutOf, Got, GotOf
<1>7. Refused' <=> Refusal(altered', script', parser', frame', dead')
  BY Zenon DEF Refused, Refusal, HeaderSize
<1>8. Streamed(F)' <=> Stream(dead', parser', inbuf', inpos', wire', HandedOut', F)
  BY Zenon DEF Streamed, Stream, HeaderSize, Behind, Ahead, Held, Kept, Unfed
<1>9. \E G \in Tapes' : Streamed(G)'
  BY <1>1, <1>8, Zenon DEF Good
<1>10. QED
  BY <1>1, <1>2, <1>6, <1>7, <1>9, Zenon DEF WireInvariant, Good

LEMMA SameTapes ==
  ASSUME UNCHANGED <<script, altered>>
  PROVE  Tapes' = Tapes
<1>1. script' = script /\ altered' = altered
  OBVIOUS
<1>2. Sent' = Sent
  BY <1>1, Zenon DEF Sent
<1>3. \A i, b : Altered(i, b)' = Altered(i, b)
  BY <1>2, Zenon DEF Altered
<1>4. CASE altered
  <2>1. Tapes = {Altered(i, b) : i \in DOMAIN script, b \in 1 .. HeaderSize}
    BY <1>4 DEF Tapes
  <2>2. Tapes' = {Altered(i, b)' : i \in DOMAIN script', b \in 1 .. HeaderSize}
    <3>1. altered'
      BY <1>1, <1>4, Zenon
    <3>2. QED
      BY <3>1 DEF Tapes
  <2>3. QED
    BY <1>1, <1>3, <2>1, <2>2
<1>5. CASE ~ altered
  <2>1. Tapes = {Sent}
    BY <1>5 DEF Tapes
  <2>2. Tapes' = {Sent'}
    <3>1. ~ altered'
      BY <1>1, <1>5
    <3>2. QED
      BY <3>1 DEF Tapes
  <2>3. QED
    BY <1>2, <2>1, <2>2, Zenon
<1>6. QED
  BY <1>4, <1>5

LEMMA WireInit == Init => WireInvariant
<1> SUFFICES ASSUME Init PROVE WireInvariant
  OBVIOUS
<1>1. /\ side \in {"server", "client"} /\ script \in Scripts /\ altered = FALSE
      /\ Fresh(wire, parser, inbuf, inpos, frame, tasks, received, dead, Sent)
  BY Zenon DEF Init, Untouched, Fresh
<1>2. altered \in BOOLEAN /\ Sent \in Tapes
  <2>1. Tapes = {Sent}
    <3>1. ~ altered
      BY <1>1
    <3>2. QED
      BY <3>1 DEF Tapes
  <2>2. Sent \in {Sent}
    OBVIOUS
  <2>3. QED
    BY <1>1, <2>1, <2>2, Zenon
<1>3. TapeOK(altered, script, Sent)
  BY <1>1, <1>2, TapesOK, Zenon
<1>4. PICK n : Good(side, script, altered, wire, parser, inbuf, inpos, frame, tasks, received, dead, n, Sent)
  BY <1>1, <1>2, <1>3, FreshGood, Zenon
<1>5. QED
  BY <1>2, <1>4, GoodStart, Zenon
-----------------------------------------------------------------------------

LEMMA WireNext == WireInvariant /\ [Next]_vars => WireInvariant'
<1> SUFFICES ASSUME WireInvariant, [Next]_vars PROVE WireInvariant'
  OBVIOUS
<1>1. PICK F, n : /\ F \in Tapes
                  /\ Good(side, script, altered, wire, parser, inbuf, inpos, frame, tasks, received,
                          dead, n, F)
  BY GoodIs, Zenon
<1>2. ASSUME UNCHANGED <<side, script, altered>>, NEW m,
             Good(side, script, altered, wire', parser', inbuf', inpos', frame', tasks', received',
                  dead', m, F)
      PROVE  WireInvariant'
  <2>1. F \in Tapes'
    BY <1>1, <1>2, SameTapes
  <2>2. side' = side /\ script' = script /\ altered' = altered
    BY <1>2
  <2>3. QED
    BY <1>2, <2>1, <2>2, GoodPrime, Zenon
<1>3. CASE recv
  <2>1. RecvTo(side, wire, inbuf, inpos, wire', inbuf', inpos')
    BY <1>3, Zenon DEF recv, RecvTo, Unfed, Buffered
  <2>2. /\ side' = side /\ script' = script /\ altered' = altered /\ parser' = parser /\ frame' = frame
        /\ tasks' = tasks /\ received' = received /\ dead' = dead
    BY <1>3 DEF recv
  <2>3. Good(side, script, altered, wire', parser, inbuf', inpos', frame, tasks, received, dead, n, F)
    BY <1>1, <2>1, RecvStep, Zenon
  <2>4. QED
    BY <1>2, <2>2, <2>3, Zenon
<1>4. CASE feed
  <2>1. PICK U, f : U = Unfed /\ f = Feed(parser, U)
    OBVIOUS
  <2>2. FeedTo(side, parser, inbuf, inpos, frame, dead, U, f, parser', inbuf', inpos', frame', dead')
    BY <1>4, <2>1, Zenon DEF feed, FeedTo, Unfed
  <2>3. FeedBefore(side, script, altered, wire, parser, inbuf, inpos, frame, tasks, received, dead,
                   n, F, U, f, parser', inbuf', inpos', frame', dead')
    BY <1>1, <2>2, Zenon DEF FeedBefore
  <2>4. PICK m : Good(side, script, altered, wire, parser', inbuf', inpos', frame', tasks, received,
                      dead', m, F)
    BY <2>3, FeedStep, Zenon
  <2>5. /\ side' = side /\ script' = script /\ altered' = altered /\ wire' = wire
        /\ tasks' = tasks /\ received' = received
    BY <1>4 DEF feed
  <2>6. QED
    BY <1>2, <2>4, <2>5, Zenon
<1>5. CASE recv_dead
  <2>1. RecvDeadTo(wire, wire', inbuf', inpos') /\ dead
    BY <1>5, Zenon DEF recv_dead, RecvDeadTo
  <2>2. /\ side' = side /\ script' = script /\ altered' = altered /\ parser' = parser /\ frame' = frame
        /\ tasks' = tasks /\ received' = received /\ dead' = dead
    BY <1>5 DEF recv_dead
  <2>3. Good(side, script, altered, wire', parser, inbuf', inpos', frame, tasks, received, dead, n, F)
    BY <1>1, <2>1, RecvDeadStep, Zenon
  <2>4. QED
    BY <1>2, <2>2, <2>3, Zenon
<1>6. CASE enqueue
  <2>1. EnqueueTo(side, parser, frame, tasks, frame', tasks')
    BY <1>6, Zenon DEF enqueue, EnqueueTo, View
  <2>2. /\ side' = side /\ script' = script /\ altered' = altered /\ wire' = wire /\ parser' = parser
        /\ inbuf' = inbuf /\ inpos' = inpos /\ received' = received /\ dead' = dead
    BY <1>6 DEF enqueue
  <2>3. Good(side, script, altered, wire, parser, inbuf, inpos, frame', tasks', received, dead, n, F)
    BY <1>1, <2>1, EnqueueStep, Zenon
  <2>4. QED
    BY <1>2, <2>2, <2>3, Zenon
<1>7. CASE work
  <2>1. WorkTo(script, tasks, received, tasks', received')
    BY <1>7, Zenon DEF work, WorkTo, Decoded, DecodedOf, FieldsOf
  <2>2. /\ side' = side /\ script' = script /\ altered' = altered /\ wire' = wire /\ parser' = parser
        /\ inbuf' = inbuf /\ inpos' = inpos /\ frame' = frame /\ dead' = dead
    BY <1>7 DEF work
  <2>3. Good(side, script, altered, wire, parser, inbuf, inpos, frame, tasks', received', dead, n, F)
    BY <1>1, <2>1, WorkStep, Zenon
  <2>4. QED
    BY <1>2, <2>2, <2>3, Zenon
<1>8. CASE read_frame
  <2>1. ReadTo(side, script, parser, frame, received, frame', received')
    BY <1>8, Zenon DEF read_frame, ReadTo, Decoded, DecodedOf, FieldsOf, View
  <2>2. /\ side' = side /\ script' = script /\ altered' = altered /\ wire' = wire /\ parser' = parser
        /\ inbuf' = inbuf /\ inpos' = inpos /\ tasks' = tasks /\ dead' = dead
    BY <1>8 DEF read_frame
  <2>3. Good(side, script, altered, wire, parser, inbuf, inpos, frame', tasks, received', dead, n, F)
    BY <1>1, <2>1, ReadStep, Zenon
  <2>4. QED
    BY <1>2, <2>2, <2>3, Zenon
<1>9. CASE alter
  <2>1. PICK i, b : i \in DOMAIN script /\ b \in 1 .. HeaderSize /\ wire' = FlattenSeq(Altered(i, b))
    BY <1>9, Zenon DEF alter
  <2>2. /\ altered' = TRUE /\ side' = side /\ script' = script /\ parser' = parser /\ inbuf' = inbuf
        /\ inpos' = inpos /\ frame' = frame /\ tasks' = tasks /\ received' = received /\ dead' = dead
    BY <1>9 DEF alter
  <2>3. side' \in {"server", "client"} /\ script' \in Scripts /\ altered' \in BOOLEAN
    BY <1>1, <2>2, GoodParts
  <2>4. PICK G : G = Altered(i, b)
    OBVIOUS
  <2>5. G = Altered(i, b)'
    BY <2>2, <2>4, Zenon DEF Altered, Sent
  <2>6. G \in Tapes'
    <3>1. altered' /\ i \in DOMAIN script'
      BY <2>1, <2>2
    <3>2. QED
      BY <2>1, <2>5, <3>1 DEF Tapes
  <2>7. TapeOK(altered', script', G)
    <3>1. G = AlteredBy(script', i, b)
      BY <2>5, Zenon DEF Altered, AlteredBy, Sent, SentBy
    <3>2. i \in 1 .. Len(script') /\ b \in 1 .. 20
      BY <2>1, <2>2, <2>3, ScriptFacts DEF HeaderSize
    <3>3. TapeOK(TRUE, script', AlteredBy(script', i, b))
      BY <2>3, <3>2, AlteredIs
    <3>4. QED
      BY <2>2, <3>1, <3>3, Zenon
  <2>8. Fresh(wire', parser', inbuf', inpos', frame', tasks', received', dead', G)
    <3>1. /\ parser = NewParser /\ inbuf = <<>> /\ inpos = 0 /\ frame = NoFrame /\ tasks = <<>>
          /\ received = <<>> /\ dead = FALSE
      BY <1>9, Zenon DEF alter, Untouched
    <3>2. QED
      BY <2>1, <2>2, <2>4, <3>1, Zenon DEF Fresh
  <2>9. PICK m : Good(side', script', altered', wire', parser', inbuf', inpos', frame', tasks', received',
                      dead', m, G)
    BY <2>3, <2>7, <2>8, FreshGood, Zenon
  <2>10. QED
    BY <2>6, <2>9, GoodPrime, Zenon
<1>10. CASE UNCHANGED vars
  <2>1. /\ side' = side /\ script' = script /\ altered' = altered /\ wire' = wire /\ parser' = parser
        /\ inbuf' = inbuf /\ inpos' = inpos /\ frame' = frame /\ tasks' = tasks /\ received' = received
        /\ dead' = dead
    BY <1>10 DEF vars
  <2>2. QED
    BY <1>1, <1>2, <2>1, Zenon
<1>11. QED
  BY <1>3, <1>4, <1>5, <1>6, <1>7, <1>8, <1>9, <1>10, Zenon DEF Next

\* The parser never loses, doubles or reorders what it is fed: the bytes that it
\* keeps, those that were read and those on the wire are the frames that are
\* still to come (fr_frame_parser_feed and the two read loops).
THEOREM WireInvariantHolds == Spec => []WireInvariant
<1>1. Init => WireInvariant
  BY WireInit
<1>2. WireInvariant /\ [Next]_vars => WireInvariant'
  BY WireNext
<1>3. QED
  BY <1>1, <1>2, PTL DEF Spec
-----------------------------------------------------------------------------

(* What the invariant says of the properties.                              *)

LEMMA Known ==
  ASSUME WireInvariant
  PROVE  \E F, n : /\ Good(side, script, altered, wire, parser, inbuf, inpos, frame, tasks, received,
                           dead, n, F)
                   /\ n \in 0 .. Len(script) /\ Len(received) \in Nat /\ Len(tasks) \in Nat
                   /\ Len(received) + Len(tasks) <= n /\ DOMAIN script = 1 .. Len(script)
                   /\ frame.ready => n = Len(received) + Len(tasks) + 1
                   /\ ~ frame.ready => n = Len(received) + Len(tasks)
<1>1. PICK F, n : Good(side, script, altered, wire, parser, inbuf, inpos, frame, tasks, received,
                       dead, n, F)
  BY GoodIs, Zenon
<1>2. /\ n \in 0 .. Len(script) /\ Len(received) \in Nat /\ Len(tasks) \in Nat
      /\ frame.ready \in BOOLEAN /\ n = Count(frame, tasks, received) /\ script \in Scripts
  <2>1. n \in 0 .. Len(script) /\ script \in Scripts
    BY <1>1, GoodParts, Zenon
  <2>2. /\ Len(received) \in Nat /\ Len(tasks) \in Nat /\ frame.ready \in BOOLEAN
        /\ n = Count(frame, tasks, received)
    BY <1>1, Zenon DEF Good, Order
  <2>3. QED
    BY <2>1, <2>2
<1>3. DOMAIN script = 1 .. Len(script)
  BY <1>2, ScriptFacts
<1>4. PICK k : k = IF frame.ready THEN 1 ELSE 0
  OBVIOUS
<1>5. n = Len(received) + Len(tasks) + k
  BY <1>2, <1>4, Zenon DEF Count
<1>6. PICK a \in Nat, b \in Nat : a = Len(received) /\ b = Len(tasks)
  BY <1>2
<1>7. CASE frame.ready
  <2>1. n = a + b + 1
    BY <1>4, <1>5, <1>6, <1>7
  <2>2. a + b <= n
    BY <2>1
  <2>3. QED
    BY <1>1, <1>2, <1>3, <1>6, <1>7, <2>1, <2>2, Zenon
<1>8. CASE ~ frame.ready
  <2>1. n = a + b
    BY <1>4, <1>5, <1>6, <1>8
  <2>2. a + b <= n
    BY <2>1
  <2>3. QED
    BY <1>1, <1>2, <1>3, <1>6, <1>8, <2>1, <2>2, Zenon
<1>9. QED
  BY <1>7, <1>8

LEMMA SafeReceived == WireInvariant => ReceivedIsSent
<1> SUFFICES ASSUME WireInvariant, NEW i \in DOMAIN received
             PROVE  /\ i <= Len(script)
                    /\ received[i].req = i /\ received[i].type = Kinds[script[i].kind].type
                    /\ received[i].in.ok /\ received[i].in.vals = script[i].v
  BY DEF ReceivedIsSent
<1>1. PICK F, n : /\ Good(side, script, altered, wire, parser, inbuf, inpos, frame, tasks, received,
                          dead, n, F)
                  /\ n \in 0 .. Len(script) /\ Len(received) \in Nat /\ Len(tasks) \in Nat
                  /\ Len(received) + Len(tasks) <= n /\ DOMAIN script = 1 .. Len(script)
  BY Known, Zenon
<1>2. received = [j \in 1 .. Len(received) |-> GotOf(script, j)]
  BY <1>1, Zenon DEF Good, Order
<1>3. DOMAIN received = 1 .. Len(received)
  BY <1>2, Zenon
<1>4. received[i] = GotOf(script, i)
  BY <1>2, <1>3, Zenon
<1>5. i <= Len(script)
  <2>1. i \in 1 .. Len(received)
    BY <1>3, Zenon
  <2>2. QED
    BY <1>1, <2>1
<1>6. QED
  BY <1>4, <1>5 DEF GotOf

LEMMA SafeHeader == WireInvariant => BadHeaderEnds
<1> SUFFICES ASSUME WireInvariant PROVE BadHeaderEnds
  OBVIOUS
<1>1. PICK F, n : /\ Good(side, script, altered, wire, parser, inbuf, inpos, frame, tasks, received,
                          dead, n, F)
                  /\ n \in 0 .. Len(script) /\ Len(received) \in Nat /\ Len(tasks) \in Nat
                  /\ Len(received) + Len(tasks) <= n /\ DOMAIN script = 1 .. Len(script)
  BY Known, Zenon
<1>2. parser.cap < 2 * MaxPayload /\ Len(parser.mem) <= MaxPayload
  BY <1>1, Zenon DEF Good, ParserOK
<1>3. dead => ~ parser.done /\ ~ frame.ready
  BY <1>1, Zenon DEF Good, Refusal
<1>4. ASSUME NEW i \in DOMAIN script, ~ Proper(script[i])
      PROVE  Len(received) < i
  <2>1. \A j \in 1 .. n : Proper(script[j])
    BY <1>1, Zenon DEF Good, Order
  <2>2. i \notin 1 .. n
    BY <1>4, <2>1, Zenon
  <2>3. i \in 1 .. Len(script)
    BY <1>1, Zenon
  <2>4. n < i
    BY <1>1, <2>2, <2>3
  <2>5. QED
    BY <1>1, <2>3, <2>4
<1>5. QED
  BY <1>2, <1>3, <1>4, Zenon DEF BadHeaderEnds

\* A parser that keeps no more than a header in parts and a payload in parts
\* does not keep a frame.
LEMMA KeepsLess ==
  ASSUME NEW p, ParserOK(p), ~ p.done => Len(p.header) < 20,
         NEW m, NEW i, NEW H, NEW B, NEW Z, PieceOK(FALSE, m, i, H, B), Proper(m),
         Z \in Seq(Nat), Kept(p) = H \o (B \o Z)
  PROVE  FALSE
<1>1. /\ H \in Seq(Nat) /\ B \in Seq(Nat) /\ Len(H) = 20 /\ HeaderOK(H)
      /\ LoadBE(SubSeq(H, 13, 16)) = Len(B)
  BY Zenon DEF PieceOK
<1>2. /\ p.header \in Seq(Nat) /\ p.mem \in Seq(Nat) /\ p.len \in 0 .. Len(p.mem) /\ p.done \in BOOLEAN
      /\ ~ p.done => p.len = 0
  BY ParserRec, Zenon
<1>3. PICK P \in Seq(Nat) : P = SubSeq(p.mem, 1, p.len) /\ Len(P) = p.len
  <2>1. SubSeq(p.mem, 1, p.len) \in Seq(Nat) /\ Len(SubSeq(p.mem, 1, p.len)) = p.len
    BY <1>2, PrefixIs
  <2>2. QED
    BY <2>1, Zenon
<1>4. p.header \o P = H \o (B \o Z)
  BY <1>3, Zenon DEF Kept
<1>5. PICK X \in Seq(Nat) : X = B \o Z /\ Len(X) = Len(B) + Len(Z)
  <2>1. B \o Z \in Seq(Nat) /\ Len(B \o Z) = Len(B) + Len(Z)
    BY <1>1, ConcatProperties
  <2>2. QED
    BY <2>1, Zenon
<1>6. Len(p.header) + Len(P) = 20 + Len(X)
  <2>1. Len(p.header \o P) = Len(p.header) + Len(P) /\ Len(H \o X) = Len(H) + Len(X)
    BY <1>1, <1>2, ConcatProperties
  <2>2. p.header \o P = H \o X
    BY <1>4, <1>5, Zenon
  <2>3. QED
    BY <1>1, <2>1, <2>2, Zenon
<1>7. Len(X) \in Nat /\ Len(B) \in Nat /\ Len(Z) \in Nat /\ Len(P) \in Nat /\ Len(p.header) \in Nat
  BY <1>1, <1>2, LenProperties
<1>8. CASE ~ p.done
  <2>1. Len(p.header) < 20 /\ Len(P) = 0
    BY <1>2, <1>3, <1>8, Zenon
  <2>2. QED
    BY <1>6, <1>7, <2>1
<1>9. CASE p.done
  <2>1. Len(p.header) = 20 /\ p.need = LoadBE(SubSeq(p.header, 13, 16)) /\ p.len < p.need
    BY <1>9, Zenon DEF ParserOK, HeaderSize
  <2>2. p.header = H /\ P = X
    <3>1. p.header \o P = H \o X /\ Len(p.header) = Len(H)
      BY <1>1, <1>4, <1>5, <2>1, Zenon
    <3>2. p.header \in Seq(Nat)
      BY <1>2
    <3>3. QED
      BY <1>1, <3>1, <3>2, SameParts
  <2>3. p.len < Len(B) /\ p.len = Len(B) + Len(Z)
    BY <1>1, <1>3, <1>5, <2>1, <2>2, Zenon
  <2>4. QED
    BY <1>7, <2>3
<1>10. QED
  BY <1>2, <1>8, <1>9

LEMMA SafeDelivery == WireInvariant => AllDelivered
<1> SUFFICES ASSUME WireInvariant, wire = <<>>, Unfed = <<>>, ~ frame.ready, tasks = <<>>, ~ altered,
                    \A i \in DOMAIN script : Proper(script[i])
             PROVE  Len(received) = Len(script)
  BY Zenon DEF AllDelivered
<1>1. PICK F, n : /\ Good(side, script, altered, wire, parser, inbuf, inpos, frame, tasks, received,
                          dead, n, F)
                  /\ n \in 0 .. Len(script) /\ Len(received) \in Nat /\ Len(tasks) \in Nat
                  /\ DOMAIN script = 1 .. Len(script)
                  /\ ~ frame.ready => n = Len(received) + Len(tasks)
  BY Known, Zenon
<1>2. n = Len(received)
  <2>1. Len(tasks) = 0
    OBVIOUS
  <2>2. QED
    BY <1>1, <2>1
<1>3. ~ dead
  BY <1>1, Zenon DEF Good, Refusal
<1>4. ParserOK(parser) /\ (~ parser.done => Len(parser.header) < 20) /\ Kept(parser) = Behind(F, n)
  <2>1. /\ ParserOK(parser) /\ (~ parser.done => Len(parser.header) < 20)
        /\ Kept(parser) \o (Unfed \o wire) = Behind(F, n)
    BY <1>1, <1>3, Zenon DEF Good, Stream, Unfed
  <2>2. Kept(parser) \in Seq(Nat)
    BY <2>1, AheadTypes
  <2>3. <<>> \o <<>> = <<>>
    OBVIOUS
  <2>4. Kept(parser) \o <<>> = Kept(parser)
    BY <2>2, ConcatEmptySeq
  <2>5. QED
    BY <2>1, <2>3, <2>4, Zenon
<1>5. script \in Scripts /\ TapeOK(altered, script, F) /\ altered = FALSE /\ Len(script) \in Nat
  <2>1. script \in Scripts /\ TapeOK(altered, script, F) /\ altered \in BOOLEAN
    BY <1>1, GoodParts, Zenon DEF Good
  <2>2. QED
    BY <2>1, ScriptFacts
<1>6. Opened(altered, script, F, n)
  BY <1>1, <1>5, BehindIs
<1>7. ASSUME n < Len(script) PROVE FALSE
  <2>1. PICK H, B : /\ PieceOK(FALSE, script[n + 1], n + 1, H, B)
                    /\ Behind(F, n + 1) \in Seq(Nat)
                    /\ Behind(F, n) = H \o (B \o Behind(F, n + 1))
    BY <1>5, <1>6, <1>7, Zenon DEF Opened
  <2>2. Proper(script[n + 1])
    <3>1. n + 1 \in 1 .. Len(script)
      BY <1>1, <1>5, <1>7
    <3>2. QED
      BY <1>1, <3>1, Zenon
  <2>3. QED
    BY <1>4, <2>1, <2>2, KeepsLess, Zenon
<1>8. n = Len(script)
  <2>1. n \in 0 .. Len(script) /\ Len(script) \in Nat
    BY <1>1, <1>5, Zenon
  <2>2. ~ (n < Len(script))
    BY <1>7
  <2>3. QED
    BY <2>1, <2>2
<1>9. QED
  BY <1>2, <1>8, Zenon
-----------------------------------------------------------------------------

LEMMA SafeCut == WireInvariant => TruncationRefused
<1> SUFFICES ASSUME WireInvariant, frame.ready PROVE TruncationRefused
  BY Zenon DEF TruncationRefused
<1>1. PICK F, n : /\ Good(side, script, altered, wire, parser, inbuf, inpos, frame, tasks, received,
                          dead, n, F)
                  /\ n \in 0 .. Len(script) /\ Len(received) \in Nat /\ Len(tasks) \in Nat
                  /\ frame.ready => n = Len(received) + Len(tasks) + 1
  BY Known, Zenon
<1>2. script \in Scripts /\ View(frame) = Payload(script[n])
  <2>1. script \in Scripts /\ Viewable(script, parser, frame, n)
    BY <1>1, GoodParts, Zenon
  <2>2. QED
    BY <2>1, Zenon DEF Viewable, View
<1>3. n = Len(received) + Len(tasks) + 1 /\ n \in 1 .. Len(script) /\ Len(script) \in Nat
  <2>1. Len(script) \in Nat
    BY <1>2, ScriptFacts
  <2>2. QED
    BY <1>1, <2>1
<1>4. PICK m : m = script[n] /\ MessageOK(m)
  BY <1>2, <1>3, ScriptFacts
<1>5. PICK fields, v : /\ fields = Kinds[m.kind].fields /\ v = m.v /\ Fields(fields)
                       /\ ValuesOf(fields, v) /\ Encodable(fields, v)
                       /\ View(frame) = Encode(fields, v) /\ Len(Encode(fields, v)) \in Nat
  BY <1>2, <1>4, Zenon DEF MessageOK, Payload
<1>6. FieldsOf(Len(received) + Len(tasks) + 1) = fields
  <2>1. Min({n, Len(script)}) = n
    <3>1. PICK x \in Int, y \in Int : x = n /\ y = Len(script) /\ x <= y
      BY <1>3
    <3>2. Min({x, y}) = x
      BY <3>1, MinOfTwo
    <3>3. QED
      BY <3>1, <3>2, Zenon
  <2>2. QED
    BY <1>3, <1>4, <1>5, <2>1, Zenon DEF FieldsOf
<1>7. ASSUME NEW k \in 0 .. Len(View(frame)) - 1, Decode(fields, SubSeq(View(frame), 1, k)).ok
      PROVE  /\ Last(fields).k = "rest"
             /\ Encode(fields, Decode(fields, SubSeq(View(frame), 1, k)).vals) = SubSeq(View(frame), 1, k)
  <2>1. PICK b : b = SubSeq(Encode(fields, v), 1, k) /\ b = SubSeq(View(frame), 1, k)
    BY <1>5, Zenon
  <2>2. k \in Nat /\ k < Len(Encode(fields, v))
    <3>1. k \in 0 .. Len(Encode(fields, v)) - 1 /\ Len(Encode(fields, v)) \in Nat
      BY <1>5, <1>7, Zenon
    <3>2. QED
      BY <3>1
  <2>3. Decode(fields, b).ok => HasRest(fields) /\ Encode(fields, Decode(fields, b).vals) = b
    <3>1. Fields(fields) /\ ValuesOf(fields, v) /\ Encodable(fields, v)
      BY <1>5, Zenon
    <3>2. b = SubSeq(Encode(fields, v), 1, k)
      BY <2>1, Zenon
    <3>3. QED
      BY <2>2, <3>1, <3>2, CutShort
  <2>4. HasRest(fields) /\ Encode(fields, Decode(fields, b).vals) = b
    BY <1>7, <2>1, <2>3, Zenon
  <2>5. Last(fields).k = "rest"
    <3>1. Last(fields) = rest
      BY <2>4, Zenon DEF HasRest, Last
    <3>2. QED
      BY <3>1, RestFacts, Zenon
  <2>6. QED
    BY <2>1, <2>4, <2>5, Zenon
<1>8. QED
  BY <1>6, <1>7, Zenon DEF TruncationRefused

\* Every message that is decoded is the next one that was sent, with its
\* values, whatever pieces the bytes come in: the incremental parser
\* (fr_frame_parser_feed), the copy into a task and the decoders together.
THEOREM ReceivedIsSentHolds == Spec => []ReceivedIsSent
<1>1. WireInvariant => ReceivedIsSent
  BY SafeReceived
<1>2. QED
  BY <1>1, WireInvariantHolds, PTL

\* PROTO-01: when every byte was read and fed, every message was handed out:
\* fr_frame_parser_feed hands out a frame without a payload at once.
THEOREM AllDeliveredHolds == Spec => []AllDelivered
<1>1. WireInvariant => AllDelivered
  BY SafeDelivery
<1>2. QED
  BY <1>1, WireInvariantHolds, PTL

\* PROTO-02 and PROTO-04: nothing is handed out from a header that
\* frame_validate_header refuses on, and the parser's buffer keeps its limit.
THEOREM BadHeaderEndsHolds == Spec => []BadHeaderEnds
<1>1. WireInvariant => BadHeaderEnds
  BY SafeHeader
<1>2. QED
  BY <1>1, WireInvariantHolds, PTL

\* The decoders of messages.cpp refuse a payload that ends before its message
\* does, at whatever byte, unless its last field is the rest of the payload.
THEOREM TruncationRefusedHolds == Spec => []TruncationRefused
<1>1. WireInvariant => TruncationRefused
  BY SafeCut
<1>2. QED
  BY <1>1, WireInvariantHolds, PTL
-----------------------------------------------------------------------------
=============================================================================
