--------------------------- MODULE Services_proofs ---------------------------
(***************************************************************************)
(* What the programs that read a node keep, each for any chain, requests,  *)
(* limits and numbers of crashes: the light client of a phone, then the    *)
(* push relay and the parcel store.                                        *)
(***************************************************************************)
EXTENDS Services, Totals_proofs, SequenceTheorems

-----------------------------------------------------------------------------
(* The light client.                                                        *)

\* Chains: the works of their blocks.
Works == Seq(Nat \ {0})

\* What a piece of a chain is.
LEMMA UptoWorks ==
  ASSUME NEW c \in Works, NEW h \in 0 .. Len(c)
  PROVE  /\ Upto(c, h) \in Works /\ Len(Upto(c, h)) = h
         /\ \A k \in 1 .. h : Upto(c, h)[k] = c[k]
<1>1. Len(c) \in Nat /\ h \in Int /\ 1 \in Int
  BY LenProperties DEF Works
<1>2. \A i \in 1 .. h : c[i] \in Nat \ {0}
  BY <1>1, ElementOfSeq DEF Works
<1>3. /\ SubSeq(c, 1, h) \in Seq(Nat \ {0})
      /\ Len(SubSeq(c, 1, h)) = IF 1 <= h THEN h - 1 + 1 ELSE 0
      /\ \A i \in 1 .. h - 1 + 1 : SubSeq(c, 1, h)[i] = c[1 + i - 1]
  BY <1>1, <1>2, SubSeqProperties
<1> QED BY <1>1, <1>3 DEF Upto, Works

LEMMA UptoEqual ==
  ASSUME NEW c \in Works, NEW d \in Works, NEW h \in 0 .. Len(c), h = Len(d),
         \A k \in 1 .. h : d[k] = c[k]
  PROVE  Upto(c, h) = d
<1>1. /\ Upto(c, h) \in Works /\ Len(Upto(c, h)) = h
      /\ \A k \in 1 .. h : Upto(c, h)[k] = c[k]
  BY UptoWorks
<1> DEFINE u == Upto(c, h)
<1> HIDE DEF u
<1>2. u \in Seq(Nat \ {0}) /\ d \in Seq(Nat \ {0}) /\ Len(u) = Len(d)
  BY <1>1 DEF Works, u
<1>3. \A k \in 1 .. Len(u) : u[k] = d[k]
  BY <1>1 DEF u
<1> QED BY <1>2, <1>3, SeqEqual DEF u

LEMMA UptoUpto ==
  ASSUME NEW c \in Works, NEW h \in 0 .. Len(c), NEW j \in 0 .. h
  PROVE  Upto(Upto(c, h), j) = Upto(c, j)
<1>1. Len(c) \in Nat
  BY LenProperties DEF Works
<1>2. /\ Upto(c, h) \in Works /\ Len(Upto(c, h)) = h
      /\ \A k \in 1 .. h : Upto(c, h)[k] = c[k]
  BY UptoWorks
<1>3. j \in 0 .. Len(c)
  BY <1>1
<1>4. /\ Upto(c, j) \in Works /\ Len(Upto(c, j)) = j
      /\ \A k \in 1 .. j : Upto(c, j)[k] = c[k]
  BY <1>3, UptoWorks
<1> QED BY <1>1, <1>2, <1>4, UptoEqual

LEMMA UptoFull ==
  ASSUME NEW c \in Works
  PROVE  Upto(c, Len(c)) = c
<1>1. Len(c) \in 0 .. Len(c)
  BY LenProperties DEF Works
<1> QED BY <1>1, UptoEqual

\* The block of a header, and the header before it.
LEMMA UptoLast ==
  ASSUME NEW c \in Works, NEW h \in 1 .. Len(c)
  PROVE  Last(Upto(c, h)) = c[h] /\ Front(Upto(c, h)) = Upto(c, h - 1)
<1>1. Len(c) \in Nat /\ h \in 0 .. Len(c) /\ h - 1 \in 0 .. h
  BY LenProperties DEF Works
<1>2. /\ Upto(c, h) \in Works /\ Len(Upto(c, h)) = h
      /\ \A k \in 1 .. h : Upto(c, h)[k] = c[k]
  BY <1>1, UptoWorks
<1>3. Last(Upto(c, h)) = c[h]
  BY <1>1, <1>2 DEF Last
<1>4. Front(Upto(c, h)) = Upto(Upto(c, h), h - 1)
  BY <1>2 DEF Front, Upto
<1> QED BY <1>1, <1>3, <1>4, UptoUpto

-----------------------------------------------------------------------------
(* Work.                                                                    *)

LEMMA WeightNat ==
  ASSUME NEW c \in Works
  PROVE  Weight(c) \in Nat
<1>1. Len(c) \in Nat /\ DOMAIN c = 1 .. Len(c) /\ c \in [1 .. Len(c) -> Nat]
  BY LenProperties DEF Works
<1>2. IsFiniteSet(1 .. Len(c))
  BY <1>1, FS_Interval
<1> QED BY <1>1, <1>2, TotalNat DEF Weight

\* The work of a chain is that of its beginning and that of its end.
LEMMA WeightSplit ==
  ASSUME NEW c \in Works, NEW h \in 0 .. Len(c), NEW d \in Works,
         Len(d) = Len(c) - h, \A k \in 1 .. Len(d) : d[k] = c[h + k]
  PROVE  Weight(c) = Weight(Upto(c, h)) + Weight(d)
<1> DEFINE n == Len(c)
           u == Upto(c, h)
           A == Units(u, 1 .. h)
           B == Units(d, 1 .. Len(d))
           S == {<<h + k[1], k[2]>> : k \in B}
           f == [k \in B |-> <<h + k[1], k[2]>>]
<1>1. /\ n \in Nat /\ h \in Nat /\ Len(d) \in Nat /\ Len(d) = n - h
      /\ DOMAIN c = 1 .. n /\ DOMAIN d = 1 .. Len(d)
      /\ c \in [1 .. n -> Nat] /\ d \in [1 .. Len(d) -> Nat]
  BY LenProperties DEF Works
<1>2. u \in Works /\ Len(u) = h /\ \A k \in 1 .. h : u[k] = c[k]
  BY UptoWorks
<1>3. DOMAIN u = 1 .. h /\ u \in [1 .. h -> Nat]
  BY <1>2, LenProperties DEF Works
<1>4. IsFiniteSet(A) /\ IsFiniteSet(B)
  <2>1. IsFiniteSet(1 .. h) /\ IsFiniteSet(1 .. Len(d))
    BY <1>1, FS_Interval
  <2> HIDE DEF u
  <2> QED BY <1>1, <1>3, <2>1, UnitsFinite
<1>5. Units(c, 1 .. n) = A \cup S
  <2>1. ASSUME NEW x \in Units(c, 1 .. n) PROVE x \in A \cup S
    <3>1. PICK a \in 1 .. n : \E i \in 1 .. c[a] : x = <<a, i>>
      BY DEF Units
    <3>1a. PICK i \in 1 .. c[a] : x = <<a, i>>
      BY <3>1
    <3>2. CASE a <= h
      <4>1. a \in 1 .. h /\ u[a] = c[a]
        BY <1>1, <1>2, <3>2
      <4> QED BY <3>1a, <4>1 DEF Units
    <3>3. CASE a > h
      <4>1. a - h \in 1 .. Len(d) /\ d[a - h] = c[h + (a - h)] /\ h + (a - h) = a
        BY <1>1, <3>3
      <4>2. <<a - h, i>> \in B
        BY <3>1a, <4>1 DEF Units
      <4>3. x = <<h + <<a - h, i>>[1], <<a - h, i>>[2]>>
        BY <3>1a, <4>1
      <4> HIDE DEF B
      <4> QED BY <4>2, <4>3
    <3> QED BY <1>1, <3>2, <3>3
  <2>2. ASSUME NEW x \in A PROVE x \in Units(c, 1 .. n)
    <3>1. PICK a \in 1 .. h : \E i \in 1 .. u[a] : x = <<a, i>>
      BY DEF Units
    <3>1a. PICK i \in 1 .. u[a] : x = <<a, i>>
      BY <3>1
    <3>2. a \in 1 .. n /\ u[a] = c[a]
      BY <1>1, <1>2
    <3> QED BY <3>1a, <3>2 DEF Units
  <2>3. ASSUME NEW x \in S PROVE x \in Units(c, 1 .. n)
    <3>1. PICK k \in B : x = <<h + k[1], k[2]>>
      OBVIOUS
    <3>2. PICK a \in 1 .. Len(d) : \E i \in 1 .. d[a] : k = <<a, i>>
      BY DEF Units
    <3>2a. PICK i \in 1 .. d[a] : k = <<a, i>>
      BY <3>2
    <3>3. h + a \in 1 .. n /\ d[a] = c[h + a]
      BY <1>1
    <3>4. x = <<h + a, i>>
      BY <3>1, <3>2a
    <3> QED BY <3>2a, <3>3, <3>4 DEF Units
  <2> QED BY <2>1, <2>2, <2>3
<1>6. A \cap S = {}
  <2> SUFFICES ASSUME NEW x \in A, x \in S PROVE FALSE
    OBVIOUS
  <2>1. PICK a \in 1 .. h : \E i \in 1 .. u[a] : x = <<a, i>>
    BY DEF Units
  <2>1a. PICK i \in 1 .. u[a] : x = <<a, i>>
    BY <2>1
  <2>2. PICK k \in B : x = <<h + k[1], k[2]>>
    OBVIOUS
  <2>3. PICK b \in 1 .. Len(d) : \E j \in 1 .. d[b] : k = <<b, j>>
    BY DEF Units
  <2>3a. PICK j \in 1 .. d[b] : k = <<b, j>>
    BY <2>3
  <2>4. a = h + b
    BY <2>1a, <2>2, <2>3a
  <2> QED BY <1>1, <2>4
<1>7. IsFiniteSet(S) /\ Cardinality(S) = Cardinality(B)
  <2>1. \A k \in B : k \in Int \X Int /\ k = <<k[1], k[2]>>
    BY <1>1 DEF Units
  <2> HIDE DEF B
  <2>2. f \in Bijection(B, S)
    <3>1. f \in [B -> S]
      OBVIOUS
    <3>2. \A x \in S : \E k \in B : f[k] = x
      OBVIOUS
    <3>3. \A k, l \in B : f[k] = f[l] => k = l
      <4> SUFFICES ASSUME NEW k \in B, NEW l \in B, f[k] = f[l] PROVE k = l
        OBVIOUS
      <4>1. h + k[1] = h + l[1] /\ k[2] = l[2]
        OBVIOUS
      <4>2. k[1] \in Int /\ l[1] \in Int
        BY <2>1
      <4>3. k[1] = l[1]
        BY <1>1, <4>1, <4>2
      <4> QED BY <2>1, <4>1, <4>3
    <3> HIDE DEF f, S
    <3> QED BY <3>1, <3>2, <3>3, Fun_IsBij, Fun_IsInj, Fun_IsSurj
  <2> HIDE DEF f, S
  <2> QED BY <1>4, <2>2, FS_Bijection DEF ExistsBijection
<1> HIDE DEF A, B, S, f, u
<1>8. Cardinality(Units(c, 1 .. n)) = Cardinality(A) + Cardinality(B)
  <2>1. Cardinality(A \cup S) = Cardinality(A) + Cardinality(S) - Cardinality(A \cap S)
    BY <1>4, <1>7, FS_Union
  <2>2. Cardinality(A \cap S) = 0
    BY <1>6, FS_EmptySet
  <2>3. Cardinality(A) \in Nat /\ Cardinality(S) \in Nat
    BY <1>4, <1>7, FS_CardinalityType
  <2>4. Cardinality(A \cup S) = Cardinality(A) + Cardinality(S)
    BY <2>1, <2>2, <2>3
  <2> QED BY <1>5, <1>7, <2>4, Zenon
<1>9. /\ Weight(c) = Cardinality(Units(c, 1 .. n))
      /\ Weight(u) = Cardinality(A) /\ Weight(d) = Cardinality(B)
  BY <1>1, <1>3, Zenon DEF Weight, Total, A, B
<1>10. Weight(c) = Weight(u) + Weight(d)
  <2> HIDE DEF n
  <2> QED BY <1>8, <1>9
<1> QED BY <1>10, Zenon DEF u

-----------------------------------------------------------------------------
(* Stretches of headers.                                                    *)

\* The headers of a chain from one height on.
From(c, b) == [k \in 1 .. Len(c) - b + 1 |-> Upto(c, b + k - 1)]

LEMMA FromHeaders ==
  ASSUME NEW c \in Works, NEW b \in 0 .. Len(c)
  PROVE  /\ From(c, b) \in Seq(Works) /\ Len(From(c, b)) = Len(c) - b + 1
         /\ \A k \in 1 .. Len(c) - b + 1 : From(c, b)[k] = Upto(c, b + k - 1)
         /\ From(c, b) # <<>> /\ Last(From(c, b)) = c /\ Len(c) \in Nat
<1>1. Len(c) \in Nat /\ b \in Nat /\ b <= Len(c)
  BY LenProperties DEF Works
<1> DEFINE n == Len(c) - b + 1
           hs == From(c, b)
<1>2. n \in Nat /\ n >= 1
  BY <1>1
<1>3. \A k \in 1 .. n : Upto(c, b + k - 1) \in Works
  <2> TAKE k \in 1 .. n
  <2>1. b + k - 1 \in 0 .. Len(c)
    BY <1>1
  <2> QED BY <2>1, UptoWorks
<1>4. hs \in [1 .. n -> Works] /\ \A k \in 1 .. n : hs[k] = Upto(c, b + k - 1)
  BY <1>3 DEF From
<1> HIDE DEF hs
<1>5. hs \in Seq(Works) /\ Len(hs) = n
  <2> HIDE DEF n
  <2>1. hs \in Seq(Works)
    BY <1>2, <1>4, SeqDef
  <2>2. DOMAIN hs = 1 .. n /\ DOMAIN hs = 1 .. Len(hs) /\ Len(hs) \in Nat
    BY <1>4, <2>1, LenProperties
  <2> QED BY <1>2, <2>1, <2>2
<1>6. hs # <<>>
  BY <1>2, <1>5, EmptySeq
<1>7. Last(hs) = c
  <2>1. Last(hs) = Upto(c, b + n - 1) /\ b + n - 1 = Len(c)
    BY <1>1, <1>2, <1>4, <1>5 DEF Last
  <2> QED BY <2>1, UptoFull
<1> QED BY <1>1, <1>4, <1>5, <1>6, <1>7 DEF hs

\* Two sequences of headers are the same when they hold the same.
LEMMA SameHeaders ==
  ASSUME NEW hs \in Seq(Works), NEW c \in Works, NEW b \in 0 .. Len(c),
         Len(hs) = Len(c) - b + 1, \A k \in 1 .. Len(c) - b + 1 : hs[k] = Upto(c, b + k - 1)
  PROVE  hs = From(c, b)
<1> DEFINE f == From(c, b)
<1>1. /\ f \in Seq(Works) /\ Len(f) = Len(hs)
      /\ \A k \in 1 .. Len(hs) : hs[k] = f[k]
  BY FromHeaders
<1> HIDE DEF f
<1> QED BY <1>1, SeqEqual DEF f

\* A client that holds the headers of a chain from one height on, and its work.
Stores == [headers : Seq(Works), work : Nat, start : Nat]
Spans(l, c, b) == l \in Stores /\ l.headers = From(c, b) /\ l.work = Weight(c)
Chained(l) == \E c \in Works : \E b \in 0 .. Len(c) : Spans(l, c, b)
\* ... and knows that height.
Placed(l) == \E c \in Works : \E b \in 0 .. Len(c) : Spans(l, c, b) /\ l.start = b

LEMMA SpansKept ==
  ASSUME NEW c \in Works, NEW b \in 0 .. Len(c), NEW l, Spans(l, c, b), l.start = b
  PROVE  WellKept(l)
<1>1. /\ l.headers \in Seq(Works) /\ Len(l.headers) = Len(c) - b + 1
      /\ \A k \in 1 .. Len(c) - b + 1 : l.headers[k] = Upto(c, b + k - 1)
      /\ Last(l.headers) = c /\ Len(c) \in Nat
  BY FromHeaders DEF Spans
<1>2. b \in Nat /\ b <= Len(c)
  BY <1>1
<1>3. ASSUME NEW i \in 1 .. Len(l.headers) - 1
      PROVE  Front(l.headers[i + 1]) = l.headers[i]
  <2>1. /\ i \in 1 .. Len(c) - b + 1 /\ i + 1 \in 1 .. Len(c) - b + 1
        /\ b + (i + 1) - 1 = b + i /\ b + i \in 1 .. Len(c) /\ b + i - 1 = (b + i) - 1
    BY <1>1, <1>2
  <2>2. l.headers[i + 1] = Upto(c, b + i) /\ l.headers[i] = Upto(c, (b + i) - 1)
    BY <1>1, <2>1
  <2> QED BY <2>1, <2>2, UptoLast
<1>4. l.start = Len(l.headers[1])
  <2>1. 1 \in 1 .. Len(c) - b + 1 /\ b + 1 - 1 = b
    BY <1>1, <1>2
  <2>2. l.headers[1] = Upto(c, b)
    BY <1>1, <2>1
  <2> QED BY <2>2, UptoWorks
<1>5. l.work = Weight(Last(l.headers))
  BY <1>1 DEF Spans
<1> QED BY <1>3, <1>4, <1>5 DEF WellKept

\* Trimming drops headers at the beginning, and follows with the start.
LEMMA TrimSpans ==
  ASSUME NEW c \in Works, NEW b \in 0 .. Len(c), NEW l, Spans(l, c, b)
  PROVE  /\ Trim(l).work = l.work
         /\ \E a \in 0 .. Len(c) : Spans(Trim(l), c, a) /\ (l.start = b => Trim(l).start = a)
<1>1. /\ l \in Stores /\ l.headers = From(c, b) /\ l.work = Weight(c)
      /\ l.headers \in Seq(Works) /\ Len(l.headers) = Len(c) - b + 1
      /\ \A k \in 1 .. Len(c) - b + 1 : l.headers[k] = Upto(c, b + k - 1)
      /\ Last(l.headers) = c /\ Len(c) \in Nat /\ b \in Nat /\ b <= Len(c)
  <2>1. l \in Stores /\ l.headers = From(c, b) /\ l.work = Weight(c)
    BY DEF Spans
  <2>2. /\ From(c, b) \in Seq(Works) /\ Len(From(c, b)) = Len(c) - b + 1
        /\ \A k \in 1 .. Len(c) - b + 1 : From(c, b)[k] = Upto(c, b + k - 1)
        /\ Last(From(c, b)) = c /\ Len(c) \in Nat
    BY FromHeaders
  <2>3. b \in Nat /\ b <= Len(c)
    BY <2>2
  <2> QED BY <2>1, <2>2, <2>3, Zenon
<1>2. CASE ~(Len(l.headers) > Window)
  <2>1. Trim(l) = l
    BY <1>2 DEF Trim
  <2> QED BY <2>1
<1>3. CASE Len(l.headers) > Window
  <2> DEFINE n == Len(l.headers)
             kept == SubSeq(l.headers, n - Window + 1, n)
             a == b + n - Window
  <2>1. Window \in Nat /\ Window >= 1 /\ n \in Nat /\ n > Window
    BY <1>1, <1>3, LightAssumption
  <2>2. Trim(l) = [l EXCEPT !.headers = kept, !.start = Len(kept[1])]
    BY <1>3 DEF Trim
  <2>3. a \in 0 .. Len(c) /\ Len(c) - a + 1 = Window
    BY <1>1, <2>1
  <2>4. \A i \in (n - Window + 1) .. n : l.headers[i] \in Works
    <3> TAKE i \in (n - Window + 1) .. n
    <3>1. i \in 1 .. Len(l.headers)
      BY <2>1
    <3> QED BY <1>1, <3>1, ElementOfSeq
  <2>5. /\ kept \in Seq(Works) /\ Len(kept) = Window
        /\ \A i \in 1 .. Window : kept[i] = l.headers[n - Window + i]
    <3>1. n - Window + 1 \in Int /\ n \in Int
      BY <2>1
    <3>2. /\ kept \in Seq(Works)
          /\ Len(kept) = IF n - Window + 1 <= n THEN n - (n - Window + 1) + 1 ELSE 0
          /\ \A i \in 1 .. n - (n - Window + 1) + 1 : kept[i] = l.headers[n - Window + 1 + i - 1]
      BY <2>4, <3>1, SubSeqProperties
    <3> HIDE DEF kept, n
    <3>3. n - (n - Window + 1) + 1 = Window /\ n - Window + 1 <= n
      BY <2>1
    <3>4. ASSUME NEW i \in 1 .. Window PROVE kept[i] = l.headers[n - Window + i]
      <4>1. i \in 1 .. n - (n - Window + 1) + 1
        BY <3>3
      <4>2. n - Window + 1 + i - 1 = n - Window + i
        BY <2>1
      <4> QED BY <3>2, <4>1, <4>2, Zenon
    <3> QED BY <3>2, <3>3, <3>4
  <2>6. \A k \in 1 .. Len(c) - a + 1 : kept[k] = Upto(c, a + k - 1)
    <3> TAKE k \in 1 .. Len(c) - a + 1
    <3>1. /\ k \in 1 .. Window /\ n - Window + k \in 1 .. Len(c) - b + 1
          /\ b + (n - Window + k) - 1 = a + k - 1
      <4>1. /\ b \in Nat /\ Len(c) \in Nat /\ n = Len(c) - b + 1 /\ Len(c) - a + 1 = Window
            /\ Window \in Nat /\ n > Window /\ a = b + n - Window /\ n \in Nat
        BY <1>1, <2>1, <2>3
      <4> HIDE DEF kept, a, n
      <4>2. k \in 1 .. Window
        BY <4>1
      <4>3. n - Window + k \in 1 .. Len(c) - b + 1
        BY <4>1, <4>2
      <4>4. b + (n - Window + k) - 1 = a + k - 1
        BY <4>1, <4>2
      <4> QED BY <4>2, <4>3, <4>4
    <3> HIDE DEF kept, a
    <3> QED BY <1>1, <2>5, <3>1
  <2> HIDE DEF n, kept, a
  <2>7. kept = From(c, a)
    BY <2>3, <2>5, <2>6, SameHeaders
  <2>8. Len(kept[1]) = a
    <3>1. 1 \in 1 .. Len(c) - a + 1 /\ a + 1 - 1 = a
      BY <2>1, <2>3
    <3>2. kept[1] = Upto(c, a)
      BY <2>6, <3>1
    <3> QED BY <2>3, <3>2, UptoWorks
  <2>9. /\ Trim(l) \in Stores /\ Trim(l).headers = kept /\ Trim(l).start = a
        /\ Trim(l).work = l.work
    <3>1. a \in Nat
      BY <2>3
    <3>2. Trim(l) = [l EXCEPT !.headers = kept, !.start = a]
      BY <2>2, <2>8, Zenon
    <3> DEFINE t1 == [l EXCEPT !.headers = kept]
    <3>3. t1 \in Stores /\ t1.headers = kept /\ t1.work = l.work
      BY <1>1, <2>5 DEF Stores
    <3>4. Trim(l) = [t1 EXCEPT !.start = a]
      BY <1>1, <3>2 DEF Stores
    <3> HIDE DEF t1
    <3> QED BY <3>1, <3>3, <3>4 DEF Stores
  <2>10. Spans(Trim(l), c, a)
    BY <1>1, <2>7, <2>9 DEF Spans
  <2> QED BY <2>3, <2>9, <2>10
<1> QED BY <1>2, <1>3

\* The work headers say they have, when they are headers of one chain.
LEMMA WorkOfHeaders ==
  ASSUME NEW c \in Works, NEW h \in 0 .. Len(c), NEW hs, DOMAIN hs = 1 .. Len(c) - h,
         \A k \in 1 .. Len(c) - h : hs[k] = Upto(c, h + k)
  PROVE  WorkOf(hs) \in Nat /\ Weight(c) = Weight(Upto(c, h)) + WorkOf(hs)
<1> DEFINE d == [k \in DOMAIN hs |-> Last(hs[k])]
           n == Len(c) - h
<1>1. Len(c) \in Nat /\ h \in Nat /\ n \in Nat
  BY LenProperties DEF Works
<1>2. \A k \in 1 .. n : Last(hs[k]) = c[h + k] /\ c[h + k] \in Nat \ {0}
  <2> TAKE k \in 1 .. n
  <2>1. h + k \in 1 .. Len(c)
    BY <1>1
  <2>2. Last(Upto(c, h + k)) = c[h + k]
    BY <2>1, UptoLast
  <2>3. c[h + k] \in Nat \ {0}
    BY <2>1, ElementOfSeq DEF Works
  <2> QED BY <2>2, <2>3
<1>3. d \in [1 .. n -> Nat \ {0}] /\ \A k \in 1 .. n : d[k] = c[h + k]
  BY <1>2
<1> HIDE DEF d, n
<1>4. d \in Works
  BY <1>1, <1>3, SeqDef DEF Works
<1>5. Len(d) = n
  <2>1. DOMAIN d = 1 .. n /\ DOMAIN d = 1 .. Len(d) /\ Len(d) \in Nat
    BY <1>3, <1>4, LenProperties DEF Works
  <2> QED BY <1>1, <2>1
<1>6. Weight(c) = Weight(Upto(c, h)) + Weight(d)
  BY <1>3, <1>4, <1>5, WeightSplit DEF n
<1>7. WorkOf(hs) = Weight(d)
  BY DEF WorkOf, d
<1> QED BY <1>4, <1>6, <1>7, WeightNat

\* The walk back ends at a header the client and the node both have, where the
\* client knows its start; what is shared is what the client has up to there.
LEMMA SharedSpans ==
  ASSUME NEW c \in Works, NEW b \in 0 .. Len(c), Spans(light, c, b),
         NEW chain \in Works, NEW h \in 0 .. Len(chain),
         h - light.start \in 0 .. Len(light.headers) - 1,
         light.headers[h - light.start + 1] = Upto(chain, h)
  PROVE  /\ Placed(Shared(h)) /\ Shared(h).work <= light.work
         /\ Shared(h).start = light.start /\ light.start = b
<1>1. /\ light \in Stores /\ light.headers = From(c, b) /\ light.work = Weight(c)
  BY DEF Spans
<1>2. PICK hs, s, n : hs = light.headers /\ s = light.start /\ n = Len(light.headers)
  OBVIOUS
<1>3. /\ hs \in Seq(Works) /\ n = Len(hs) /\ Len(hs) = Len(c) - b + 1 /\ Len(c) \in Nat
  BY <1>1, <1>2, FromHeaders
<1>4. \A k \in 1 .. Len(c) - b + 1 : hs[k] = Upto(c, b + k - 1)
  BY <1>1, <1>2, FromHeaders
<1>5. Len(chain) \in Nat /\ s \in Nat
  BY <1>1, <1>2, LenProperties DEF Works, Stores
<1>6. PICK i : i = h - s + 1
  OBVIOUS
<1>7. /\ h \in Nat /\ b \in Nat /\ i \in 1 .. n /\ n \in Nat /\ n = Len(c) - b + 1
      /\ b + i - 1 \in 0 .. Len(c)
  <2>1. h - s \in 0 .. n - 1
    BY <1>2
  <2>2. n = Len(c) - b + 1
    BY <1>3
  <2> QED BY <1>3, <1>5, <1>6, <2>1, <2>2
<1>8. h = b + i - 1
  <2>1. hs[i] = Upto(chain, h)
    BY <1>2, <1>6
  <2>2. hs[i] = Upto(c, b + i - 1)
    BY <1>4, <1>7
  <2>3. Len(Upto(c, b + i - 1)) = b + i - 1
    BY <1>7, UptoWorks
  <2>4. Len(Upto(chain, h)) = h
    BY UptoWorks
  <2> QED BY <2>1, <2>2, <2>3, <2>4
<1>9. b = s /\ h \in 0 .. Len(c) /\ b \in 0 .. h
  BY <1>5, <1>6, <1>7, <1>8
<1>10. PICK kept, dropped : kept = SubSeq(hs, 1, i) /\ dropped = SubSeq(hs, i + 1, n)
  OBVIOUS
<1>11. \A k \in 1 .. n : hs[k] \in Works
  BY <1>3, ElementOfSeq
<1>12. /\ kept \in Seq(Works) /\ Len(kept) = i
       /\ \A k \in 1 .. i : kept[k] = hs[k]
  <2>1. i \in Int /\ 1 \in Int /\ (\A k \in 1 .. i : hs[k] \in Works)
    BY <1>7, <1>11
  <2>2. /\ kept \in Seq(Works) /\ Len(kept) = IF 1 <= i THEN i - 1 + 1 ELSE 0
        /\ \A k \in 1 .. i - 1 + 1 : kept[k] = hs[1 + k - 1]
    BY <1>10, <2>1, SubSeqProperties
  <2>3. Len(kept) = i
    BY <1>7, <2>2
  <2>4. ASSUME NEW k \in 1 .. i PROVE kept[k] = hs[k]
    <3>1. k \in 1 .. i - 1 + 1 /\ 1 + k - 1 = k
      BY <1>7
    <3> QED BY <2>2, <3>1
  <2> QED BY <2>2, <2>3, <2>4
<1>13. DOMAIN dropped = 1 .. Len(c) - h /\ \A k \in 1 .. Len(c) - h : dropped[k] = Upto(c, h + k)
  <2>1. i + 1 \in Int /\ n \in Int /\ (\A k \in (i + 1) .. n : hs[k] \in Works)
    BY <1>7, <1>11
  <2>2. /\ SubSeq(hs, i + 1, n) \in Seq(Works)
        /\ Len(SubSeq(hs, i + 1, n)) = IF i + 1 <= n THEN n - (i + 1) + 1 ELSE 0
        /\ \A k \in 1 .. n - (i + 1) + 1 : SubSeq(hs, i + 1, n)[k] = hs[i + 1 + k - 1]
    BY <2>1, SubSeqProperties
  <2>3. /\ dropped \in Seq(Works)
        /\ Len(dropped) = IF i + 1 <= n THEN n - (i + 1) + 1 ELSE 0
        /\ \A k \in 1 .. n - (i + 1) + 1 : dropped[k] = hs[i + 1 + k - 1]
    BY <1>10, <2>2, Zenon
  <2>4. n - i = Len(c) - h /\ n - i \in Nat
    BY <1>3, <1>7, <1>8
  <2>5. Len(dropped) = n - i
    BY <1>7, <2>3
  <2>6. DOMAIN dropped = 1 .. n - i
    BY <2>3, <2>5, LenProperties
  <2>7. ASSUME NEW k \in 1 .. n - i PROVE dropped[k] = Upto(c, h + k)
    <3>1. /\ i + 1 + k - 1 = i + k /\ i + k \in 1 .. Len(c) - b + 1
          /\ b + (i + k) - 1 = h + k /\ k \in 1 .. n - (i + 1) + 1
      BY <1>7, <1>8
    <3>2. dropped[k] = hs[i + k]
      BY <2>3, <3>1
    <3>3. hs[i + k] = Upto(c, b + (i + k) - 1)
      BY <1>4, <3>1
    <3> QED BY <3>1, <3>2, <3>3
  <2> QED BY <2>4, <2>6, <2>7
<1>14. PICK u : u = Upto(c, h)
  OBVIOUS
<1>15. WorkOf(dropped) \in Nat /\ Weight(c) = Weight(u) + WorkOf(dropped)
  BY <1>9, <1>13, <1>14, WorkOfHeaders
<1>16. u \in Works /\ Len(u) = h /\ Weight(u) \in Nat
  BY <1>9, <1>14, UptoWorks, WeightNat
<1>17. kept = From(u, b)
  <2>1. b \in 0 .. Len(u) /\ Len(u) - b + 1 = i
    BY <1>7, <1>8, <1>9, <1>16
  <2>2. ASSUME NEW k \in 1 .. Len(u) - b + 1 PROVE kept[k] = Upto(u, b + k - 1)
    <3>1. k \in 1 .. i /\ b + k - 1 \in 0 .. h /\ k \in 1 .. Len(c) - b + 1
      BY <1>7, <1>8, <2>1
    <3>2. kept[k] = Upto(c, b + k - 1)
      BY <1>4, <1>12, <3>1
    <3>3. Upto(u, b + k - 1) = Upto(c, b + k - 1)
      BY <1>9, <1>14, <3>1, UptoUpto
    <3> QED BY <3>2, <3>3
  <2>3. Len(kept) = Len(u) - b + 1
    BY <1>12, <2>1
  <2> QED BY <1>12, <1>16, <2>1, <2>2, <2>3, SameHeaders
<1>18. Shared(h) = [headers |-> kept, work |-> light.work - WorkOf(dropped), start |-> s]
  <2>1. h + 1 - s = i
    BY <1>5, <1>6, <1>7
  <2> QED BY <1>2, <1>10, <2>1 DEF Shared
<1>19. light.work - WorkOf(dropped) = Weight(u) /\ Weight(u) <= light.work
  BY <1>1, <1>15, <1>16
<1>20. Shared(h) = [headers |-> kept, work |-> Weight(u), start |-> s]
  BY <1>18, <1>19, Zenon
<1>21. /\ Shared(h) \in Stores /\ Shared(h).headers = From(u, b)
       /\ Shared(h).work = Weight(u) /\ Shared(h).start = s
  BY <1>5, <1>12, <1>16, <1>17, <1>20 DEF Stores
<1>22. Spans(Shared(h), u, b) /\ b \in 0 .. Len(u)
  BY <1>9, <1>16, <1>21 DEF Spans
<1>23. Placed(Shared(h))
  BY <1>9, <1>16, <1>21, <1>22 DEF Placed
<1> QED BY <1>2, <1>9, <1>19, <1>21, <1>23

\* The page AskHeaders reads, and the copy it makes of it.
Page(chain, lo, m) == [k \in 1 .. m - lo + 1 |-> Upto(chain, lo + k - 1)]
Added(copy, page) == [copy EXCEPT !.headers = @ \o page, !.work = @ + WorkOf(page)]

\* A page that links adds its headers and their work.
LEMMA PageSpans ==
  ASSUME NEW c \in Works, NEW b \in 0 .. Len(c), NEW copy, Spans(copy, c, b),
         NEW chain \in Works, NEW lo \in Nat \ {0}, NEW m \in lo .. Len(chain),
         NEW page, page = Page(chain, lo, m), Links(copy, page),
         NEW more, more = Added(copy, page)
  PROVE  /\ Upto(chain, m) \in Works /\ b \in 0 .. Len(Upto(chain, m))
         /\ Spans(more, Upto(chain, m), b) /\ more.start = copy.start
<1>1. /\ copy \in Stores /\ copy.headers = From(c, b) /\ copy.work = Weight(c)
  BY DEF Spans
<1>2. PICK old, n : old = copy.headers /\ n = Len(copy.headers)
  OBVIOUS
<1>3. /\ old \in Seq(Works) /\ n = Len(old) /\ n = Len(c) - b + 1
      /\ Len(c) \in Nat /\ Last(old) = c
  BY <1>1, <1>2, FromHeaders
<1>4. \A k \in 1 .. Len(c) - b + 1 : old[k] = Upto(c, b + k - 1)
  BY <1>1, <1>2, FromHeaders
<1>5. PICK u, g : u = Upto(chain, m) /\ g = lo - 1
  OBVIOUS
<1>6. /\ Len(chain) \in Nat /\ lo \in 1 .. Len(chain) /\ m \in 0 .. Len(chain) /\ b \in Nat
      /\ m \in Nat /\ g \in Nat
  BY <1>5, LenProperties DEF Works
<1>7. /\ g \in 0 .. m /\ g \in 0 .. Len(chain) /\ m - g = m - lo + 1 /\ m - g \in Nat
  BY <1>5, <1>6
<1>8. u \in Works /\ Len(u) = m
  BY <1>5, <1>6, UptoWorks
<1>9. c = Upto(chain, g) /\ Len(c) = g
  <2>1. 1 \in 1 .. m - lo + 1 /\ lo + 1 - 1 = lo
    BY <1>6
  <2>2. page[1] = Upto(chain, lo)
    BY <2>1 DEF Page
  <2>3. Front(page[1]) = Upto(chain, g)
    BY <1>5, <1>6, <2>2, UptoLast
  <2>4. c = Upto(chain, g)
    BY <1>2, <1>3, <2>3 DEF Links
  <2> QED BY <1>7, <2>4, UptoWorks
<1>10. Upto(u, g) = c
  BY <1>5, <1>6, <1>7, <1>9, UptoUpto
<1>11. DOMAIN page = 1 .. m - g
  BY <1>7 DEF Page
<1>12. ASSUME NEW k \in 1 .. m - g
       PROVE  page[k] = Upto(u, g + k) /\ page[k] \in Works
  <2>1. /\ k \in 1 .. m - lo + 1 /\ lo + k - 1 = g + k
        /\ g + k \in 0 .. m /\ g + k \in 0 .. Len(chain)
    BY <1>5, <1>6
  <2>2. page[k] = Upto(chain, g + k)
    BY <2>1 DEF Page
  <2>3. Upto(chain, g + k) = Upto(u, g + k)
    BY <1>5, <1>6, <2>1, UptoUpto
  <2> QED BY <2>1, <2>2, <2>3, UptoWorks
<1>13. WorkOf(page) \in Nat /\ Weight(u) = Weight(c) + WorkOf(page)
  <2>1. Len(u) - g = m - g /\ g \in 0 .. Len(u)
    BY <1>7, <1>8
  <2>2. WorkOf(page) \in Nat /\ Weight(u) = Weight(Upto(u, g)) + WorkOf(page)
    BY <1>8, <1>11, <1>12, <2>1, WorkOfHeaders
  <2> QED BY <1>10, <2>2
<1>14. page \in Seq(Works) /\ Len(page) = m - g
  <2>1. page \in [1 .. m - g -> Works]
    BY <1>7, <1>11, <1>12 DEF Page
  <2>2. PICK j : j = m - g
    OBVIOUS
  <2>3. page \in Seq(Works)
    BY <1>7, <2>1, <2>2, SeqDef
  <2>4. DOMAIN page = 1 .. Len(page) /\ Len(page) \in Nat
    BY <2>3, LenProperties
  <2> QED BY <1>7, <1>11, <2>3, <2>4
<1>15. PICK hs : hs = old \o page
  OBVIOUS
<1>16. /\ hs \in Seq(Works) /\ Len(hs) = Len(old) + Len(page)
       /\ \A k \in 1 .. Len(old) + Len(page) :
             hs[k] = IF k <= Len(old) THEN old[k] ELSE page[k - Len(old)]
  BY <1>3, <1>14, <1>15, ConcatProperties
<1>17. /\ b \in 0 .. Len(u) /\ b <= g /\ Len(old) = g - b + 1
       /\ Len(old) + Len(page) = m - b + 1 /\ Len(u) - b + 1 = m - b + 1
  BY <1>3, <1>6, <1>7, <1>8, <1>9, <1>14
<1>18. ASSUME NEW k \in 1 .. m - b + 1
       PROVE  hs[k] = Upto(u, b + k - 1)
  <2>1. k \in 1 .. Len(old) + Len(page)
    BY <1>17
  <2>2. CASE k <= g - b + 1
    <3>1. k \in 1 .. Len(c) - b + 1 /\ b + k - 1 \in 0 .. g
      BY <1>6, <1>7, <1>9, <1>17, <2>2
    <3>2. hs[k] = Upto(c, b + k - 1)
      <4>1. hs[k] = old[k]
        BY <1>16, <1>17, <2>1, <2>2
      <4> QED BY <1>4, <3>1, <4>1
    <3>3. g \in 0 .. Len(u)
      BY <1>7, <1>8
    <3>4. Upto(Upto(u, g), b + k - 1) = Upto(u, b + k - 1)
      BY <1>8, <3>1, <3>3, UptoUpto
    <3> QED BY <1>10, <3>2, <3>4
  <2>3. CASE k > g - b + 1
    <3>1. PICK j : j = k - (g - b + 1)
      OBVIOUS
    <3>2. j \in 1 .. m - g /\ g + j = b + k - 1 /\ ~(k <= g - b + 1)
      BY <1>6, <1>7, <1>17, <2>3, <3>1
    <3>3. hs[k] = page[j]
      BY <1>16, <1>17, <2>1, <3>1, <3>2
    <3> QED BY <1>12, <3>2, <3>3
  <2> QED BY <1>6, <1>7, <1>17, <2>2, <2>3
<1>19. hs = From(u, b)
  <2>1. Len(hs) = Len(u) - b + 1
    BY <1>16, <1>17
  <2>2. \A k \in 1 .. Len(u) - b + 1 : hs[k] = Upto(u, b + k - 1)
    BY <1>17, <1>18
  <2> QED BY <1>8, <1>16, <1>17, <2>1, <2>2, SameHeaders
<1>20. more \in Stores /\ more.headers = hs /\ more.work = Weight(u) /\ more.start = copy.start
  <2>1. copy.work + WorkOf(page) = Weight(u) /\ Weight(u) \in Nat
    BY <1>1, <1>8, <1>13, WeightNat
  <2> DEFINE t1 == [copy EXCEPT !.headers = hs]
  <2>2. t1 \in Stores /\ t1.headers = hs /\ t1.start = copy.start
    BY <1>1, <1>16 DEF Stores
  <2>3. more = [copy EXCEPT !.headers = hs, !.work = Weight(u)]
    BY <1>1, <1>2, <1>15, <2>1 DEF Stores, Added
  <2>4. more = [t1 EXCEPT !.work = Weight(u)]
    BY <1>1, <2>3 DEF Stores
  <2> HIDE DEF t1
  <2> QED BY <2>1, <2>2, <2>4 DEF Stores
<1> QED BY <1>5, <1>8, <1>17, <1>19, <1>20 DEF Spans

-----------------------------------------------------------------------------
(* The light client.                                                        *)

SyncStates == [at : {"idle", "walk", "first", "pages", "save"}, node : Seeds \cup {"none"},
               peer : Nat, h : Nat, step : Nat, copy : Stores, lo : Nat]

\* What a sync works on is a stretch of one chain, placed where the client would
\* look for it.
SyncFits(y) ==
  /\ y.at \in {"walk", "first", "pages"} => y.node \in Seeds
  /\ y.at \in {"first", "pages"} => Placed(y.copy) /\ y.lo \in Nat \ {0}
  /\ y.at = "first" => y.copy.start = 0
  /\ y.at = "save" => Chained(y.copy)

\* The client holds nothing, or headers of one chain with its work.  They need
\* not be where it looks for them: a sync that was overtaken may have moved the
\* start.
Fits(l) == l = NoHeaders \/ Chained(l)
SyncsFit == syncs \in [Syncs -> SyncStates] /\ \A s \in Syncs : SyncFits(syncs[s])

LightInv ==
  /\ served \in [Seeds -> Works]
  /\ Fits(light) /\ Fits(lightFile)
  /\ SyncsFit

\* What a step may not do.
Grows == WellKept(light) => WellKept(light') /\ light'.work >= light.work

LEMMA FitsStores ==
  ASSUME NEW l, Fits(l)
  PROVE  l \in Stores /\ (l.headers = <<>> => l = NoHeaders)
<1>1. NoHeaders \in Stores
  BY EmptySeq DEF NoHeaders, Stores
<1>2. ASSUME Chained(l) PROVE l \in Stores /\ l.headers # <<>>
  <2>1. PICK c \in Works : \E b \in 0 .. Len(c) : Spans(l, c, b)
    BY <1>2 DEF Chained
  <2>2. PICK b \in 0 .. Len(c) : Spans(l, c, b)
    BY <2>1
  <2> QED BY <2>2, FromHeaders DEF Spans
<1> QED BY <1>1, <1>2 DEF Fits

LEMMA PlacedChained ==
  ASSUME NEW l, Placed(l)
  PROVE  Chained(l) /\ l \in Stores
BY DEF Placed, Chained, Spans

LEMMA GrowsSame ==
  ASSUME LightInv, light' = light
  PROVE  Grows
<1>1. light.work \in Nat
  BY FitsStores DEF LightInv, Stores
<1>2. WellKept(light') <=> WellKept(light)
  BY Zenon
<1> QED BY <1>1, <1>2 DEF Grows

LEMMA ReadyFits == Ready \in SyncStates /\ SyncFits(Ready)
<1>1. NoHeaders \in Stores
  BY EmptySeq DEF NoHeaders, Stores
<1> QED BY <1>1 DEF Ready, SyncStates, SyncFits

LEMMA SyncsSet ==
  ASSUME SyncsFit, NEW s \in Syncs, NEW y \in SyncStates, SyncFits(y),
         syncs' = [syncs EXCEPT ![s] = y]
  PROVE  SyncsFit' /\ syncs'[s] = y
<1>1. \A t \in Syncs : syncs'[t] = IF t = s THEN y ELSE syncs[t]
  BY DEF SyncsFit
<1>2. syncs' \in [Syncs -> SyncStates]
  BY DEF SyncsFit
<1>3. \A t \in Syncs : SyncFits(syncs'[t])
  BY <1>1 DEF SyncsFit
<1> QED BY <1>1, <1>2, <1>3 DEF SyncsFit

LEMMA DoneFits ==
  ASSUME SyncsFit, NEW s \in Syncs, Done(s)
  PROVE  SyncsFit' /\ syncs'[s].at = "idle"
<1>1. SyncsFit' /\ syncs'[s] = Ready
  BY ReadyFits, SyncsSet DEF Done
<1> QED BY <1>1 DEF Ready

LEMMA SaveFits ==
  ASSUME SyncsFit, NEW s \in Syncs, Save(s), Chained(light')
  PROVE  SyncsFit' /\ syncs'[s].at = "save"
<1> DEFINE y == [Ready EXCEPT !.at = "save", !.copy = light']
<1>1. light' \in Stores
  BY FitsStores DEF Fits
<1>2. /\ y \in SyncStates /\ y.at = "save" /\ y.copy = light'
  BY <1>1 DEF Ready, SyncStates
<1>3. SyncFits(y)
  BY <1>2 DEF SyncFits
<1>4. syncs' = [syncs EXCEPT ![s] = y]
  BY DEF Save
<1> HIDE DEF y
<1>5. SyncsFit' /\ syncs'[s] = y
  BY <1>2, <1>3, <1>4, SyncsSet
<1> QED BY <1>2, <1>5

\* Whatever a sync installs is headers of one chain, and work that is not less
\* when the client accepts it; and it is where the client looks for it when the
\* start is still the one the sync began with.
LEMMA InstallFits ==
  ASSUME LightInv, NEW s \in Syncs, NEW copy, Placed(copy), Install(s, copy)
  PROVE  /\ Fits(light') /\ SyncsFit'
         /\ syncs'[s].at \in {"save", "idle"}
         /\ copy.start = light.start => Grows
<1>1. SyncsFit /\ light \in Stores /\ Fits(light)
  BY FitsStores DEF LightInv
<1>2. CASE ~Accepts(copy)
  <2>1. Done(s) /\ light' = light
    BY <1>2 DEF Install
  <2> QED BY <1>1, <2>1, DoneFits, GrowsSame
<1>3. CASE Accepts(copy)
  <2> DEFINE l1 == [copy EXCEPT !.start = light.start]
  <2>1. PICK c \in Works : \E b \in 0 .. Len(c) : Spans(copy, c, b) /\ copy.start = b
    BY DEF Placed
  <2>2. PICK b \in 0 .. Len(c) : Spans(copy, c, b) /\ copy.start = b
    BY <2>1
  <2>3. l1 \in Stores /\ l1.headers = copy.headers /\ l1.work = copy.work /\ l1.start = light.start
    BY <1>1, <2>2 DEF Spans, Stores
  <2>4. light' = Trim(l1)
    BY <1>3 DEF Install
  <2>5. \/ Save(s) \/ Done(s)
    BY <1>3 DEF Install
  <2> HIDE DEF l1
  <2>6. Spans(l1, c, b)
    BY <2>2, <2>3 DEF Spans
  <2>7. PICK a \in 0 .. Len(c) : Spans(light', c, a) /\ (l1.start = b => light'.start = a)
    BY <2>4, <2>6, TrimSpans
  <2>8. light'.work = copy.work
    BY <2>3, <2>4, <2>6, TrimSpans
  <2>9. Chained(light')
    BY <2>7 DEF Chained
  <2>10. SyncsFit' /\ syncs'[s].at \in {"save", "idle"}
    BY <1>1, <2>5, <2>9, DoneFits, SaveFits
  <2>11. copy.start = light.start => WellKept(light')
    BY <2>2, <2>3, <2>7, SpansKept
  <2>12. copy.work \in Nat /\ light.work \in Nat
    BY <1>1, <2>2 DEF Spans, Stores
  <2>13. copy.work >= light.work
    BY <1>3, <2>12 DEF Accepts
  <2> QED BY <2>8, <2>9, <2>10, <2>11, <2>13 DEF Fits, Grows
<1> QED BY <1>2, <1>3

LEMMA InstallFirstFits ==
  ASSUME LightInv, NEW s \in Syncs, NEW copy, Placed(copy), copy.start = 0, InstallFirst(s, copy)
  PROVE  /\ Fits(light') /\ SyncsFit'
         /\ syncs'[s].at \in {"save", "idle"}
         /\ light.headers = <<>> => Grows
<1>1. SyncsFit /\ light \in Stores /\ Fits(light)
  BY FitsStores DEF LightInv
<1> DEFINE l1 == [copy EXCEPT !.start = 0]
<1>2. PICK c \in Works : \E b \in 0 .. Len(c) : Spans(copy, c, b) /\ copy.start = b
  BY DEF Placed
<1>3. PICK b \in 0 .. Len(c) : Spans(copy, c, b) /\ copy.start = b
  BY <1>2
<1>4. l1 \in Stores /\ l1.headers = copy.headers /\ l1.work = copy.work /\ l1.start = b
  BY <1>3 DEF Spans, Stores
<1>5. light' = Trim(l1) /\ Save(s)
  BY DEF InstallFirst
<1> HIDE DEF l1
<1>6. Spans(l1, c, b)
  BY <1>3, <1>4 DEF Spans
<1>7. PICK a \in 0 .. Len(c) : Spans(light', c, a) /\ light'.start = a
  BY <1>4, <1>5, <1>6, TrimSpans
<1>8. Chained(light') /\ WellKept(light')
  BY <1>7, SpansKept DEF Chained
<1>9. SyncsFit' /\ syncs'[s].at = "save"
  BY <1>1, <1>5, <1>8, SaveFits
<1>10. light'.work \in Nat
  BY <1>7 DEF Spans, Stores
<1>11. light.headers = <<>> => light.work = 0
  BY <1>1, FitsStores DEF NoHeaders
<1> QED BY <1>8, <1>9, <1>10, <1>11 DEF Fits, Grows

\* What the steps of one sync keep, and what they may do to the client.
StepFits(s) == /\ Fits(light') /\ SyncsFit'
               /\ Grows \/ (Overtaken(s) /\ syncs'[s] # syncs[s])

LEMMA LightHeights ==
  ASSUME LightInv
  PROVE  /\ light \in Stores /\ light.start \in Nat /\ light.work \in Nat
         /\ Len(light.headers) \in Nat
         /\ light.headers # <<>> => Height \in Nat
<1>1. light \in Stores
  BY FitsStores DEF LightInv
<1>2. light.headers \in Seq(Works) /\ Len(light.headers) \in Nat
  BY <1>1, LenProperties DEF Stores
<1>3. ASSUME light.headers # <<>> PROVE Height \in Nat
  <2>1. Len(light.headers) \in 1 .. Len(light.headers)
    BY <1>2, <1>3, EmptySeq
  <2>2. Last(light.headers) \in Works
    BY <1>2, <2>1, ElementOfSeq DEF Last
  <2> QED BY <2>2, LenProperties DEF Height, Works
<1> QED BY <1>1, <1>2, <1>3 DEF Stores

LEMMA WalkFits ==
  ASSUME SyncsFit, NEW s \in Syncs, NEW y \in SyncStates, y.node \in Seeds, Walk(s, y)
  PROVE  SyncsFit'
<1>1. CASE Done(s)
  BY <1>1, DoneFits
<1>2. CASE syncs' = [syncs EXCEPT ![s] = [y EXCEPT !.at = "walk"]]
  <2> DEFINE z == [y EXCEPT !.at = "walk"]
  <2>1. z \in SyncStates /\ z.at = "walk" /\ z.node \in Seeds
    BY DEF SyncStates
  <2>2. SyncFits(z)
    BY <2>1 DEF SyncFits
  <2> HIDE DEF z
  <2>3. syncs' = [syncs EXCEPT ![s] = z]
    BY <1>2 DEF z
  <2> QED BY <2>1, <2>2, <2>3, SyncsSet
<1> QED BY <1>1, <1>2 DEF Walk

\* Genesis, before which there is nothing.
LEMMA GenesisPlaced ==
  ASSUME NEW l \in Stores, l.headers = <<(<<>>)>>, l.work = 0, l.start = 0
  PROVE  Placed(l)
<1> DEFINE e == <<>>
<1>1. e \in Works /\ Len(e) = 0 /\ DOMAIN e = {}
  BY EmptySeq DEF Works
<1>2. Weight(e) = 0
  BY <1>1, TotalZero DEF Weight
<1> HIDE DEF e
<1>3. 0 \in 0 .. Len(e)
  BY <1>1
<1>4. Upto(e, 0) = e
  BY <1>1, UptoFull
<1>5. l.headers = From(e, 0)
  <2>1. l.headers \in Seq(Works) /\ Len(l.headers) = 1 /\ l.headers[1] = e
    <3>1. l.headers = <<e>>
      BY Zenon DEF e
    <3>2. l.headers \in Seq(Works)
      BY DEF Stores
    <3>3. Len(<<e>>) = 1 /\ <<e>>[1] = e
      OBVIOUS
    <3> QED BY <3>1, <3>2, <3>3, Zenon
  <2>2. Len(l.headers) = Len(e) - 0 + 1
    BY <1>1, <2>1
  <2>3. \A k \in 1 .. Len(e) - 0 + 1 : l.headers[k] = Upto(e, 0 + k - 1)
    <3> TAKE k \in 1 .. Len(e) - 0 + 1
    <3>1. k = 1 /\ 0 + k - 1 = 0
      BY <1>1
    <3> QED BY <1>4, <2>1, <3>1
  <2> QED BY <1>1, <1>3, <2>1, <2>2, <2>3, SameHeaders
<1>6. Spans(l, e, 0)
  BY <1>2, <1>5 DEF Spans
<1> QED BY <1>1, <1>3, <1>6 DEF Placed

LEMMA AskStatusFits ==
  ASSUME LightInv, NEW s \in Syncs, NEW n \in Seeds, AskStatus(s, n)
  PROVE  StepFits(s)
<1>1. light' = light /\ SyncsFit
  BY DEF AskStatus, LightInv
<1>2. Grows /\ Fits(light')
  BY <1>1, GrowsSame DEF LightInv
<1> DEFINE asked == [Ready EXCEPT !.node = n, !.peer = Len(served[n])]
<1>3. Len(served[n]) \in Nat
  BY LenProperties DEF LightInv, Works
<1>4. /\ asked \in SyncStates /\ asked.node = n /\ asked.peer = Len(served[n])
      /\ asked.copy = NoHeaders
  <2>1. NoHeaders \in Stores
    BY EmptySeq DEF NoHeaders, Stores
  <2> QED BY <1>3, <2>1 DEF SyncStates, Ready
<1>5. CASE light.headers = <<>>
  <2> DEFINE g == [NoHeaders EXCEPT !.headers = <<(<<>>)>>]
             y == [asked EXCEPT !.at = "first", !.copy = g, !.lo = 1]
  <2>1. syncs' = [syncs EXCEPT ![s] =
                    [asked EXCEPT !.at = "first", !.copy.headers = <<(<<>>)>>, !.lo = 1]]
    BY <1>5 DEF AskStatus
  <2>2. <<(<<>>)>> \in Seq(Works)
    BY EmptySeq DEF Works
  <2>3. g \in Stores /\ g.headers = <<(<<>>)>> /\ g.work = 0 /\ g.start = 0
    BY <2>2 DEF NoHeaders, Stores
  <2>4. Placed(g)
    BY <2>3, GenesisPlaced
  <2>5. y = [asked EXCEPT !.at = "first", !.copy.headers = <<(<<>>)>>, !.lo = 1]
    BY <1>4 DEF SyncStates
  <2> HIDE DEF g
  <2>6. /\ y \in SyncStates /\ y.at = "first" /\ y.copy = g /\ y.lo = 1 /\ y.node = n
    <3> DEFINE y1 == [asked EXCEPT !.at = "first"]
               y2 == [y1 EXCEPT !.copy = g]
    <3>1. y1 \in SyncStates /\ y1.at = "first" /\ y1.node = n
      BY <1>4 DEF SyncStates
    <3>2. y = [y1 EXCEPT !.copy = g, !.lo = 1]
      BY <1>4 DEF SyncStates
    <3> HIDE DEF y1, y
    <3>3. y2 \in SyncStates /\ y2.at = "first" /\ y2.node = n /\ y2.copy = g
      BY <2>3, <3>1 DEF SyncStates
    <3>4. y = [y2 EXCEPT !.lo = 1]
      BY <3>1, <3>2 DEF SyncStates
    <3> HIDE DEF y2
    <3> QED BY <3>3, <3>4 DEF SyncStates
  <2> HIDE DEF y
  <2>7. SyncFits(y)
    BY <2>3, <2>4, <2>6 DEF SyncFits
  <2>8. SyncsFit'
    BY <1>1, <2>1, <2>5, <2>6, <2>7, SyncsSet
  <2> QED BY <1>2, <2>8 DEF StepFits
<1>6. CASE light.headers # <<>>
  <2> DEFINE y == [asked EXCEPT !.h = Minimum(Height, asked.peer), !.step = 1]
  <2>1. Walk(s, y)
    BY <1>6 DEF AskStatus
  <2>2. Minimum(Height, asked.peer) \in Nat
    BY <1>3, <1>4, <1>6, LightHeights DEF Minimum
  <2>3. y \in SyncStates /\ y.node \in Seeds
    BY <1>4, <2>2 DEF SyncStates
  <2> HIDE DEF y
  <2>4. SyncsFit'
    BY <1>1, <2>1, <2>3, WalkFits
  <2> QED BY <1>2, <2>4 DEF StepFits
<1> QED BY <1>5, <1>6

LEMMA AskCommonFits ==
  ASSUME LightInv, NEW s \in Syncs, AskCommon(s)
  PROVE  StepFits(s)
<1>1. PICK sync, chain : sync = syncs[s] /\ chain = served[sync.node]
  OBVIOUS
<1>2. PICK h : h = sync.h
  OBVIOUS
<1>3. PICK theirs : theirs = IF h <= Len(chain) THEN <<Upto(chain, h)>> ELSE <<>>
  OBVIOUS
<1>4. PICK ours : ours = At(h - light.start)
  OBVIOUS
<1>5. /\ sync.at = "walk"
      /\ \/ /\ theirs # <<>> /\ ours = <<>>
            /\ Done(s) /\ UNCHANGED light
         \/ /\ theirs # <<>> /\ ours = theirs
            /\ IF h < sync.peer
               THEN /\ syncs' = [syncs EXCEPT ![s] = [sync EXCEPT !.at = "pages",
                                    !.copy = Shared(h), !.lo = h + 1]]
                    /\ UNCHANGED light
               ELSE Install(s, Shared(h))
         \/ /\ theirs = <<>> \/ (ours # <<>> /\ ours # theirs)
            /\ IF h = light.start
               THEN Done(s)
               ELSE Walk(s, [sync EXCEPT !.h = Maximum(h - sync.step, light.start), !.step = 2 * @])
            /\ UNCHANGED light
  BY <1>1, <1>2, <1>3, <1>4, Zenon DEF AskCommon
<1>6. SyncsFit /\ Fits(light) /\ light.start \in Nat /\ Len(light.headers) \in Nat
  BY LightHeights DEF LightInv
<1>7. /\ sync \in SyncStates /\ SyncFits(sync) /\ sync.node \in Seeds /\ h \in Nat
      /\ sync.step \in Nat
  BY <1>1, <1>2, <1>5, <1>6 DEF SyncsFit, SyncFits, SyncStates
<1>8. chain \in Works /\ Len(chain) \in Nat
  BY <1>1, <1>7, LenProperties DEF LightInv, Works
<1>9. ASSUME Done(s), light' = light PROVE StepFits(s)
  BY <1>6, <1>9, DoneFits, GrowsSame DEF StepFits
<1>10. CASE theirs # <<>> /\ ours = theirs
  <2>1. h \in 0 .. Len(chain) /\ theirs = <<Upto(chain, h)>>
    BY <1>3, <1>7, <1>8, <1>10
  <2>2. /\ h - light.start \in 0 .. Len(light.headers) - 1
        /\ ours = <<light.headers[h - light.start + 1]>>
    BY <1>4, <1>10 DEF At
  <2>3. light.headers[h - light.start + 1] = Upto(chain, h)
    BY <1>10, <2>1, <2>2
  <2>4. light # NoHeaders
    <3>1. 0 \notin 0 .. Len(NoHeaders.headers) - 1 /\ Len(NoHeaders.headers) = 0
      BY EmptySeq DEF NoHeaders
    <3>2. Len(light.headers) # 0
      BY <1>6, <1>7, <2>2
    <3> QED BY <3>1, <3>2
  <2>5. PICK c \in Works : \E b \in 0 .. Len(c) : Spans(light, c, b)
    BY <1>6, <2>4 DEF Fits, Chained
  <2>6. PICK b \in 0 .. Len(c) : Spans(light, c, b)
    BY <2>5
  <2>7. /\ Placed(Shared(h)) /\ Shared(h).start = light.start
    BY <1>8, <2>1, <2>2, <2>3, <2>6, SharedSpans
  <2>8. CASE h < sync.peer
    <3> DEFINE copy == Shared(h)
               y == [sync EXCEPT !.at = "pages", !.copy = copy, !.lo = h + 1]
    <3>1. syncs' = [syncs EXCEPT ![s] = y] /\ light' = light
      BY <1>5, <1>10, <2>8
    <3>2. copy \in Stores /\ Placed(copy)
      BY <2>7, PlacedChained
    <3> HIDE DEF copy
    <3>3. y \in SyncStates /\ y.at = "pages" /\ y.copy = copy /\ y.lo = h + 1 /\ y.node = sync.node
      <4> DEFINE y1 == [sync EXCEPT !.at = "pages"]
                 y2 == [y1 EXCEPT !.copy = copy]
      <4>1. y1 \in SyncStates /\ y1.at = "pages" /\ y1.node = sync.node
        BY <1>7 DEF SyncStates
      <4>2. y = [y1 EXCEPT !.copy = copy, !.lo = h + 1]
        BY <1>7 DEF SyncStates
      <4> HIDE DEF y1, y
      <4>3. y2 \in SyncStates /\ y2.at = "pages" /\ y2.node = sync.node /\ y2.copy = copy
        BY <3>2, <4>1 DEF SyncStates
      <4>4. y = [y2 EXCEPT !.lo = h + 1]
        BY <4>1, <4>2 DEF SyncStates
      <4> HIDE DEF y2
      <4> QED BY <1>7, <4>3, <4>4 DEF SyncStates
    <3> HIDE DEF y
    <3>4. SyncFits(y)
      BY <1>7, <3>2, <3>3 DEF SyncFits
    <3>5. SyncsFit'
      BY <1>6, <3>1, <3>3, <3>4, SyncsSet
    <3> QED BY <1>6, <3>1, <3>5, GrowsSame DEF StepFits
  <2>9. CASE ~(h < sync.peer)
    <3>1. Install(s, Shared(h))
      BY <1>5, <1>10, <2>9
    <3> QED BY <2>7, <3>1, InstallFits DEF StepFits
  <2> QED BY <2>8, <2>9
<1>11. CASE theirs = <<>> \/ (ours # <<>> /\ ours # theirs)
  <2>1. light' = light
    BY <1>5, <1>11
  <2>2. CASE h # light.start
    <3> DEFINE y == [sync EXCEPT !.h = Maximum(h - sync.step, light.start), !.step = 2 * @]
    <3>1. Walk(s, y)
      BY <1>5, <1>11, <2>2
    <3>2. Maximum(h - sync.step, light.start) \in Nat /\ 2 * sync.step \in Nat
      BY <1>6, <1>7 DEF Maximum
    <3>3. y \in SyncStates /\ y.node \in Seeds
      BY <1>7, <3>2 DEF SyncStates
    <3> HIDE DEF y
    <3>4. SyncsFit'
      BY <1>6, <3>1, <3>3, WalkFits
    <3> QED BY <1>6, <2>1, <3>4, GrowsSame DEF StepFits
  <2> QED BY <1>5, <1>9, <1>11, <2>1, <2>2
<1> QED BY <1>5, <1>9, <1>10, <1>11

\* The header before a page, and the pages after it.
LEMMA AskHeadersFits ==
  ASSUME LightInv, NEW s \in Syncs, AskHeaders(s)
  PROVE  StepFits(s)
<1>1. PICK sync, chain : sync = syncs[s] /\ chain = served[sync.node]
  OBVIOUS
<1>2. PICK hi : hi = Minimum(sync.lo + HeadersPage - 1, sync.peer)
  OBVIOUS
<1>3. PICK m, lo : m = Minimum(hi, Len(chain)) /\ lo = sync.lo
  OBVIOUS
<1>4. PICK page : page = Page(chain, lo, m)
  OBVIOUS
<1>5. PICK copy : copy = Added(sync.copy, page)
  OBVIOUS
<1> DEFINE ended == lo > sync.peer \/ page = <<>>
           End(d) == IF sync.at = "first" THEN InstallFirst(s, d) ELSE Install(s, d)
<1>6. /\ sync.at \in {"first", "pages"}
      /\ \/ ended /\ End(sync.copy)
         \/ /\ ~ended /\ Links(sync.copy, page)
            /\ IF hi < sync.peer
               THEN /\ syncs' = [syncs EXCEPT ![s] = [sync EXCEPT !.copy = copy, !.lo = hi + 1]]
                    /\ UNCHANGED light
               ELSE End(copy)
         \/ /\ ~ended /\ ~Links(sync.copy, page)
            /\ Done(s) /\ UNCHANGED light
  BY <1>1, <1>2, <1>3, <1>4, <1>5, Zenon DEF AskHeaders, Page, Added
<1>7. /\ SyncsFit /\ Fits(light) /\ light.start \in Nat
  BY LightHeights DEF LightInv
<1>8. /\ sync \in SyncStates /\ SyncFits(sync) /\ sync.node \in Seeds
      /\ Placed(sync.copy) /\ lo \in Nat \ {0} /\ sync.peer \in Nat
      /\ sync.at = "first" => sync.copy.start = 0
  BY <1>1, <1>3, <1>6, <1>7 DEF SyncsFit, SyncFits, SyncStates
<1>9. chain \in Works /\ Len(chain) \in Nat
  BY <1>1, <1>8, LenProperties DEF LightInv, Works
<1>10. hi \in Nat /\ m \in Nat /\ m <= Len(chain) /\ m <= hi
  <2>1. HeadersPage \in Nat /\ HeadersPage >= 1
    BY LightAssumption
  <2>2. hi \in Nat
    BY <1>2, <1>3, <1>8, <2>1 DEF Minimum
  <2> QED BY <1>3, <1>9, <2>2 DEF Minimum
\* Whatever the sync ends with, it has grown or was overtaken.
<1>11. ASSUME NEW d, Placed(d), d.start = sync.copy.start, End(d) PROVE StepFits(s)
  <2>1. syncs[s] = sync
    BY <1>1
  <2>2. CASE sync.at = "first"
    <3>1. InstallFirst(s, d) /\ d.start = 0
      BY <1>8, <1>11, <2>2
    <3>2. /\ Fits(light') /\ SyncsFit' /\ syncs'[s].at \in {"save", "idle"}
          /\ light.headers = <<>> => Grows
      BY <1>11, <3>1, InstallFirstFits
    <3>3. light.headers # <<>> => Overtaken(s)
      BY <2>1, <2>2 DEF Overtaken
    <3>4. syncs'[s] # syncs[s]
      BY <2>1, <2>2, <3>2
    <3> QED BY <3>2, <3>3, <3>4 DEF StepFits
  <2>3. CASE sync.at = "pages"
    <3>1. Install(s, d)
      BY <1>11, <2>3
    <3>2. /\ Fits(light') /\ SyncsFit' /\ syncs'[s].at \in {"save", "idle"}
          /\ d.start = light.start => Grows
      BY <1>11, <3>1, InstallFits
    <3>3. d.start # light.start => Overtaken(s)
      BY <1>11, <2>1, <2>3 DEF Overtaken
    <3>4. syncs'[s] # syncs[s]
      BY <2>1, <2>3, <3>2
    <3> QED BY <3>2, <3>3, <3>4 DEF StepFits
  <2> QED BY <1>6, <2>2, <2>3
<1>12. CASE ended /\ End(sync.copy)
  BY <1>8, <1>11, <1>12
<1>13. CASE ~ended /\ ~Links(sync.copy, page) /\ Done(s) /\ light' = light
  BY <1>7, <1>13, DoneFits, GrowsSame DEF StepFits
<1>14. CASE ~ended /\ Links(sync.copy, page)
  <2>1. m \in lo .. Len(chain)
    <3> SUFFICES ASSUME m < lo PROVE FALSE
      BY <1>8, <1>9, <1>10
    <3>1. 1 .. m - lo + 1 = {} /\ 1 .. 0 = {}
      BY <1>8, <1>10
    <3>2. DOMAIN page = 1 .. 0
      BY <1>4, <3>1 DEF Page
    <3>3. page \in [1 .. 0 -> Works]
      BY <1>4, <3>1 DEF Page
    <3>4. page \in Seq(Works)
      BY <3>3, SeqDef
    <3>5. Len(page) = 0
      BY <3>1, <3>2, <3>4, LenProperties
    <3> QED BY <1>14, <3>4, <3>5, EmptySeq
  <2>2. PICK c \in Works : \E b \in 0 .. Len(c) : Spans(sync.copy, c, b) /\ sync.copy.start = b
    BY <1>8 DEF Placed
  <2>3. PICK b \in 0 .. Len(c) : Spans(sync.copy, c, b) /\ sync.copy.start = b
    BY <2>2
  <2>4. /\ Upto(chain, m) \in Works /\ b \in 0 .. Len(Upto(chain, m))
        /\ Spans(copy, Upto(chain, m), b) /\ copy.start = sync.copy.start
    BY <1>4, <1>5, <1>8, <1>9, <1>14, <2>1, <2>3, PageSpans
  <2>5. Placed(copy) /\ copy \in Stores /\ copy.start = sync.copy.start
    BY <2>3, <2>4 DEF Placed, Spans
  <2>6. CASE hi < sync.peer
    <3> DEFINE y == [sync EXCEPT !.copy = copy, !.lo = hi + 1]
    <3>1. syncs' = [syncs EXCEPT ![s] = y] /\ light' = light
      BY <1>6, <1>14, <2>6
    <3>2. y \in SyncStates /\ y.at = sync.at /\ y.copy = copy /\ y.lo = hi + 1 /\ y.node = sync.node
      <4> DEFINE y1 == [sync EXCEPT !.copy = copy]
      <4>1. y1 \in SyncStates /\ y1.at = sync.at /\ y1.node = sync.node /\ y1.copy = copy
        BY <1>8, <2>5 DEF SyncStates
      <4>2. y = [y1 EXCEPT !.lo = hi + 1]
        BY <1>8 DEF SyncStates
      <4> HIDE DEF y1, y
      <4> QED BY <1>10, <4>1, <4>2 DEF SyncStates
    <3> HIDE DEF y
    <3>3. SyncFits(y)
      BY <1>6, <1>8, <1>10, <2>5, <3>2 DEF SyncFits
    <3>4. SyncsFit'
      BY <1>7, <3>1, <3>2, <3>3, SyncsSet
    <3> QED BY <1>7, <3>1, <3>4, GrowsSame DEF StepFits
  <2>7. CASE ~(hi < sync.peer)
    <3>1. End(copy)
      BY <1>6, <1>14, <2>7
    <3> QED BY <1>11, <2>5, <3>1
  <2> QED BY <2>6, <2>7
<1> QED BY <1>6, <1>12, <1>13, <1>14

LEMMA SavedFits ==
  ASSUME LightInv, NEW s \in Syncs, Saved(s)
  PROVE  LightInv' /\ Grows
<1>1. /\ syncs[s].at = "save" /\ lightFile' = syncs[s].copy /\ Done(s)
      /\ UNCHANGED <<served, light, restarts>>
  BY DEF Saved
<1>2. Chained(syncs[s].copy)
  BY <1>1 DEF LightInv, SyncsFit, SyncFits
<1>3. Fits(lightFile')
  BY <1>1, <1>2 DEF Fits
<1>4. SyncsFit'
  BY <1>1, DoneFits DEF LightInv
<1> QED BY <1>1, <1>3, <1>4, GrowsSame DEF LightInv

LEMMA SeedFits ==
  ASSUME LightInv, NEW n \in Seeds, SeedMoves(n)
  PROVE  LightInv' /\ Grows
<1>1. /\ UNCHANGED <<light, lightFile, syncs, restarts>>
      /\ \E c \in Chains : served' = [served EXCEPT ![n] = c]
  BY DEF SeedMoves
<1>2. Chains \subseteq Works
  <2> SUFFICES ASSUME NEW x \in Chains PROVE x \in Works
    OBVIOUS
  <2>1. PICK c \in Forks : x \in {Upto(c, h) : h \in 0 .. Len(c)}
    BY DEF Chains
  <2>2. c \in Works
    BY LightAssumption DEF Works
  <2> QED BY <2>1, <2>2, UptoWorks
<1>3. served' \in [Seeds -> Works]
  BY <1>1, <1>2 DEF LightInv
<1>4. SyncsFit'
  BY <1>1 DEF LightInv, SyncsFit
<1> QED BY <1>1, <1>3, <1>4, GrowsSame DEF LightInv

LEMMA RestartFits ==
  ASSUME LightInv, RestartApp
  PROVE  LightInv' /\ restarts' # restarts
<1>1. /\ light' = lightFile /\ lightFile' = lightFile /\ served' = served
      /\ syncs' = [s \in Syncs |-> Ready] /\ restarts' = restarts + 1
      /\ restarts < MaxRestarts
  BY DEF RestartApp
<1>2. SyncsFit'
  BY <1>1, ReadyFits DEF SyncsFit
<1> QED BY <1>1, <1>2 DEF LightInv

LEMMA FailsFits ==
  ASSUME LightInv, NEW s \in Syncs, SyncFails(s)
  PROVE  LightInv' /\ Grows
<1>1. Done(s) /\ UNCHANGED <<served, light, lightFile, restarts>>
  BY DEF SyncFails
<1>2. SyncsFit'
  BY <1>1, DoneFits DEF LightInv
<1> QED BY <1>1, <1>2, GrowsSame DEF LightInv

\* What every step keeps, and the three ways it may go.
LEMMA LightStep ==
  ASSUME LightInv, LightNext
  PROVE  /\ LightInv'
         /\ \/ restarts' # restarts
            \/ \E s \in Syncs : Overtaken(s) /\ syncs'[s] # syncs[s]
            \/ Grows
<1>1. ASSUME NEW s \in Syncs, StepFits(s), served' = served, lightFile' = lightFile
      PROVE  /\ LightInv'
             /\ (\E t \in Syncs : Overtaken(t) /\ syncs'[t] # syncs[t]) \/ Grows
  BY <1>1 DEF LightInv, StepFits
<1>2. CASE \E s \in Syncs, n \in Seeds : AskStatus(s, n)
  <2>1. PICK s \in Syncs, n \in Seeds : AskStatus(s, n)
    BY <1>2
  <2>2. StepFits(s)
    BY <2>1, AskStatusFits
  <2>3. served' = served /\ lightFile' = lightFile
    BY <2>1 DEF AskStatus
  <2> QED BY <1>1, <2>2, <2>3
<1>3. CASE \E s \in Syncs : AskCommon(s)
  <2>1. PICK s \in Syncs : AskCommon(s)
    BY <1>3
  <2>2. StepFits(s)
    BY <2>1, AskCommonFits
  <2>3. served' = served /\ lightFile' = lightFile
    BY <2>1 DEF AskCommon
  <2> QED BY <1>1, <2>2, <2>3
<1>4. CASE \E s \in Syncs : AskHeaders(s)
  <2>1. PICK s \in Syncs : AskHeaders(s)
    BY <1>4
  <2>2. StepFits(s)
    BY <2>1, AskHeadersFits
  <2>3. served' = served /\ lightFile' = lightFile
    BY <2>1 DEF AskHeaders
  <2> QED BY <1>1, <2>2, <2>3
<1>5. CASE \E s \in Syncs : SyncFails(s) \/ Saved(s)
  BY <1>5, FailsFits, SavedFits
<1>6. CASE RestartApp
  BY <1>6, RestartFits
<1>7. CASE \E n \in Seeds : SeedMoves(n)
  BY <1>7, SeedFits
<1> QED BY <1>2, <1>3, <1>4, <1>5, <1>6, <1>7 DEF LightNext

LEMMA LightBegins ==
  ASSUME LightInit
  PROVE  LightInv
<1>1. <<>> \in Works
  BY EmptySeq DEF Works
<1>2. served \in [Seeds -> Works]
  BY <1>1 DEF LightInit
<1>3. SyncsFit
  BY ReadyFits DEF LightInit, SyncsFit
<1> QED BY <1>2, <1>3 DEF LightInit, LightInv, Fits

LEMMA LightStays ==
  ASSUME LightInv, UNCHANGED lightVars
  PROVE  LightInv'
BY DEF LightInv, lightVars, Fits, SyncsFit

-----------------------------------------------------------------------------
(* The push relay and the parcel store.                                     *)

Txs == Letters \cup Payments

\* Every transaction is in at most one place: a block, or the mempool.
FeedInv ==
  /\ blocks \in Seq(SUBSET Txs)
  /\ mempool \subseteq Txs
  /\ reorgs \in Nat
  /\ \A i, j \in 1 .. Tip : i # j => blocks[i] \cap blocks[j] = {}
  /\ \A i \in 1 .. Tip : blocks[i] \cap mempool = {}

\* What a chain has that a shorter or equal one had: its length, and, without
\* a reorganisation, its blocks.
Extends(b, c) ==
  /\ Len(b) <= Len(c)
  /\ \A h \in 1 .. Len(b) : c[h] = b[h]

LEMMA ArriveKeeps ==
  ASSUME FeedInv, NEW tx \in Letters \cup Payments, Arrive(tx)
  PROVE  FeedInv' /\ reorgs' = reorgs /\ Extends(blocks, blocks')
<1>1. /\ mempool' = mempool \cup {tx} /\ blocks' = blocks /\ reorgs' = reorgs
      /\ tx \notin InChain
  BY DEF Arrive
<1>2. Tip \in Nat
  BY LenProperties DEF FeedInv, Tip
<1>3. \A i \in 1 .. Tip : tx \notin blocks[i]
  BY <1>1, <1>2 DEF InChain, InBlocks
<1> QED BY <1>1, <1>2, <1>3 DEF FeedInv, Tip, Txs, Extends

LEMMA MineKeeps ==
  ASSUME FeedInv, NEW txs \in SUBSET mempool, Mine(txs)
  PROVE  FeedInv' /\ reorgs' = reorgs /\ Extends(blocks, blocks')
<1>1. /\ mempool' = mempool \ txs /\ blocks' = Append(blocks, txs) /\ reorgs' = reorgs
  BY DEF Mine
<1>2. txs \in SUBSET Txs /\ blocks \in Seq(SUBSET Txs)
  BY DEF FeedInv
<1>3. /\ blocks' \in Seq(SUBSET Txs)
      /\ Tip' = Tip + 1 /\ Tip \in Nat
      /\ \A i \in 1 .. Tip : blocks'[i] = blocks[i]
      /\ blocks'[Tip + 1] = txs
  BY <1>1, <1>2, AppendProperties, LenProperties DEF Tip
<1>4. Extends(blocks, blocks')
  BY <1>3 DEF Extends, Tip
<1>5. \A i \in 1 .. Tip' : blocks'[i] \cap mempool' = {}
  <2> TAKE i \in 1 .. Tip'
  <2>1. CASE i \in 1 .. Tip
    BY <1>1, <1>3, <2>1 DEF FeedInv
  <2>2. CASE i = Tip + 1
    BY <1>1, <1>3, <2>2
  <2> QED BY <1>3, <2>1, <2>2
<1>6. \A i, j \in 1 .. Tip' : i # j => blocks'[i] \cap blocks'[j] = {}
  <2> SUFFICES ASSUME NEW i \in 1 .. Tip', NEW j \in 1 .. Tip', i # j
               PROVE  blocks'[i] \cap blocks'[j] = {}
    OBVIOUS
  <2>1. CASE i \in 1 .. Tip /\ j \in 1 .. Tip
    BY <1>3, <2>1 DEF FeedInv
  <2>2. CASE i = Tip + 1 /\ j \in 1 .. Tip
    BY <1>3, <2>2 DEF FeedInv
  <2>3. CASE j = Tip + 1 /\ i \in 1 .. Tip
    BY <1>3, <2>3 DEF FeedInv
  <2> QED BY <1>3, <2>1, <2>2, <2>3
<1>7. mempool' \subseteq Txs /\ reorgs' \in Nat
  BY <1>1 DEF FeedInv
<1> QED BY <1>1, <1>3, <1>4, <1>5, <1>6, <1>7 DEF FeedInv

LEMMA ReorganiseKeeps ==
  ASSUME FeedInv, NEW txs \in SUBSET (mempool \cup InBlocks(Tip, Tip)), Reorganise(txs)
  PROVE  FeedInv' /\ reorgs' = reorgs + 1 /\ Tip' = Tip
<1>1. /\ mempool' = mempool \ txs /\ blocks' = [blocks EXCEPT ![Tip] = txs]
      /\ reorgs' = reorgs + 1 /\ Tip > 0
  BY DEF Reorganise
<1>2. blocks \in Seq(SUBSET Txs) /\ Tip \in Nat /\ Tip \in 1 .. Tip
  BY <1>1, LenProperties DEF FeedInv, Tip
<1>3. InBlocks(Tip, Tip) = blocks[Tip]
  BY <1>2 DEF InBlocks
<1>4. blocks[Tip] \in SUBSET Txs
  BY <1>2, ElementOfSeq DEF Tip
<1>5. txs \in SUBSET Txs
  BY <1>3, <1>4 DEF FeedInv
<1>6. /\ blocks' \in Seq(SUBSET Txs) /\ Tip' = Tip
      /\ \A i \in 1 .. Tip : blocks'[i] = IF i = Tip THEN txs ELSE blocks[i]
  BY <1>1, <1>2, <1>5, ExceptSeq DEF Tip
<1>7. \A i \in 1 .. Tip : i # Tip => txs \cap blocks[i] = {}
  BY <1>2, <1>3 DEF FeedInv
<1>8. \A i, j \in 1 .. Tip' : i # j => blocks'[i] \cap blocks'[j] = {}
  BY <1>2, <1>6, <1>7 DEF FeedInv
<1>9. \A i \in 1 .. Tip' : blocks'[i] \cap mempool' = {}
  BY <1>1, <1>6 DEF FeedInv
<1>10. mempool' \subseteq Txs /\ reorgs' \in Nat
  BY <1>1 DEF FeedInv
<1> QED BY <1>1, <1>6, <1>8, <1>9, <1>10 DEF FeedInv

LEMMA FeedKeeps ==
  ASSUME FeedInv, FeedNext
  PROVE  /\ FeedInv'
         /\ Tip <= Tip'
         /\ reorgs' = 0 => reorgs = 0 /\ Extends(blocks, blocks')
<1>1. Tip \in Nat /\ reorgs \in Nat
  BY LenProperties DEF FeedInv, Tip
<1>2. ASSUME NEW tx \in Letters \cup Payments, Arrive(tx)
      PROVE  FeedInv' /\ reorgs' = reorgs /\ Extends(blocks, blocks')
  BY <1>2, ArriveKeeps
<1>3. ASSUME NEW txs \in SUBSET mempool, Mine(txs)
      PROVE  FeedInv' /\ reorgs' = reorgs /\ Extends(blocks, blocks')
  BY <1>3, MineKeeps
<1>4. ASSUME NEW txs \in SUBSET (mempool \cup InBlocks(Tip, Tip)), Reorganise(txs)
      PROVE  FeedInv' /\ reorgs' = reorgs + 1 /\ Tip' = Tip
  BY <1>4, ReorganiseKeeps
<1>5. Extends(blocks, blocks') => Tip <= Tip'
  BY DEF Extends, Tip
<1> QED BY <1>1, <1>2, <1>3, <1>4, <1>5 DEF FeedNext

LEMMA FeedBegins ==
  ASSUME FeedInit
  PROVE  FeedInv /\ Tip = 0
BY EmptySeq DEF FeedInit, FeedInv, Tip

-----------------------------------------------------------------------------
(* The push relay.                                                          *)

LastPush(i) == pushes[i][Len(pushes[i])]

RelayType ==
  /\ registered \in BOOLEAN
  /\ relay \in [height : Nat \cup {NoHeight}, ticking : BOOLEAN, tip : Nat,
                watched : BOOLEAN, seen : BOOLEAN]
  /\ Known \subseteq Letters
  /\ notified \in [Known -> Nat]
  /\ pushes \in [Letters -> Seq(Nat)]

\* The relay is never ahead of the node, nor of the tip a tick began with.
RelayFits ==
  /\ relay.height <= Tip
  /\ relay.ticking => /\ relay.height \in Nat
                      /\ relay.height <= relay.tip /\ relay.tip <= Tip

\* Where the last push of a letter lies: not beyond the height handled, nor
\* beyond the height the letter is remembered with; and one that is not
\* remembered had it long ago.
PushFits(known, height, i) ==
  pushes[i] # <<>> =>
    /\ LastPush(i) <= height
    /\ i \in DOMAIN known => LastPush(i) <= known[i]
    /\ i \notin DOMAIN known => height - LastPush(i) > RememberBlocks

RelayInv ==
  /\ RelayType
  /\ RelayFits
  /\ \A i \in Letters : PushFits(notified, relay.height, i)
  /\ PushesAreApart

\* What a step that may announce letters leaves, before anything is forgotten:
\* `m` is what is remembered then.
Announced(m, ids, at) ==
  /\ registered' \in BOOLEAN
  /\ pushes' \in [Letters -> Seq(Nat)]
  /\ m \in [Known \cup Fresh(ids) -> Nat]
  /\ Known \cup Fresh(ids) \subseteq Letters
  /\ \A i \in Letters : pushes'[i] # <<>> =>
        LET last == pushes'[i][Len(pushes'[i])]
        IN  /\ last \in Nat /\ last <= at
            /\ i \in Known \cup Fresh(ids) => last <= m[i]
            /\ i \notin Known \cup Fresh(ids) => at - last > RememberBlocks
  /\ PushesAreApart'

LEMMA NotifyApart ==
  ASSUME RelayInv, NEW ids \in SUBSET Letters, NEW at \in Nat, relay.height <= at,
         Notify(ids, at)
  PROVE  Announced(Marked(ids, at), ids, at)
<1> DEFINE m == Marked(ids, at)
           F == Fresh(ids)
<1>1. /\ F \subseteq Letters /\ F \cap Known = {} /\ Known \subseteq Letters
      /\ notified \in [Known -> Nat] /\ pushes \in [Letters -> Seq(Nat)]
      /\ registered \in BOOLEAN /\ relay.height \in Int /\ RememberBlocks \in Nat
  BY PushAssumption DEF RelayInv, RelayType, Fresh, NoHeight
<1>2. /\ m \in [Known \cup F -> Nat]
      /\ \A i \in Known : m[i] = notified[i]
      /\ \A i \in F : m[i] = at
  BY <1>1 DEF Marked
<1>3. \A i \in Letters : pushes[i] # <<>> =>
        /\ LastPush(i) \in Nat /\ LastPush(i) <= relay.height
        /\ i \in Known => LastPush(i) <= notified[i]
        /\ i \notin Known => relay.height - LastPush(i) > RememberBlocks
  <2> SUFFICES ASSUME NEW i \in Letters, pushes[i] # <<>>
               PROVE  LastPush(i) \in Nat
    BY DEF RelayInv, PushFits, Known
  <2>1. pushes[i] \in Seq(Nat)
    BY <1>1
  <2>2. Len(pushes[i]) \in 1 .. Len(pushes[i])
    BY <2>1, EmptySeq
  <2> QED BY <2>1, <2>2, ElementOfSeq DEF LastPush
<1>4. \A i \in Letters : pushes[i] \in Seq(Nat)
  BY <1>1
<1> HIDE DEF m, F
<1>5. CASE UNCHANGED <<registered, pushes>>
  <2>1. PushesAreApart'
    BY <1>5 DEF RelayInv, PushesAreApart
  <2>2. ASSUME NEW i \in Letters, pushes'[i] # <<>>
        PROVE  LET last == pushes'[i][Len(pushes'[i])]
               IN  /\ last \in Nat /\ last <= at
                   /\ i \in Known \cup F => last <= m[i]
                   /\ i \notin Known \cup F => at - last > RememberBlocks
    <3> DEFINE last == pushes[i][Len(pushes[i])]
    <3>1. /\ last \in Nat /\ last <= relay.height
          /\ i \in Known => last <= notified[i]
          /\ i \notin Known => relay.height - last > RememberBlocks
      BY <1>3, <1>5, <2>2 DEF LastPush
    <3>2. pushes'[i][Len(pushes'[i])] = last
      BY <1>5
    <3> HIDE DEF last
    <3> QED BY <1>1, <1>2, <3>1, <3>2
  <2> QED BY <1>1, <1>2, <1>5, <2>1, <2>2 DEF Announced, m, F
<1>6. CASE /\ registered' \in BOOLEAN
           /\ pushes' = [i \in Letters |-> IF i \in F THEN Append(pushes[i], at) ELSE pushes[i]]
  <2>1. \A i \in Letters : pushes'[i] = IF i \in F THEN Append(pushes[i], at) ELSE pushes[i]
    BY <1>6
  <2>2. \A i \in Letters : /\ Append(pushes[i], at) \in Seq(Nat)
                           /\ Len(Append(pushes[i], at)) = Len(pushes[i]) + 1
                           /\ \A k \in 1 .. Len(pushes[i]) : Append(pushes[i], at)[k] = pushes[i][k]
                           /\ Append(pushes[i], at)[Len(pushes[i]) + 1] = at
    BY <1>4, AppendProperties
  <2>3. pushes' \in [Letters -> Seq(Nat)]
    BY <1>4, <1>6, <2>2
  <2>4. ASSUME NEW i \in Letters, pushes'[i] # <<>>
        PROVE  LET last == pushes'[i][Len(pushes'[i])]
               IN  /\ last \in Nat /\ last <= at
                   /\ i \in Known \cup F => last <= m[i]
                   /\ i \notin Known \cup F => at - last > RememberBlocks
    <3>1. CASE i \in F
      <4>1. pushes'[i][Len(pushes'[i])] = at
        BY <2>1, <2>2, <3>1
      <4> QED BY <1>2, <3>1, <4>1
    <3>2. CASE i \notin F
      <4> DEFINE last == pushes[i][Len(pushes[i])]
      <4>1. pushes'[i] = pushes[i]
        BY <2>1, <3>2
      <4>2. /\ last \in Nat /\ last <= relay.height
            /\ i \in Known => last <= notified[i]
            /\ i \notin Known => relay.height - last > RememberBlocks
        BY <1>3, <2>4, <4>1 DEF LastPush
      <4>3. pushes'[i][Len(pushes'[i])] = last
        BY <4>1
      <4> HIDE DEF last
      <4> QED BY <1>1, <1>2, <3>2, <4>2, <4>3
    <3> QED BY <3>1, <3>2
  <2>5. ASSUME NEW i \in Letters, NEW k \in 1 .. Len(pushes'[i]) - 1
        PROVE  pushes'[i][k + 1] - pushes'[i][k] > RememberBlocks
    <3>1. \A j \in 1 .. Len(pushes[i]) - 1 : pushes[i][j + 1] - pushes[i][j] > RememberBlocks
      BY DEF RelayInv, PushesAreApart
    <3>2. Len(pushes[i]) \in Nat
      BY <1>4, LenProperties
    <3>3. CASE i \notin F
      BY <2>1, <3>1, <3>3
    <3>4. CASE i \in F /\ k < Len(pushes[i])
      <4>1. k \in 1 .. Len(pushes[i]) - 1 /\ k + 1 \in 1 .. Len(pushes[i]) /\ k \in 1 .. Len(pushes[i])
        BY <3>2, <3>4
      <4>2. pushes'[i][k] = pushes[i][k] /\ pushes'[i][k + 1] = pushes[i][k + 1]
        BY <2>1, <2>2, <3>4, <4>1
      <4> QED BY <3>1, <4>1, <4>2
    <3>5. CASE i \in F /\ k >= Len(pushes[i])
      <4>1. Len(pushes'[i]) = Len(pushes[i]) + 1
        BY <2>1, <2>2, <3>5
      <4>2. k = Len(pushes[i]) /\ k \in 1 .. Len(pushes[i])
        BY <3>2, <3>5, <4>1
      <4>3. pushes[i] # <<>>
        BY <4>2, EmptySeq
      <4>4. pushes'[i][k] = LastPush(i) /\ pushes'[i][k + 1] = at
        BY <2>1, <2>2, <3>5, <4>2 DEF LastPush
      <4>5. relay.height - LastPush(i) > RememberBlocks /\ LastPush(i) \in Nat
        BY <1>1, <1>3, <3>5, <4>3
      <4> QED BY <1>1, <4>4, <4>5
    <3> QED BY <3>2, <3>3, <3>4, <3>5
  <2>6. PushesAreApart'
    BY <2>5 DEF PushesAreApart
  <2> QED BY <1>1, <1>2, <1>6, <2>3, <2>4, <2>6 DEF Announced, m, F
<1> QED BY <1>5, <1>6 DEF Notify, F

LEMMA HandleBlockKeeps ==
  ASSUME FeedInv, RelayInv, HandleBlock
  PROVE  RelayInv'
<1>1. PICK h : h = relay.height + 1
  OBVIOUS
<1>2. PICK ids : ids = blocks[h] \cap Letters
  OBVIOUS
<1>3. /\ relay.ticking /\ relay.height < relay.tip
      /\ Notify(ids, h) /\ notified' = Marked(ids, h)
      /\ relay' = [relay EXCEPT !.height = h, !.seen = TRUE]
      /\ blocks' = blocks
  BY <1>1, <1>2 DEF HandleBlock, feedVars
<1>4. /\ relay.height \in Nat /\ h \in Nat /\ h <= relay.tip /\ relay.tip <= Tip
      /\ relay.tip \in Nat /\ relay.height <= h
  BY <1>1, <1>3 DEF RelayInv, RelayType, RelayFits
<1>5. ids \in SUBSET Letters
  BY <1>2
<1>6. Announced(Marked(ids, h), ids, h)
  BY <1>3, <1>4, <1>5, NotifyApart
<1>7. /\ relay' \in [height : Nat \cup {NoHeight}, ticking : BOOLEAN, tip : Nat,
                     watched : BOOLEAN, seen : BOOLEAN]
      /\ relay'.height = h /\ relay'.tip = relay.tip
  BY <1>3, <1>4 DEF RelayInv, RelayType
<1>8. Tip' = Tip /\ Tip \in Nat
  BY <1>3, LenProperties DEF Tip, FeedInv
<1>9. RelayFits'
  BY <1>4, <1>7, <1>8 DEF RelayFits
<1>10. RelayType'
  BY <1>3, <1>6, <1>7 DEF RelayType, Announced, Known
<1>11. \A i \in Letters : PushFits(notified, relay.height, i)'
  <2> SUFFICES ASSUME NEW i \in Letters PROVE PushFits(notified, relay.height, i)'
    OBVIOUS
  <2>1. DOMAIN notified' = Known \cup Fresh(ids)
    BY <1>3, <1>6 DEF Announced
  <2> QED BY <1>3, <1>6, <1>7, <2>1 DEF PushFits, Announced, LastPush
<1> QED BY <1>6, <1>9, <1>10, <1>11 DEF RelayInv, Announced

LEMMA HandleMempoolKeeps ==
  ASSUME FeedInv, RelayInv, HandleMempool
  PROVE  RelayInv'
<1>1. PICK at : at = relay.tip
  OBVIOUS
<1>2. /\ relay.ticking /\ relay.height >= at
      /\ relay' = [relay EXCEPT !.ticking = FALSE]
      /\ blocks' = blocks
  BY <1>1 DEF HandleMempool, feedVars
<1>3. PICK ids \in {mempool \cap Letters, {}} :
         LET now == Marked(ids, at)
             kept == IF relay.seen THEN {i \in DOMAIN now : Recent(now[i])} ELSE DOMAIN now
         IN  Notify(ids, at) /\ notified' = [i \in kept |-> now[i]]
  BY <1>1 DEF HandleMempool
<1>4. at \in Nat /\ relay.height = at /\ at <= Tip /\ Tip \in Nat
  BY <1>1, <1>2, LenProperties DEF RelayInv, RelayType, RelayFits, FeedInv, Tip
<1>5. ids \in SUBSET Letters
  BY <1>3
<1> DEFINE now == Marked(ids, at)
           kept == IF relay.seen THEN {i \in DOMAIN now : Recent(now[i])} ELSE DOMAIN now
<1>6. Notify(ids, at) /\ notified' = [i \in kept |-> now[i]]
  BY <1>3
<1>7. Announced(now, ids, at)
  BY <1>4, <1>5, <1>6, NotifyApart
<1>8. /\ now \in [Known \cup Fresh(ids) -> Nat]
      /\ kept \subseteq Known \cup Fresh(ids) /\ kept \subseteq Letters
      /\ \A i \in (Known \cup Fresh(ids)) \ kept : at - now[i] > RememberBlocks
  <2>1. now \in [Known \cup Fresh(ids) -> Nat] /\ DOMAIN now = Known \cup Fresh(ids)
    BY <1>7 DEF Announced
  <2>2. Known \cup Fresh(ids) \subseteq Letters
    BY <1>7 DEF Announced
  <2> HIDE DEF now
  <2>3. kept \subseteq DOMAIN now
    OBVIOUS
  <2>4. ASSUME NEW i \in DOMAIN now, i \notin kept PROVE at - now[i] > RememberBlocks
    <3>1. ~Recent(now[i])
      BY <2>4
    <3>2. now[i] \in Nat
      BY <2>1
    <3> QED BY <1>1, <1>4, <3>1, <3>2, PushAssumption DEF Recent
  <2> QED BY <2>1, <2>2, <2>3, <2>4
<1>9. PICK K : K = kept
  OBVIOUS
<1> HIDE DEF now, kept
<1>10. /\ DOMAIN notified' = K /\ notified' \in [K -> Nat]
       /\ K \subseteq Known \cup Fresh(ids) /\ K \subseteq Letters
       /\ \A i \in K : notified'[i] = now[i]
  BY <1>6, <1>8, <1>9
<1>11. /\ relay' \in [height : Nat \cup {NoHeight}, ticking : BOOLEAN, tip : Nat,
                      watched : BOOLEAN, seen : BOOLEAN]
       /\ relay'.height = at /\ relay'.ticking = FALSE /\ relay'.tip = relay.tip
  BY <1>2, <1>4 DEF RelayInv, RelayType
<1>12. RelayFits'
  BY <1>2, <1>4, <1>11 DEF RelayFits, Tip
<1>13. RelayType'
  BY <1>7, <1>10, <1>11 DEF RelayType, Announced, Known
<1>14. ASSUME NEW i \in Letters PROVE PushFits(notified, relay.height, i)'
  <2> SUFFICES ASSUME pushes'[i] # <<>>
               PROVE  LET last == pushes'[i][Len(pushes'[i])]
                      IN  /\ last <= at
                          /\ i \in K => last <= notified'[i]
                          /\ i \notin K => at - last > RememberBlocks
    BY <1>10, <1>11 DEF PushFits, LastPush
  <2> DEFINE last == pushes'[i][Len(pushes'[i])]
  <2>1. /\ last \in Nat /\ last <= at
        /\ i \in Known \cup Fresh(ids) => last <= now[i]
        /\ i \notin Known \cup Fresh(ids) => at - last > RememberBlocks
    BY <1>7 DEF Announced
  <2> HIDE DEF last
  <2>2. i \in Known \cup Fresh(ids) => now[i] \in Nat
    BY <1>8
  <2>3. i \in (Known \cup Fresh(ids)) \ K => at - now[i] > RememberBlocks
    BY <1>8, <1>9
  <2>4. RememberBlocks \in Nat
    BY PushAssumption
  <2>5. i \notin K => at - last > RememberBlocks
    BY <1>4, <2>1, <2>2, <2>3, <2>4
  <2> QED BY <1>10, <2>1, <2>5 DEF last
<1> QED BY <1>7, <1>12, <1>13, <1>14 DEF RelayInv, Announced

\* The relay's other steps announce nothing.
LEMMA RelayStepKeeps ==
  ASSUME FeedInv, RelayInv, PushNext
  PROVE  RelayInv'
<1>1. CASE Register \/ Unregister
  BY <1>1 DEF RelayInv, RelayType, RelayFits, PushFits, PushesAreApart, LastPush, Known,
              Register, Unregister, feedVars, Tip
<1>2. CASE AskRelayHeight
  <2>1. /\ blocks' = blocks /\ UNCHANGED <<registered, notified, pushes>>
        /\ ~relay.ticking
        /\ relay' = IF relay.height = NoHeight
                    THEN [relay EXCEPT !.height = Tip]
                    ELSE [relay EXCEPT !.ticking = TRUE, !.tip = Tip, !.watched = registered, !.seen = FALSE]
    BY <1>2 DEF AskRelayHeight, feedVars
  <2>2. Tip \in Nat /\ Tip' = Tip
    BY <2>1, LenProperties DEF FeedInv, Tip
  <2>3. relay.height \in Int /\ relay.height <= Tip
    BY DEF RelayInv, RelayType, RelayFits, NoHeight
  <2>4. RelayType'
    BY <2>1, <2>2 DEF RelayInv, RelayType, Known
  <2>5. RelayFits' /\ relay.height <= relay'.height /\ relay'.height \in Int
    BY <2>1, <2>2, <2>3 DEF RelayInv, RelayType, RelayFits, NoHeight
  <2>6. PushesAreApart'
    BY <2>1 DEF RelayInv, PushesAreApart
  <2>7. ASSUME NEW i \in Letters PROVE PushFits(notified, relay.height, i)'
    <3> SUFFICES ASSUME pushes[i] # <<>>
                 PROVE  /\ LastPush(i) <= relay'.height
                        /\ i \in DOMAIN notified => LastPush(i) <= notified[i]
                        /\ i \notin DOMAIN notified => relay'.height - LastPush(i) > RememberBlocks
      BY <2>1 DEF PushFits, LastPush
    <3>1. pushes[i] \in Seq(Nat)
      BY DEF RelayInv, RelayType
    <3>2. LastPush(i) \in Nat
      BY <3>1, EmptySeq, ElementOfSeq DEF LastPush
    <3>3. PushFits(notified, relay.height, i)
      BY DEF RelayInv
    <3> QED BY <2>3, <2>5, <3>2, <3>3, PushAssumption DEF PushFits
  <2> QED BY <2>4, <2>5, <2>6, <2>7 DEF RelayInv
<1>3. CASE HandleBlock
  BY <1>3, HandleBlockKeeps
<1>4. CASE BlockFails
  <2>1. /\ blocks' = blocks /\ UNCHANGED <<registered, notified, pushes>>
        /\ relay' = [relay EXCEPT !.ticking = FALSE]
    BY <1>4 DEF BlockFails, RequestFailed, feedVars
  <2>2. RelayType' /\ RelayFits' /\ relay'.height = relay.height
    BY <2>1 DEF RelayInv, RelayType, RelayFits, Known, Tip
  <2> QED BY <2>1, <2>2 DEF RelayInv, PushFits, LastPush, PushesAreApart
<1>5. CASE HandleMempool
  BY <1>5, HandleMempoolKeeps
<1>6. CASE RestartRelay
  <2>1. /\ blocks' = blocks /\ registered' = registered /\ relay' = Asleep /\ notified' = <<>>
        /\ pushes' = [i \in Letters |-> <<>>]
    BY <1>6 DEF RestartRelay, feedVars
  <2>2. Tip \in Nat /\ Tip' = Tip
    BY <2>1, LenProperties DEF FeedInv, Tip
  <2>3. Known' = {} /\ notified' \in [{} -> Nat]
    BY <2>1, EmptySeq DEF Known
  <2>4. RelayType'
    BY <2>1, <2>3, EmptySeq DEF RelayInv, RelayType, Asleep, NoHeight
  <2>5. RelayFits'
    BY <2>1, <2>2 DEF RelayFits, Asleep, NoHeight
  <2>6. PushesAreApart'
    BY <2>1, EmptySeq DEF PushesAreApart
  <2> QED BY <2>1, <2>4, <2>5, <2>6 DEF RelayInv, PushFits
<1> QED BY <1>1, <1>2, <1>3, <1>4, <1>5, <1>6 DEF PushNext

LEMMA RelayBegins ==
  ASSUME FeedInit, PushInit
  PROVE  RelayInv
<1>1. /\ registered = FALSE /\ relay = Asleep /\ notified = <<>> /\ Tip = 0
      /\ pushes = [i \in Letters |-> <<>>]
  BY FeedBegins DEF PushInit
<1>2. Known = {} /\ notified \in [{} -> Nat]
  BY <1>1, EmptySeq DEF Known
<1>3. RelayType
  BY <1>1, <1>2, EmptySeq DEF RelayType, Asleep, NoHeight
<1>4. PushesAreApart
  BY <1>1, EmptySeq DEF PushesAreApart
<1> QED BY <1>1, <1>3, <1>4 DEF RelayInv, RelayFits, PushFits, Asleep, NoHeight

\* The relay is not disturbed when the chain only grows, or changes at its end.
LEMMA RelayStays ==
  ASSUME FeedInv, RelayInv, Tip <= Tip', Tip' \in Nat, UNCHANGED pushVars
  PROVE  RelayInv'
<1>1. Tip \in Nat
  BY LenProperties DEF FeedInv, Tip
<1>2. RelayType'
  BY DEF pushVars, RelayInv, RelayType, Known
<1>3. RelayFits'
  BY <1>1 DEF pushVars, RelayInv, RelayType, RelayFits, NoHeight
<1> QED BY <1>2, <1>3 DEF pushVars, RelayInv, PushFits, LastPush, PushesAreApart

-----------------------------------------------------------------------------
(* The parcel room.                                                         *)

\* The payments in the blocks of a chain from one height to another.
PaysOf(b, lo, hi) == {x \in Payments : \E h \in 1 .. Len(b) : lo <= h /\ h <= hi /\ x \in b[h]}

LEMMA PaysIn ==
  ASSUME FeedInv, NEW lo \in Int, NEW hi \in Int
  PROVE  PaymentsIn(lo, hi) = PaysOf(blocks, lo, hi)
<1>1. Tip \in Nat
  BY LenProperties DEF FeedInv, Tip
<1> QED BY <1>1 DEF PaymentsIn, PaysOf, InBlocks, Tip

\* No payment is in two blocks.
Apart(b) == \A i, j \in 1 .. Len(b) : i # j => b[i] \cap b[j] = {}

LEMMA PaysSplit ==
  ASSUME NEW b \in Seq(SUBSET Txs), NEW lo \in Int, NEW m \in Int, NEW hi \in Int,
         lo <= m + 1, m <= hi
  PROVE  /\ PaysOf(b, lo, hi) = PaysOf(b, lo, m) \cup PaysOf(b, m + 1, hi)
         /\ Apart(b) => PaysOf(b, lo, m) \cap PaysOf(b, m + 1, hi) = {}
<1>1. Len(b) \in Nat
  BY LenProperties
<1>2. \A h \in 1 .. Len(b) : ~(h <= m /\ m + 1 <= h)
  BY <1>1
<1>3. Apart(b) => PaysOf(b, lo, m) \cap PaysOf(b, m + 1, hi) = {}
  <2> SUFFICES ASSUME Apart(b), NEW x \in PaysOf(b, lo, m) \cap PaysOf(b, m + 1, hi)
               PROVE  FALSE
    OBVIOUS
  <2>1. PICK i \in 1 .. Len(b) : i <= m /\ x \in b[i]
    BY DEF PaysOf
  <2>2. PICK j \in 1 .. Len(b) : m + 1 <= j /\ x \in b[j]
    BY DEF PaysOf
  <2>3. i # j
    BY <1>2, <2>1, <2>2
  <2> QED BY <2>1, <2>2, <2>3 DEF Apart
<1>4. PaysOf(b, lo, hi) = PaysOf(b, lo, m) \cup PaysOf(b, m + 1, hi)
  BY <1>1 DEF PaysOf
<1> QED BY <1>3, <1>4

\* What a longer chain says of the blocks both have.
LEMMA PaysExtend ==
  ASSUME NEW b \in Seq(SUBSET Txs), NEW c \in Seq(SUBSET Txs), Extends(b, c), Apart(c),
         NEW lo \in Int
  PROVE  /\ \A hi \in Int : hi <= Len(b) => PaysOf(c, lo, hi) = PaysOf(b, lo, hi)
         /\ PaysOf(b, 1, Len(b)) \subseteq PaysOf(c, 1, Len(c))
         /\ PaysOf(b, 1, Len(b)) \cap PaysOf(c, lo, Len(c))
              = PaysOf(b, 1, Len(b)) \cap PaysOf(b, lo, Len(b))
<1>1. /\ Len(b) \in Nat /\ Len(c) \in Nat /\ Len(b) <= Len(c)
      /\ \A h \in 1 .. Len(b) : c[h] = b[h]
  BY LenProperties DEF Extends
<1>2. ASSUME NEW hi \in Int, hi <= Len(b)
      PROVE  PaysOf(c, lo, hi) = PaysOf(b, lo, hi)
  BY <1>1, <1>2 DEF PaysOf
<1>3. PaysOf(b, 1, Len(b)) \subseteq PaysOf(c, 1, Len(c))
  BY <1>1 DEF PaysOf
<1>4. PaysOf(b, lo, Len(b)) \subseteq PaysOf(c, lo, Len(c))
  BY <1>1 DEF PaysOf
<1>5. ASSUME NEW x \in PaysOf(b, 1, Len(b)), x \in PaysOf(c, lo, Len(c))
      PROVE  x \in PaysOf(b, lo, Len(b))
  <2>1. PICK i \in 1 .. Len(b) : x \in b[i]
    BY DEF PaysOf
  <2>2. PICK j \in 1 .. Len(c) : lo <= j /\ x \in c[j]
    BY <1>5 DEF PaysOf
  <2>3. i \in 1 .. Len(c) /\ x \in c[i]
    BY <1>1, <2>1
  <2>4. i = j
    BY <2>2, <2>3 DEF Apart
  <2> QED BY <1>1, <2>1, <2>2, <2>4 DEF PaysOf
<1> QED BY <1>2, <1>3, <1>4, <1>5

\* The watcher is where the chain is, and has a page in hand only while it reads
\* it.
WatcherFits ==
  /\ watcher \in [height : Nat \cup {NotStarted}, at : {"idle", "pages", "page"},
                  tip : Nat, todo : SUBSET Payments, hi : Nat]
  /\ watcher.height <= Tip /\ watcher.tip <= Tip
  /\ watcher.at # "idle" => watcher.height # NotStarted
  /\ watcher.at # "page" => watcher.todo = {}
  /\ watcher.at = "page" => /\ watcher.height < watcher.hi /\ watcher.hi <= Tip
                            /\ watcher.todo \subseteq PaysOf(blocks, First, watcher.hi)

\* Payments beyond the height that were counted are those of the page in hand.
Beyond == counted \cap PaysOf(blocks, First, Tip)
InHand == IF watcher.at = "page" THEN PaysOf(blocks, First, watcher.hi) \ watcher.todo ELSE {}

CountedFits ==
  /\ counted \subseteq PaysOf(blocks, 1, Tip)
  /\ PaysOf(blocks, 1, watcher.height) \subseteq counted \cup skipped
  /\ watcher.height # NotStarted => Beyond = InHand

\* The record is the one on disk, and says how many payments count for it.
RecordFits ==
  /\ rec \in [paid : Nat, age : Nat \cup {NotStored}, there : BOOLEAN]
  /\ recFile = rec
  /\ Stored(rec) => rec.there
  /\ forgone \subseteq counted /\ counted \subseteq Payments
  /\ rec.paid = Cardinality(counted \ forgone)

RoomInv == Sound => WatcherFits /\ CountedFits /\ RecordFits

LEMMA RoomBegins ==
  ASSUME FeedInit, RoomInit
  PROVE  RoomInv
<1>1. /\ Tip = 0 /\ Len(blocks) = 0 /\ skipped = {} /\ counted = {} /\ forgone = {}
      /\ rec = NoRec /\ recFile = NoRec /\ watcher = Away
  BY FeedBegins DEF RoomInit, Tip
<1>2. \A lo, hi \in Int : PaysOf(blocks, lo, hi) = {}
  BY <1>1 DEF PaysOf
<1>3. WatcherFits
  BY <1>1 DEF WatcherFits, Away, NotStarted
<1>4. CountedFits
  BY <1>1, <1>2 DEF CountedFits, Away, NotStarted
<1>5. RecordFits
  BY <1>1, FS_EmptySet DEF RecordFits, NoRec, Stored, NotStored
<1> QED BY <1>3, <1>4, <1>5 DEF RoomInv

\* New blocks hold nothing that was counted.
LEMMA RoomStays ==
  ASSUME FeedInv, RoomInv, FeedNext, UNCHANGED roomVars
  PROVE  RoomInv'
<1> SUFFICES ASSUME Sound' PROVE (WatcherFits /\ CountedFits /\ RecordFits)'
  BY DEF RoomInv
<1>1. /\ UNCHANGED <<rec, recFile, deleting, watcher, saveFailed, skipped, counted, forgone>>
  BY DEF roomVars
<1>2. /\ FeedInv' /\ Tip <= Tip' /\ reorgs = 0 /\ Extends(blocks, blocks')
  BY FeedKeeps DEF Sound
<1>3. WatcherFits /\ CountedFits /\ RecordFits
  BY <1>1, <1>2 DEF RoomInv, Sound
<1>4. /\ blocks \in Seq(SUBSET Txs) /\ blocks' \in Seq(SUBSET Txs) /\ Apart(blocks')
      /\ Tip \in Nat /\ Tip' \in Nat
  BY <1>2, LenProperties DEF FeedInv, Apart, Tip
<1>5. PICK c : c = blocks'
  OBVIOUS
<1>6. /\ First \in Int /\ First' = First
      /\ watcher.height \in Int /\ watcher.hi \in Int
  BY <1>1, <1>3 DEF WatcherFits, First, NotStarted
<1>7. /\ \A hi \in Int : hi <= Tip => PaysOf(c, First, hi) = PaysOf(blocks, First, hi)
      /\ PaysOf(blocks, 1, Tip) \subseteq PaysOf(c, 1, Len(c))
      /\ PaysOf(blocks, 1, Tip) \cap PaysOf(c, First, Len(c))
              = PaysOf(blocks, 1, Tip) \cap PaysOf(blocks, First, Tip)
  BY <1>2, <1>4, <1>5, <1>6, PaysExtend DEF Tip
<1>8. \A hi \in Int : hi <= Tip => PaysOf(c, 1, hi) = PaysOf(blocks, 1, hi)
  BY <1>2, <1>4, <1>5, <1>6, PaysExtend DEF Tip
<1>9. Tip' = Len(c)
  BY <1>5 DEF Tip
<1>10. WatcherFits'
  <2>1. watcher.at = "page" => watcher.hi <= Tip /\ PaysOf(c, First, watcher.hi) = PaysOf(blocks, First, watcher.hi)
    BY <1>3, <1>6, <1>7 DEF WatcherFits
  <2> QED BY <1>1, <1>2, <1>3, <1>4, <1>5, <1>6, <2>1 DEF WatcherFits, NotStarted
<1>11. CountedFits'
  <2>1. InHand' = InHand
    BY <1>1, <1>3, <1>5, <1>6, <1>7 DEF InHand, WatcherFits
  <2>2. counted \subseteq PaysOf(blocks, 1, Tip)
    BY <1>3 DEF CountedFits
  <2>3. Beyond' = Beyond
    BY <1>1, <1>5, <1>6, <1>7, <1>9, <2>2 DEF Beyond
  <2>4. counted \subseteq PaysOf(c, 1, Len(c))
    BY <1>7, <2>2
  <2>5. PaysOf(c, 1, watcher.height) \subseteq counted \cup skipped
    BY <1>3, <1>6, <1>8 DEF CountedFits, WatcherFits
  <2> QED BY <1>1, <1>3, <1>5, <1>9, <2>1, <2>3, <2>4, <2>5 DEF CountedFits
<1>12. RecordFits'
  BY <1>1, <1>3 DEF RecordFits, Stored
<1> QED BY <1>10, <1>11, <1>12

\* A step of the room leaves the node alone.
RoomFits == WatcherFits /\ CountedFits /\ RecordFits
chainAndGhosts == <<blocks, skipped, counted>>

LEMMA RoomChain ==
  ASSUME FeedInv, WatcherFits
  PROVE  /\ blocks \in Seq(SUBSET Txs) /\ Apart(blocks)
         /\ Tip \in Nat /\ Tip = Len(blocks)
         /\ watcher.height \in Int /\ First = watcher.height + 1 /\ First \in Int
         /\ watcher.hi \in Nat /\ watcher.tip \in Nat
         /\ watcher.at # "idle" => watcher.height \in Nat
BY LenProperties DEF FeedInv, Apart, Tip, WatcherFits, First, NotStarted

\* Where the watcher is only matters through what it has passed and has in hand.
LEMMA CountedStays ==
  ASSUME FeedInv, WatcherFits, CountedFits, UNCHANGED chainAndGhosts,
         \/ watcher'.height = NotStarted
         \/ /\ watcher'.height = watcher.height
            /\ watcher.at # "page" /\ watcher'.at # "page"
  PROVE  CountedFits'
<1>1. /\ blocks' = blocks /\ skipped' = skipped /\ counted' = counted /\ Tip' = Tip
  BY DEF chainAndGhosts, Tip
<1>2. CASE watcher'.height = NotStarted
  <2>1. \A h \in 1 .. Len(blocks) : ~(1 <= h /\ h <= NotStarted)
    BY <1>1, RoomChain DEF NotStarted
  <2>2. PaysOf(blocks, 1, NotStarted) = {}
    BY <2>1 DEF PaysOf
  <2> QED BY <1>1, <1>2, <2>2 DEF CountedFits
<1>3. CASE /\ watcher'.height = watcher.height
           /\ watcher.at # "page" /\ watcher'.at # "page"
  BY <1>1, <1>3 DEF CountedFits, Beyond, InHand, First
<1> QED BY <1>2, <1>3

LEMMA AskHeightKeeps ==
  ASSUME FeedInv, RoomFits, AskHeight
  PROVE  RoomFits'
<1>1. /\ watcher.at = "idle" /\ blocks' = blocks /\ Tip' = Tip
      /\ UNCHANGED <<rec, recFile, counted, forgone>>
  BY DEF AskHeight, feedVars, Tip
<1>2. /\ WatcherFits /\ CountedFits /\ RecordFits /\ Tip \in Nat
  BY RoomChain DEF RoomFits
<1>3. CASE watcher.height = NotStarted
  <2>1. /\ watcher' = [watcher EXCEPT !.height = Tip, !.tip = Tip, !.at = "pages"]
        /\ skipped' = skipped \cup (PaymentsIn(1, Tip) \ counted)
    BY <1>3 DEF AskHeight
  <2>2. /\ watcher' \in [height : Nat \cup {NotStarted}, at : {"idle", "pages", "page"},
                         tip : Nat, todo : SUBSET Payments, hi : Nat]
        /\ watcher'.height = Tip /\ watcher'.tip = Tip /\ watcher'.at = "pages"
        /\ watcher'.todo = watcher.todo
    BY <1>2, <2>1 DEF WatcherFits
  <2>3. WatcherFits'
    BY <1>1, <1>2, <2>1, <2>2 DEF WatcherFits, NotStarted
  <2>4. \A h \in 1 .. Len(blocks) : ~(Tip + 1 <= h /\ h <= Tip)
    BY <1>2
  <2>5. PaysOf(blocks, Tip + 1, Tip) = {}
    BY <2>4 DEF PaysOf
  <2>6. PaysOf(blocks, 1, Tip) \subseteq counted \cup skipped'
    BY <1>2, <2>1, PaysIn
  <2>7. CountedFits'
    BY <1>1, <1>2, <2>1, <2>2, <2>5, <2>6 DEF CountedFits, Beyond, InHand, First
  <2> QED BY <1>1, <1>2, <2>3, <2>7 DEF RoomFits, RecordFits, Stored
<1>4. CASE watcher.height # NotStarted
  <2>1. /\ watcher' = [watcher EXCEPT !.tip = Tip, !.at = "pages"]
        /\ skipped' = skipped
    BY <1>4 DEF AskHeight
  <2>2. /\ watcher' \in [height : Nat \cup {NotStarted}, at : {"idle", "pages", "page"},
                         tip : Nat, todo : SUBSET Payments, hi : Nat]
        /\ watcher'.height = watcher.height /\ watcher'.tip = Tip /\ watcher'.at = "pages"
        /\ watcher'.todo = watcher.todo
    BY <1>2, <2>1 DEF WatcherFits
  <2>3. WatcherFits'
    BY <1>1, <1>2, <1>4, <2>1, <2>2 DEF WatcherFits
  <2>4. CountedFits'
    BY <1>1, <1>2, <2>1, <2>2, CountedStays DEF chainAndGhosts
  <2> QED BY <1>1, <1>2, <2>3, <2>4 DEF RoomFits, RecordFits, Stored
<1> QED BY <1>3, <1>4

LEMMA AskPageKeeps ==
  ASSUME FeedInv, RoomFits, AskPage
  PROVE  RoomFits'
<1>1. PICK hi : hi = IF First + PageSize - 1 < watcher.tip THEN First + PageSize - 1 ELSE watcher.tip
  OBVIOUS
<1>2. /\ watcher.at = "pages" /\ watcher.height < watcher.tip
      /\ watcher' = [watcher EXCEPT !.at = "page", !.hi = hi, !.todo = PaymentsIn(First, hi)]
      /\ blocks' = blocks /\ Tip' = Tip
      /\ UNCHANGED <<rec, recFile, skipped, counted, forgone>>
  BY <1>1 DEF AskPage, feedVars, Tip
<1>3. /\ WatcherFits /\ CountedFits /\ RecordFits /\ Tip \in Nat
      /\ watcher.height \in Nat /\ First = watcher.height + 1 /\ watcher.tip \in Nat
      /\ watcher.tip <= Tip
  BY <1>2, RoomChain DEF RoomFits, WatcherFits
<1>4. hi \in Nat /\ watcher.height < hi /\ hi <= Tip
  BY <1>1, <1>2, <1>3, ParcelsAssumption
<1>5. PaymentsIn(First, hi) = PaysOf(blocks, First, hi)
  BY <1>3, <1>4, PaysIn
<1>6. PaysOf(blocks, First, hi) \subseteq Payments
  BY DEF PaysOf
<1>7. /\ watcher' \in [height : Nat \cup {NotStarted}, at : {"idle", "pages", "page"},
                       tip : Nat, todo : SUBSET Payments, hi : Nat]
      /\ watcher'.height = watcher.height /\ watcher'.tip = watcher.tip /\ watcher'.at = "page"
      /\ watcher'.todo = PaysOf(blocks, First, hi) /\ watcher'.hi = hi /\ First' = First
  BY <1>2, <1>3, <1>4, <1>5, <1>6 DEF WatcherFits, First
<1>8. WatcherFits'
  BY <1>2, <1>3, <1>4, <1>7 DEF WatcherFits
<1>9. CountedFits'
  BY <1>2, <1>3, <1>7 DEF CountedFits, Beyond, InHand, NotStarted
<1> QED BY <1>2, <1>3, <1>8, <1>9 DEF RoomFits, RecordFits, Stored

LEMMA NoteKeeps ==
  ASSUME FeedInv, RoomFits, NEW p \in Payments, Note(p)
  PROVE  RoomFits'
<1>1. /\ p \in watcher.todo
      /\ watcher' = [watcher EXCEPT !.todo = @ \ {p}]
      /\ counted' = counted \cup {p}
      /\ rec' = Noted /\ recFile' = Noted
      /\ blocks' = blocks /\ Tip' = Tip /\ skipped' = skipped /\ forgone' = forgone
  BY DEF Note, Keep, feedVars, Tip
<1>2. /\ WatcherFits /\ CountedFits /\ RecordFits /\ Tip \in Nat
      /\ watcher.at = "page" /\ watcher.height \in Nat
      /\ First = watcher.height + 1 /\ watcher.hi \in Nat
      /\ watcher.hi <= Tip /\ watcher.todo \subseteq PaysOf(blocks, First, watcher.hi)
      /\ Tip = Len(blocks)
  BY <1>1, RoomChain DEF RoomFits, WatcherFits
<1>3. /\ p \in PaysOf(blocks, First, watcher.hi)
      /\ p \in PaysOf(blocks, First, Tip) /\ p \in PaysOf(blocks, 1, Tip)
  BY <1>1, <1>2 DEF PaysOf
<1>4. p \notin counted
  BY <1>1, <1>2, <1>3 DEF CountedFits, Beyond, InHand, NotStarted
<1>5. /\ watcher' \in [height : Nat \cup {NotStarted}, at : {"idle", "pages", "page"},
                       tip : Nat, todo : SUBSET Payments, hi : Nat]
      /\ watcher'.height = watcher.height /\ watcher'.tip = watcher.tip /\ watcher'.at = "page"
      /\ watcher'.todo = watcher.todo \ {p} /\ watcher'.hi = watcher.hi /\ First' = First
  BY <1>1, <1>2 DEF WatcherFits, First
<1>6. WatcherFits'
  BY <1>1, <1>2, <1>5 DEF WatcherFits
<1>7. CountedFits'
  <2>1. counted' \subseteq PaysOf(blocks, 1, Tip)
    BY <1>1, <1>2, <1>3 DEF CountedFits
  <2>2. counted \cap PaysOf(blocks, First, Tip) = PaysOf(blocks, First, watcher.hi) \ watcher.todo
    BY <1>2 DEF CountedFits, Beyond, InHand, NotStarted
  <2>3. counted' \cap PaysOf(blocks, First, Tip) = PaysOf(blocks, First, watcher.hi) \ watcher'.todo
    BY <1>1, <1>3, <1>5, <2>2
  <2>4. PaysOf(blocks, 1, watcher.height) \subseteq counted' \cup skipped
    BY <1>1, <1>2 DEF CountedFits
  <2> QED BY <1>1, <1>5, <2>1, <2>3, <2>4 DEF CountedFits, Beyond, InHand
<1>8. RecordFits'
  <2>1. /\ rec \in [paid : Nat, age : Nat \cup {NotStored}, there : BOOLEAN]
        /\ forgone \subseteq counted /\ counted \subseteq Payments
        /\ rec.paid = Cardinality(counted \ forgone)
    BY <1>2 DEF RecordFits
  <2>2. counted' \ forgone' = (counted \ forgone) \cup {p} /\ p \notin counted \ forgone
    BY <1>1, <1>4, <2>1
  <2>3. IsFiniteSet(counted \ forgone)
    BY <2>1, FeedAssumption, FS_Subset
  <2>4. Cardinality(counted' \ forgone') = Cardinality(counted \ forgone) + 1
    BY <2>2, <2>3, FS_AddElement
  <2>5. /\ rec' \in [paid : Nat, age : Nat \cup {NotStored}, there : BOOLEAN]
        /\ rec'.paid = rec.paid + 1 /\ rec'.there
    <3> DEFINE R == [paid : Nat, age : Nat \cup {NotStored}, there : BOOLEAN]
               r1 == [rec EXCEPT !.paid = @ + 1]
    <3>1. r1 \in R /\ r1.paid = rec.paid + 1
      BY <2>1
    <3>2. rec' = [r1 EXCEPT !.there = TRUE]
      BY <1>1, <2>1 DEF Noted
    <3> HIDE DEF r1
    <3> QED BY <3>1, <3>2
  <2>6. rec'.paid = Cardinality(counted' \ forgone')
    BY <2>1, <2>4, <2>5
  <2>7. forgone' \subseteq counted' /\ counted' \subseteq Payments /\ recFile' = rec'
    BY <1>1, <2>1
  <2> QED BY <2>5, <2>6, <2>7, Zenon DEF RecordFits
<1> QED BY <1>6, <1>7, <1>8 DEF RoomFits

LEMMA PageDoneKeeps ==
  ASSUME FeedInv, RoomFits, PageDone
  PROVE  RoomFits'
<1>1. /\ watcher.at = "page" /\ watcher.todo = {}
      /\ watcher' = [watcher EXCEPT !.at = "pages", !.height = watcher.hi]
      /\ blocks' = blocks /\ Tip' = Tip
      /\ UNCHANGED <<rec, recFile, skipped, counted, forgone>>
  BY DEF PageDone, feedVars, Tip
<1>2. /\ WatcherFits /\ CountedFits /\ RecordFits /\ Tip \in Nat
      /\ watcher.height \in Nat /\ First = watcher.height + 1 /\ watcher.hi \in Nat
      /\ watcher.height < watcher.hi /\ watcher.hi <= Tip
      /\ blocks \in Seq(SUBSET Txs) /\ Apart(blocks)
  BY <1>1, RoomChain DEF RoomFits, WatcherFits, NotStarted
<1>3. /\ watcher' \in [height : Nat \cup {NotStarted}, at : {"idle", "pages", "page"},
                       tip : Nat, todo : SUBSET Payments, hi : Nat]
      /\ watcher'.height = watcher.hi /\ watcher'.tip = watcher.tip /\ watcher'.at = "pages"
      /\ watcher'.todo = {} /\ First' = watcher.hi + 1
  BY <1>1, <1>2 DEF WatcherFits, First
<1>4. WatcherFits'
  <2>1. watcher'.height <= Tip' /\ watcher'.tip <= Tip'
    BY <1>1, <1>2, <1>3 DEF WatcherFits
  <2>2. watcher'.height # NotStarted
    BY <1>1, <1>2, <1>3 DEF NotStarted
  <2> QED BY <1>3, <2>1, <2>2 DEF WatcherFits
<1>5. counted \cap PaysOf(blocks, First, Tip) = PaysOf(blocks, First, watcher.hi)
  BY <1>1, <1>2 DEF CountedFits, Beyond, InHand, NotStarted
<1>6. PaysOf(blocks, 1, watcher.hi)
        = PaysOf(blocks, 1, watcher.height) \cup PaysOf(blocks, First, watcher.hi)
  <2>1. PICK lo, m, hi : lo = 1 /\ m = watcher.height /\ hi = watcher.hi
    OBVIOUS
  <2>2. lo \in Int /\ m \in Int /\ hi \in Int /\ lo <= m + 1 /\ m <= hi /\ m + 1 = First
    BY <1>2, <2>1
  <2>3. PaysOf(blocks, lo, hi) = PaysOf(blocks, lo, m) \cup PaysOf(blocks, m + 1, hi)
    BY <1>2, <2>2, PaysSplit
  <2> QED BY <2>1, <2>2, <2>3, Zenon
<1>7. /\ PaysOf(blocks, First, Tip) = PaysOf(blocks, First, watcher.hi) \cup PaysOf(blocks, watcher.hi + 1, Tip)
      /\ PaysOf(blocks, First, watcher.hi) \cap PaysOf(blocks, watcher.hi + 1, Tip) = {}
  <2>1. /\ First \in Int /\ watcher.hi \in Int /\ Tip \in Int
        /\ First <= watcher.hi + 1 /\ watcher.hi <= Tip
        /\ blocks \in Seq(SUBSET Txs) /\ Apart(blocks)
    BY <1>2
  <2>2. PICK lo, m, hi : lo = First /\ m = watcher.hi /\ hi = Tip
    OBVIOUS
  <2>3. lo \in Int /\ m \in Int /\ hi \in Int /\ lo <= m + 1 /\ m <= hi
    BY <2>1, <2>2
  <2>4. /\ PaysOf(blocks, lo, hi) = PaysOf(blocks, lo, m) \cup PaysOf(blocks, m + 1, hi)
        /\ PaysOf(blocks, lo, m) \cap PaysOf(blocks, m + 1, hi) = {}
    BY <2>1, <2>3, PaysSplit
  <2> QED BY <2>2, <2>4, Zenon
<1>8. counted \cap PaysOf(blocks, watcher.hi + 1, Tip) = {}
  BY <1>5, <1>7
<1>9. PaysOf(blocks, 1, watcher.hi) \subseteq counted \cup skipped
  BY <1>2, <1>5, <1>6 DEF CountedFits
<1>10. CountedFits'
  BY <1>1, <1>2, <1>3, <1>8, <1>9 DEF CountedFits, Beyond, InHand
<1> QED BY <1>1, <1>2, <1>4, <1>10 DEF RoomFits, RecordFits, Stored

\* A tick that is over, or was never begun, leaves the watcher without a page.
LEMMA IdleKeeps ==
  ASSUME FeedInv, WatcherFits, CountedFits, UNCHANGED <<blocks, skipped, counted>>,
         \/ watcher' = Away
         \/ watcher.at = "pages" /\ watcher' = [watcher EXCEPT !.at = "idle"]
  PROVE  WatcherFits' /\ CountedFits'
<1>1. Tip' = Tip /\ Tip \in Nat /\ skipped' = skipped
  BY RoomChain DEF Tip
<1>2. CASE watcher' = Away
  <2>1. WatcherFits'
    BY <1>1, <1>2 DEF WatcherFits, Away, NotStarted
  <2>2. CountedFits'
    BY <1>2, CountedStays DEF chainAndGhosts, Away
  <2> QED BY <2>1, <2>2
<1>3. CASE watcher.at = "pages" /\ watcher' = [watcher EXCEPT !.at = "idle"]
  <2>1. /\ watcher' \in [height : Nat \cup {NotStarted}, at : {"idle", "pages", "page"},
                         tip : Nat, todo : SUBSET Payments, hi : Nat]
        /\ watcher'.height = watcher.height /\ watcher'.tip = watcher.tip
        /\ watcher'.at = "idle" /\ watcher'.todo = watcher.todo
    BY <1>3 DEF WatcherFits
  <2>2. WatcherFits'
    BY <1>1, <1>3, <2>1 DEF WatcherFits
  <2>3. CountedFits'
    BY <1>3, <2>1, CountedStays DEF chainAndGhosts
  <2> QED BY <2>2, <2>3
<1> QED BY <1>2, <1>3

\* Without a new payment the record keeps what it says, or is given up with all
\* that counted for it.
LEMMA RecordKept ==
  ASSUME RecordFits, counted' = counted,
         \/ /\ forgone' = forgone /\ recFile' = rec'
            /\ rec' \in [paid : {rec.paid}, age : Nat \cup {NotStored}, there : BOOLEAN]
            /\ Stored(rec') => rec'.there
         \/ Drop
  PROVE  RecordFits'
<1>1. CASE Drop
  <2>1. counted' \ forgone' = {} /\ forgone' \subseteq counted' /\ counted' \subseteq Payments
    BY <1>1 DEF Drop, RecordFits
  <2> QED BY <1>1, <2>1, FS_EmptySet DEF Drop, Keep, NoRec, RecordFits, Stored, NotStored
<1>2. CASE /\ forgone' = forgone /\ recFile' = rec'
           /\ rec' \in [paid : {rec.paid}, age : Nat \cup {NotStored}, there : BOOLEAN]
           /\ Stored(rec') => rec'.there
  <2>1. rec.paid \in Nat
    BY DEF RecordFits
  <2>2. rec'.paid = rec.paid /\ rec' \in [paid : Nat, age : Nat \cup {NotStored}, there : BOOLEAN]
    BY <1>2, <2>1
  <2> QED BY <1>2, <2>2 DEF RecordFits, Stored
<1> QED BY <1>1, <1>2

LEMMA RoomStepKeeps ==
  ASSUME FeedInv, RoomFits, RoomNext, Sound'
  PROVE  RoomFits'
<1>1. WatcherFits /\ CountedFits /\ RecordFits
  BY DEF RoomFits
<1>2. rec \in [paid : Nat, age : Nat \cup {NotStored}, there : BOOLEAN] /\ recFile = rec
  BY <1>1 DEF RecordFits
<1>3. ASSUME UNCHANGED <<blocks, watcher, skipped, counted>>
      PROVE  WatcherFits' /\ CountedFits'
  BY <1>1, <1>3 DEF WatcherFits, CountedFits, Beyond, InHand, First, Tip
<1>4. ASSUME UNCHANGED <<rec, recFile, counted, forgone>>
      PROVE  RecordFits'
  BY <1>1, <1>4 DEF RecordFits, Stored
<1>5. CASE Upload
  <2>1. /\ rec' = [rec EXCEPT !.age = 0, !.there = TRUE] /\ recFile' = rec'
        /\ UNCHANGED <<blocks, watcher, skipped, counted, forgone>>
    BY <1>5 DEF Upload, Keep, feedVars
  <2>2. rec' \in [paid : {rec.paid}, age : Nat \cup {NotStored}, there : BOOLEAN] /\ rec'.there
    BY <1>2, <2>1
  <2> QED BY <1>1, <1>3, <2>1, <2>2, RecordKept DEF RoomFits
<1>6. CASE CheckDelete
  BY <1>3, <1>4, <1>6 DEF CheckDelete, feedVars, RoomFits
<1>7. CASE Delete
  <2>1. Drop /\ UNCHANGED <<blocks, watcher, skipped, counted>>
    BY <1>7 DEF Delete, feedVars
  <2> QED BY <1>1, <1>3, <2>1, RecordKept DEF RoomFits
<1>8. CASE Pass
  <2>1. /\ rec' = Older(rec) /\ recFile' = Older(recFile)
        /\ UNCHANGED <<blocks, watcher, skipped, counted, forgone>>
    BY <1>8 DEF Pass, feedVars
  <2>2. recFile' = rec'
    BY <1>2, <2>1
  <2>3. /\ Older(rec) \in [paid : {rec.paid}, age : Nat \cup {NotStored}, there : BOOLEAN]
        /\ Stored(Older(rec)) => Older(rec).there
    <3>1. CASE Stored(rec) /\ rec.age <= Ttl
      <4>1. rec.age \in Nat /\ rec.there
        BY <1>1, <1>2, <3>1 DEF RecordFits, Stored
      <4>2. Older(rec) = [rec EXCEPT !.age = rec.age + 1]
        BY <3>1 DEF Older
      <4> QED BY <1>2, <4>1, <4>2
    <3>2. CASE ~(Stored(rec) /\ rec.age <= Ttl)
      <4>1. Older(rec) = rec
        BY <3>2 DEF Older
      <4> QED BY <1>1, <1>2, <4>1 DEF RecordFits
    <3> QED BY <3>1, <3>2
  <2> QED BY <1>1, <1>3, <2>1, <2>2, <2>3, RecordKept DEF RoomFits
<1>9. CASE AskHeight
  BY <1>9, AskHeightKeeps
<1>10. CASE AskPage
  BY <1>10, AskPageKeeps
<1>11. CASE PageDone
  BY <1>11, PageDoneKeeps
<1>12. CASE RoomRequestFails
  BY <1>1, <1>4, <1>12, IdleKeeps DEF RoomRequestFails, feedVars, RoomFits
<1>13. ASSUME NEW p \in Payments, Note(p) PROVE RoomFits'
  BY <1>13, NoteKeeps
<1>14. ASSUME NEW p \in Payments, NoteUnsaved(p) PROVE FALSE
  BY <1>14 DEF NoteUnsaved, Sound
<1>15. CASE Rest
  BY <1>1, <1>4, <1>15, IdleKeeps DEF Rest, TickDone, feedVars, RoomFits
<1>16. CASE Sweep
  <2>1. /\ Drop /\ UNCHANGED <<blocks, skipped, counted>>
        /\ watcher.at = "pages" /\ watcher' = [watcher EXCEPT !.at = "idle"]
    BY <1>16 DEF Sweep, TickDone, feedVars
  <2> QED BY <1>1, <2>1, IdleKeeps, RecordKept DEF RoomFits
<1>17. CASE RestartRoom
  <2>1. /\ watcher' = Away /\ rec' = recFile /\ recFile' = recFile
        /\ UNCHANGED <<blocks, skipped, counted, forgone>>
    BY <1>17 DEF RestartRoom, feedVars
  <2> QED BY <1>1, <1>2, <1>4, <2>1, IdleKeeps DEF RoomFits
<1> QED BY <1>5, <1>6, <1>7, <1>8, <1>9, <1>10, <1>11, <1>12, <1>13, <1>14, <1>15, <1>16, <1>17
        DEF RoomNext

LEMMA RoomKeeps ==
  ASSUME FeedInv, RoomInv, RoomNext
  PROVE  RoomInv'
<1>1. UNCHANGED feedVars
  BY DEF RoomNext, Upload, CheckDelete, Delete, Pass, AskHeight, AskPage, PageDone,
         RoomRequestFails, Note, NoteUnsaved, Rest, Sweep, RestartRoom
<1>2. Sound' => Sound
  BY <1>1 DEF RoomNext, Upload, CheckDelete, Delete, Pass, AskHeight, AskPage, PageDone,
         RoomRequestFails, Note, NoteUnsaved, Rest, Sweep, RestartRoom, Sound, feedVars
<1> QED BY <1>2, RoomStepKeeps DEF RoomInv, RoomFits

-----------------------------------------------------------------------------
(* The specification.                                                       *)

ServicesIInv == FeedInv /\ RelayInv /\ RoomInv /\ LightInv

LEMMA ServicesBegin == ServicesInit => ServicesIInv
BY FeedBegins, RelayBegins, RoomBegins, LightBegins DEF ServicesInit, ServicesIInv

LEMMA BlocksStay ==
  ASSUME FeedInv, UNCHANGED feedVars
  PROVE  FeedInv' /\ Tip' = Tip /\ Tip \in Nat
BY LenProperties DEF FeedInv, feedVars, Tip

LEMMA RoomSame ==
  ASSUME RoomInv, UNCHANGED <<feedVars, roomVars>>
  PROVE  RoomInv'
<1>1. /\ UNCHANGED <<blocks, reorgs, rec, recFile, watcher, saveFailed, skipped, counted, forgone>>
  BY DEF feedVars, roomVars
<1>2. (Sound' <=> Sound) /\ (WatcherFits' <=> WatcherFits)
  BY <1>1 DEF Sound, WatcherFits, First, Tip
<1>3. CountedFits' <=> CountedFits
  BY <1>1 DEF CountedFits, Beyond, InHand, First, Tip
<1>4. RecordFits' <=> RecordFits
  BY <1>1 DEF RecordFits, Stored
<1> QED BY <1>2, <1>3, <1>4 DEF RoomInv

LEMMA ServicesStep ==
  ASSUME ServicesIInv, [ServicesNext]_servicesVars
  PROVE  ServicesIInv'
<1>1. FeedInv /\ RelayInv /\ RoomInv /\ LightInv
  BY DEF ServicesIInv
<1>2. CASE FeedNext /\ UNCHANGED <<pushVars, roomVars, lightVars>>
  <2>1. FeedInv' /\ Tip <= Tip' /\ Tip' \in Nat
    BY <1>1, <1>2, FeedKeeps, LenProperties DEF FeedInv, Tip
  <2> QED BY <1>1, <1>2, <2>1, RelayStays, RoomStays, LightStays DEF ServicesIInv
<1>3. CASE PushNext /\ UNCHANGED <<roomVars, lightVars>>
  <2>1. UNCHANGED feedVars
    BY <1>3 DEF PushNext, Register, Unregister, AskRelayHeight, HandleBlock, BlockFails,
                HandleMempool, RestartRelay
  <2>2. FeedInv'
    BY <1>1, <2>1, BlocksStay
  <2> QED BY <1>1, <1>3, <2>1, <2>2, RelayStepKeeps, RoomSame, LightStays DEF ServicesIInv
<1>4. CASE RoomNext /\ UNCHANGED <<pushVars, lightVars>>
  <2>1. UNCHANGED feedVars
    BY <1>4 DEF RoomNext, Upload, CheckDelete, Delete, Pass, AskHeight, AskPage, PageDone,
         RoomRequestFails, Note, NoteUnsaved, Rest, Sweep, RestartRoom
  <2>2. FeedInv' /\ Tip' = Tip /\ Tip \in Nat
    BY <1>1, <2>1, BlocksStay
  <2> QED BY <1>1, <1>4, <2>1, <2>2, RelayStays, RoomKeeps, LightStays DEF ServicesIInv
<1>5. CASE UNCHANGED besideVars /\ (LightNext \/ UNCHANGED lightVars)
  <2>1. FeedInv' /\ Tip' = Tip /\ Tip \in Nat
    BY <1>1, <1>5, BlocksStay DEF besideVars
  <2>2. LightInv'
    BY <1>1, <1>5, LightStep, LightStays
  <2> QED BY <1>1, <1>5, <2>1, <2>2, RelayStays, RoomSame DEF ServicesIInv, besideVars
<1> QED BY <1>2, <1>3, <1>4, <1>5 DEF ServicesNext, servicesVars

\* The relay, the room and the phone keep what they must, for any letters,
\* payments, price, page, forks, windows and numbers of blocks, reorganisations,
\* syncs and restarts.
THEOREM ServicesInvariant == ServicesSpec => []ServicesIInv
<1>1. ServicesInit => ServicesIInv
  BY ServicesBegin
<1>2. ServicesIInv /\ [ServicesNext]_servicesVars => ServicesIInv'
  BY ServicesStep
<1> QED BY <1>1, <1>2, PTL DEF ServicesSpec

\* Two pushes for one letter are more than RememberBlocks apart between two starts
\* of the relay (push.py _fresh and tick), however ticks, failed requests,
\* reorganisations and registrations fall.  A start forgets what was announced,
\* and the ghost of the pushes with it: what waits is announced again.
THEOREM PushesApart == ServicesSpec => []PushesAreApart
<1>1. ServicesIInv => PushesAreApart
  BY DEF ServicesIInv, RelayInv
<1> QED BY <1>1, ServicesInvariant, PTL

\* What the record of a parcel says was paid is what was paid for it, but for the
\* payments a start of the service passed over: no other is missed and none
\* counts twice (parcels.py Watcher.tick, note_payment).
THEOREM PaymentsOnce == ServicesSpec => []PaymentsCountOnce
<1>1. ServicesIInv => PaymentsCountOnce
  <2> SUFFICES ASSUME ServicesIInv, Sound
               PROVE  /\ rec.paid = Cardinality(counted \ forgone)
                      /\ PaymentsIn(1, watcher.height) \subseteq counted \cup skipped
    BY DEF PaymentsCountOnce
  <2>1. FeedInv /\ WatcherFits /\ CountedFits /\ RecordFits
    BY DEF ServicesIInv, RoomInv
  <2>2. watcher.height \in Int
    BY <2>1, RoomChain
  <2>3. PaymentsIn(1, watcher.height) = PaysOf(blocks, 1, watcher.height)
    BY <2>1, <2>2, PaysIn
  <2> QED BY <2>1, <2>3 DEF CountedFits, RecordFits
<1> QED BY <1>1, ServicesInvariant, PTL

\* What the sweep drops before its time was not paid when the watcher last asked.
LEMMA SweptIsUnpaid ==
  ASSUME FeedInv, WatcherFits, CountedFits, RecordFits, Sweep, ~Expired(rec)
  PROVE  Cardinality(PaymentsIn(1, watcher.tip) \ (forgone \cup skipped)) < Price
<1>1. watcher.height >= watcher.tip /\ Stored(rec) /\ Unpaid(rec)
  BY DEF Sweep, TickDone
<1>2. /\ watcher.height \in Int /\ watcher.tip \in Int
      /\ rec.paid \in Nat /\ Price \in Nat
  BY RoomChain, ParcelsAssumption DEF RecordFits
<1>3. rec.paid < Price
  BY <1>1, <1>2 DEF Unpaid, PaidUp
<1>4. PaymentsIn(1, watcher.tip) = PaysOf(blocks, 1, watcher.tip)
  BY <1>2, PaysIn
<1>5. PaysOf(blocks, 1, watcher.tip) \subseteq PaysOf(blocks, 1, watcher.height)
  <2>1. Len(blocks) \in Nat
    BY RoomChain
  <2> QED BY <1>1, <1>2, <2>1 DEF PaysOf
<1>6. PaymentsIn(1, watcher.tip) \ (forgone \cup skipped) \subseteq counted \ forgone
  BY <1>4, <1>5 DEF CountedFits
<1>7. IsFiniteSet(counted \ forgone)
  BY FeedAssumption, FS_Subset DEF RecordFits
<1>8. /\ Cardinality(PaymentsIn(1, watcher.tip) \ (forgone \cup skipped)) <= Cardinality(counted \ forgone)
      /\ Cardinality(PaymentsIn(1, watcher.tip) \ (forgone \cup skipped)) \in Nat
  BY <1>6, <1>7, FS_Subset, FS_CardinalityType
<1> QED BY <1>2, <1>3, <1>8 DEF RecordFits

\* The sweep drops no parcel before its time whose price was in the chain when
\* the watcher last asked, unless a start of the service passed over a part of
\* that price (parcels.py run, sweep).
THEOREM PaidParcelsStay == ServicesSpec => PaidInTimeIsKept
<1>1. ServicesIInv /\ [ServicesNext]_servicesVars =>
        [ (Sound /\ Stored(rec) /\ ~Expired(rec) /\ ~rec'.there /\ watcher'.at # watcher.at)
          => Cardinality(PaymentsIn(1, watcher.tip) \ (forgone \cup skipped)) < Price ]_<<feedVars, roomVars>>
  <2> SUFFICES ASSUME ServicesIInv, [ServicesNext]_servicesVars,
                      Sound, Stored(rec), ~Expired(rec), ~rec'.there, watcher'.at # watcher.at
               PROVE  Cardinality(PaymentsIn(1, watcher.tip) \ (forgone \cup skipped)) < Price
    OBVIOUS
  <2>1. FeedInv /\ WatcherFits /\ CountedFits /\ RecordFits
    BY DEF ServicesIInv, RoomInv
  <2>2. rec.there /\ recFile = rec
    BY <2>1 DEF RecordFits
  <2>3. RoomNext
    BY DEF ServicesNext, servicesVars, besideVars, roomVars
  <2>4. rec' # rec /\ rec' # recFile /\ watcher' # watcher
    BY <2>2
  <2>5. Sweep
    <3>1. ~(Upload \/ CheckDelete \/ Delete \/ Pass)
      BY <2>4 DEF Upload, CheckDelete, Delete, Pass
    <3>2. ~(AskHeight \/ AskPage \/ PageDone \/ RoomRequestFails \/ Rest \/ RestartRoom)
      BY <2>4 DEF AskHeight, AskPage, PageDone, RoomRequestFails, Rest, RestartRoom
    <3>3. ASSUME NEW p \in Payments, Note(p) \/ NoteUnsaved(p) PROVE FALSE
      <4>1. rec' = Noted
        BY <3>3 DEF Note, NoteUnsaved, Keep
      <4>2. rec \in [paid : Nat, age : Nat \cup {NotStored}, there : BOOLEAN]
        BY <2>1 DEF RecordFits
      <4> DEFINE r1 == [rec EXCEPT !.paid = @ + 1]
      <4>3. r1 \in [paid : Nat, age : Nat \cup {NotStored}, there : BOOLEAN]
        BY <4>2
      <4>4. rec' = [r1 EXCEPT !.there = TRUE]
        BY <4>1, <4>2 DEF Noted
      <4> HIDE DEF r1
      <4>5. rec'.there
        BY <4>3, <4>4
      <4> QED BY <4>5
    <3> QED BY <2>3, <3>1, <3>2, <3>3 DEF RoomNext
  <2> QED BY <2>1, <2>5, SweptIsUnpaid
<1> QED BY <1>1, ServicesInvariant, PTL DEF ServicesSpec, PaidInTimeIsKept

\* The client never moves to a lighter chain, and what it keeps stays a chain,
\* but for the races Overtaken names and for a restart (light.dart sync,
\* _initialSync, _trim; session.dart refresh): whatever nodes do between two
\* answers, and however many syncs overlap.
THEOREM LightClientClimbs == ServicesSpec => NeverLighterUnlessOvertaken
<1>1. ServicesIInv /\ [ServicesNext]_servicesVars =>
        [ \/ restarts' # restarts
          \/ \E s \in Syncs : Overtaken(s) /\ syncs'[s] # syncs[s]
          \/ WellKept(light) => WellKept(light') /\ light'.work >= light.work ]_lightVars
  <2> SUFFICES ASSUME ServicesIInv, [ServicesNext]_servicesVars, lightVars' # lightVars
               PROVE  \/ restarts' # restarts
                      \/ \E s \in Syncs : Overtaken(s) /\ syncs'[s] # syncs[s]
                      \/ Grows
    BY DEF Grows
  <2>1. LightInv /\ LightNext
    BY DEF ServicesIInv, ServicesNext, servicesVars
  <2> QED BY <2>1, LightStep
<1> QED BY <1>1, ServicesInvariant, PTL DEF ServicesSpec, NeverLighterUnlessOvertaken

=============================================================================
