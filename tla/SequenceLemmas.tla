---------------------------- MODULE SequenceLemmas ----------------------------
(***************************************************************************)
(* What the operations of the queues do to the numbers they hold and to    *)
(* their order; sequences that are cut; induction over numbers and         *)
(* sequences, and recursion; division with remainder.                      *)
(***************************************************************************)
EXTENDS Order, SequencesExt, SequenceTheorems, FiniteSetTheorems, NaturalsInduction, TLAPS

-----------------------------------------------------------------------------
(* Increasing sequences and the numbers in them *)

LEMMA RangeIndex ==
  ASSUME NEW s \in Seq(Nat)
  PROVE  /\ Range(s) \subseteq Nat /\ Len(s) \in Nat
         /\ \A x : x \in Range(s) <=> \E i \in 1 .. Len(s) : s[i] = x
BY RangeOfSeq, RangeEquality, LenProperties

LEMMA RangeEmpty == Range(<<>>) = {} /\ Increasing(<<>>)
<1>1. <<>> \in Seq(Nat) /\ Len(<<>>) = 0
  BY EmptySeq
<1>2. 1 .. 0 = {}
  OBVIOUS
<1>3. ~ \E x : x \in Range(<<>>)
  BY <1>1, <1>2, RangeIndex, Zenon
<1>4. Increasing(<<>>)
  BY <1>1, <1>2, Zenon DEF Increasing
<1>. QED  BY <1>3, <1>4

LEMMA PutLast ==
  ASSUME NEW s \in Seq(Nat), NEW n \in Nat
  PROVE  /\ Append(s, n) \in Seq(Nat) /\ Range(Append(s, n)) = Range(s) \cup {n}
         /\ Increasing(s) /\ (\A x \in Range(s) : x < n) => Increasing(Append(s, n))
<1>. DEFINE t == Append(s, n)
<1>1. /\ t \in Seq(Nat) /\ Len(s) \in Nat /\ Len(t) = Len(s) + 1
      /\ t[Len(s) + 1] = n /\ \A i \in 1 .. Len(s) : t[i] = s[i]
  BY AppendProperties, LenProperties
<1>. HIDE DEF t
<1>2. \A i \in 1 .. Len(t) : i \in 1 .. Len(s) \/ i = Len(s) + 1
  BY <1>1
<1>3. \A x : x \in Range(t) <=> x \in Range(s) \/ x = n
  <2>1. ASSUME NEW i \in 1 .. Len(t) PROVE t[i] \in Range(s) \/ t[i] = n
    BY <1>1, <1>2, RangeIndex
  <2>2. n \in Range(t)
    <3>1. Len(s) + 1 \in 1 .. Len(t)
      BY <1>1
    <3>. QED  BY <1>1, <3>1, RangeIndex
  <2>3. ASSUME NEW i \in 1 .. Len(s) PROVE s[i] \in Range(t)
    <3>1. i \in 1 .. Len(t) /\ t[i] = s[i]
      BY <1>1
    <3>. QED  BY <1>1, <3>1, RangeIndex
  <2>4. ASSUME NEW x \in Range(t) PROVE x \in Range(s) \/ x = n
    <3>1. PICK i \in 1 .. Len(t) : t[i] = x
      BY <1>1, RangeIndex
    <3>. QED  BY <2>1, <3>1
  <2>5. ASSUME NEW x \in Range(s) PROVE x \in Range(t)
    <3>1. PICK i \in 1 .. Len(s) : s[i] = x
      BY RangeIndex
    <3>. QED  BY <2>3, <3>1
  <2>. QED  BY <2>2, <2>4, <2>5
<1>4. ASSUME Increasing(s), \A x \in Range(s) : x < n PROVE Increasing(t)
  <2>1. \A i \in 1 .. Len(s) : s[i] < n
    BY <1>4, RangeIndex
  <2>. SUFFICES ASSUME NEW i \in 1 .. Len(t), NEW j \in 1 .. Len(t), i < j
                PROVE  t[i] < t[j]
    BY DEF Increasing
  <2>2. i \in 1 .. Len(s)
    BY <1>1
  <2>3. CASE j \in 1 .. Len(s)
    BY <1>1, <1>4, <2>2, <2>3 DEF Increasing
  <2>4. CASE j = Len(s) + 1
    BY <1>1, <2>1, <2>2, <2>4
  <2>. QED  BY <1>2, <2>3, <2>4
<1>. QED  BY <1>1, <1>3, <1>4 DEF t

LEMMA TakeFirst ==
  ASSUME NEW s \in Seq(Nat), s # <<>>
  PROVE  /\ Head(s) \in Nat /\ Tail(s) \in Seq(Nat)
         /\ Range(s) = {Head(s)} \cup Range(Tail(s))
         /\ Increasing(s) => Increasing(Tail(s)) /\ \A x \in Range(Tail(s)) : Head(s) < x
<1>. DEFINE h == Head(s)  t == Tail(s)
<1>1. /\ h \in Nat /\ t \in Seq(Nat) /\ Len(s) \in Nat \ {0} /\ Len(t) = Len(s) - 1
      /\ h = s[1] /\ \A i \in 1 .. Len(t) : t[i] = s[i + 1]
  BY HeadTailProperties, LenProperties, EmptySeq
<1>. HIDE DEF h, t
<1>2. \A i \in 1 .. Len(t) : i + 1 \in 1 .. Len(s) /\ 1 < i + 1
  BY <1>1
<1>3. \A i \in 1 .. Len(s) : i = 1 \/ i - 1 \in 1 .. Len(t)
  BY <1>1
<1>4. \A x : x \in Range(s) <=> x = h \/ x \in Range(t)
  <2>1. ASSUME NEW i \in 1 .. Len(t) PROVE t[i] \in Range(s)
    <3>1. i + 1 \in 1 .. Len(s) /\ t[i] = s[i + 1]
      BY <1>1, <1>2
    <3>. QED  BY <3>1, RangeIndex
  <2>2. h \in Range(s)
    <3>1. 1 \in 1 .. Len(s)
      BY <1>1
    <3>. QED  BY <1>1, <3>1, RangeIndex
  <2>3. ASSUME NEW i \in 1 .. Len(s) PROVE s[i] = h \/ s[i] \in Range(t)
    <3>1. CASE i = 1
      BY <1>1, <3>1
    <3>2. CASE i - 1 \in 1 .. Len(t)
      <4>1. t[i - 1] = s[i]
        BY <1>1, <3>2
      <4>. QED  BY <1>1, <3>2, <4>1, RangeIndex
    <3>. QED  BY <1>3, <3>1, <3>2
  <2>4. ASSUME NEW x \in Range(s) PROVE x = h \/ x \in Range(t)
    <3>1. PICK i \in 1 .. Len(s) : s[i] = x
      BY RangeIndex
    <3>. QED  BY <2>3, <3>1
  <2>5. ASSUME NEW x \in Range(t) PROVE x \in Range(s)
    <3>1. PICK i \in 1 .. Len(t) : t[i] = x
      BY <1>1, RangeIndex
    <3>. QED  BY <2>1, <3>1
  <2>. QED  BY <2>2, <2>4, <2>5
<1>5. ASSUME Increasing(s) PROVE Increasing(t) /\ \A x \in Range(t) : h < x
  <2>1. Increasing(t)
    <3>. SUFFICES ASSUME NEW i \in 1 .. Len(t), NEW j \in 1 .. Len(t), i < j
                  PROVE  t[i] < t[j]
      BY DEF Increasing
    <3>1. i + 1 \in 1 .. Len(s) /\ j + 1 \in 1 .. Len(s) /\ i + 1 < j + 1
      BY <1>1, <1>2
    <3>2. s[i + 1] < s[j + 1]
      BY <1>5, <3>1 DEF Increasing
    <3>. QED  BY <1>1, <3>2
  <2>2. ASSUME NEW i \in 1 .. Len(t) PROVE h < t[i]
    <3>1. 1 \in 1 .. Len(s) /\ i + 1 \in 1 .. Len(s) /\ 1 < i + 1
      BY <1>1, <1>2
    <3>2. s[1] < s[i + 1]
      BY <1>5, <3>1 DEF Increasing
    <3>. QED  BY <1>1, <3>2
  <2>. QED  BY <1>1, <2>1, <2>2, RangeIndex
<1>. QED  BY <1>1, <1>4, <1>5 DEF h, t

LEMMA JoinIncreasing ==
  ASSUME NEW s \in Seq(Nat), NEW t \in Seq(Nat), Increasing(s), Increasing(t),
         \A x \in Range(s), y \in Range(t) : x < y
  PROVE  s \o t \in Seq(Nat) /\ Increasing(s \o t) /\ Range(s \o t) = Range(s) \cup Range(t)
<1>. DEFINE u == s \o t  k == Len(s)  m == Len(t)
<1>1. /\ u \in Seq(Nat) /\ k \in Nat /\ m \in Nat /\ Len(u) = k + m
      /\ \A i \in 1 .. k + m : u[i] = IF i <= k THEN s[i] ELSE t[i - k]
  BY ConcatProperties, LenProperties
<1>2. \A i \in 1 .. k, j \in 1 .. m : s[i] < t[j]
  BY RangeIndex
<1>3. \A i, j \in 1 .. k : i < j => s[i] < s[j]
  BY DEF Increasing
<1>4. \A i, j \in 1 .. m : i < j => t[i] < t[j]
  BY DEF Increasing
<1>. HIDE DEF u, k, m
<1>5. ASSUME NEW i \in 1 .. k + m, NEW j \in 1 .. k + m, i < j PROVE u[i] < u[j]
  <2>1. CASE j <= k
    <3>1. i \in 1 .. k /\ j \in 1 .. k /\ i <= k
      BY <1>1, <1>5, <2>1
    <3>2. u[i] = s[i] /\ u[j] = s[j]
      BY <1>1, <2>1, <3>1
    <3>. QED  BY <1>3, <1>5, <3>1, <3>2
  <2>2. CASE i <= k /\ j > k
    <3>1. i \in 1 .. k /\ j - k \in 1 .. m /\ u[i] = s[i] /\ u[j] = t[j - k]
      BY <1>1, <2>2
    <3>. QED  BY <1>2, <3>1
  <2>3. CASE i > k
    <3>1. i - k \in 1 .. m /\ j - k \in 1 .. m /\ i - k < j - k
          /\ u[i] = t[i - k] /\ u[j] = t[j - k]
      BY <1>1, <1>5, <2>3
    <3>. QED  BY <1>4, <3>1
  <2>4. j <= k \/ (i <= k /\ j > k) \/ i > k
    BY <1>1
  <2>. QED  BY <2>1, <2>2, <2>3, <2>4
<1>6. Increasing(u)
  BY <1>1, <1>5 DEF Increasing
<1>. QED  BY <1>1, <1>6, RangeConcatenation DEF u

\* A queue holds no more numbers than it is long.
LEMMA RangeBound ==
  ASSUME NEW s \in Seq(Nat)
  PROVE  IsFiniteSet(Range(s)) /\ Cardinality(Range(s)) <= Len(s)
<1>. DEFINE I == 1 .. Len(s)
<1>1. Len(s) \in Nat /\ s \in [I -> Range(s)]
  BY LenProperties, SeqOfRange
<1>2. \A x \in Range(s) : \E i \in I : s[i] = x
  BY RangeIndex
<1>3. s \in Surjection(I, Range(s))
  BY <1>1, <1>2 DEF Surjection
<1>4. IsFiniteSet(I) /\ Cardinality(I) = Len(s)
  BY <1>1, FS_Interval
<1>. QED  BY <1>3, <1>4, FS_Surjection

LEMMA ConcatAppend ==
  ASSUME NEW X, NEW a \in Seq(X), NEW b \in Seq(X), NEW x \in X
  PROVE  a \o Append(b, x) = Append(a \o b, x)
<1>1. <<x>> \in Seq(X) /\ a \o b \in Seq(X)
  BY ConcatProperties
<1>2. Append(b, x) = b \o <<x>> /\ Append(a \o b, x) = (a \o b) \o <<x>>
  BY <1>1, AppendIsConcat
<1>3. (a \o b) \o <<x>> = a \o (b \o <<x>>)
  BY <1>1, ConcatAssociative
<1>. QED  BY <1>2, <1>3

-----------------------------------------------------------------------------
(* Sequences of anything *)

LEMMA RangeIs ==
  ASSUME NEW X, NEW s \in Seq(X)
  PROVE  /\ Range(s) \subseteq X /\ Len(s) \in Nat
         /\ \A i \in 1 .. Len(s) : s[i] \in Range(s)
         /\ \A x \in Range(s) : \E i \in 1 .. Len(s) : s[i] = x
         /\ Range(s) = {} <=> s = <<>>
<1>1. Range(s) = {s[i] : i \in 1 .. Len(s)} /\ Range(s) \subseteq X /\ Len(s) \in Nat
  BY RangeEquality, RangeOfSeq, LenProperties
<1>2. s # <<>> => 1 \in 1 .. Len(s)
  BY <1>1, EmptySeq
<1>3. s = <<>> => 1 .. Len(s) = {}
  BY EmptySeq
<1>. QED  BY <1>1, <1>2, <1>3

LEMMA RangeAppend ==
  ASSUME NEW X, NEW s \in Seq(X), NEW x \in X
  PROVE  Append(s, x) \in Seq(X) /\ Range(Append(s, x)) = Range(s) \cup {x}
<1>. DEFINE t == Append(s, x)
<1>1. /\ t \in Seq(X) /\ Len(s) \in Nat /\ Len(t) = Len(s) + 1
      /\ t[Len(s) + 1] = x /\ \A i \in 1 .. Len(s) : t[i] = s[i]
  BY AppendProperties, LenProperties
<1>. HIDE DEF t
<1>2. Range(t) = {t[i] : i \in 1 .. Len(t)} /\ Range(s) = {s[i] : i \in 1 .. Len(s)}
  BY <1>1, RangeEquality
<1>3. 1 .. Len(t) = (1 .. Len(s)) \cup {Len(s) + 1}
  BY <1>1
<1>4. \A y : y \in Range(t) <=> y \in Range(s) \/ y = x
  BY <1>1, <1>2, <1>3
<1>. QED  BY <1>1, <1>4 DEF t

\* The first element and the others.
LEMMA RangeFirst ==
  ASSUME NEW X, NEW s \in Seq(X), s # <<>>
  PROVE  /\ Head(s) \in X /\ Tail(s) \in Seq(X) /\ Head(s) = s[1] /\ 1 \in 1 .. Len(s)
         /\ Range(s) = {Head(s)} \cup Range(Tail(s))
         /\ \A i \in 1 .. Len(Tail(s)) : i + 1 \in 1 .. Len(s) /\ Tail(s)[i] = s[i + 1]
<1>. DEFINE h == Head(s)  t == Tail(s)
<1>1. /\ h \in X /\ t \in Seq(X) /\ Len(s) \in Nat \ {0} /\ Len(t) = Len(s) - 1
      /\ h = s[1] /\ \A i \in 1 .. Len(t) : t[i] = s[i + 1]
  BY HeadTailProperties, LenProperties, EmptySeq
<1>. HIDE DEF h, t
<1>2. Range(t) = {t[i] : i \in 1 .. Len(t)} /\ Range(s) = {s[i] : i \in 1 .. Len(s)}
  BY <1>1, RangeEquality
<1>3. \A i \in 1 .. Len(s) : i = 1 \/ (i - 1 \in 1 .. Len(t) /\ t[i - 1] = s[i])
  <2>. SUFFICES ASSUME NEW i \in 1 .. Len(s), i # 1
                PROVE  i - 1 \in 1 .. Len(t) /\ t[i - 1] = s[i]
    OBVIOUS
  <2>1. i - 1 \in 1 .. Len(t) /\ (i - 1) + 1 = i
    BY <1>1
  <2>. QED  BY <1>1, <2>1
<1>4. 1 \in 1 .. Len(s) /\ \A i \in 1 .. Len(t) : i + 1 \in 1 .. Len(s)
  BY <1>1
<1>5. \A y : y \in Range(s) <=> y = h \/ y \in Range(t)
  BY <1>1, <1>2, <1>3, <1>4
<1>. QED  BY <1>1, <1>4, <1>5 DEF h, t

\* A sequence in two parts.
LEMMA CutSeq ==
  ASSUME NEW X, NEW s \in Seq(X), NEW k \in 1 .. Len(s)
  PROVE  /\ SubSeq(s, 1, k) \in Seq(X) /\ SubSeq(s, k + 1, Len(s)) \in Seq(X)
         /\ Len(SubSeq(s, 1, k)) = k /\ Len(SubSeq(s, k + 1, Len(s))) = Len(s) - k
         /\ SubSeq(s, 1, k) \o SubSeq(s, k + 1, Len(s)) = s
         /\ \A i \in 1 .. k : SubSeq(s, 1, k)[i] = s[i]
         /\ \A i \in 1 .. Len(s) - k : SubSeq(s, k + 1, Len(s))[i] = s[k + i]
<1>1. Len(s) \in Nat /\ \A i \in 1 .. Len(s) : s[i] \in X
  BY LenProperties, ElementOfSeq
<1>2. /\ SubSeq(s, 1, k) \in Seq(X) /\ Len(SubSeq(s, 1, k)) = k
      /\ \A i \in 1 .. k : SubSeq(s, 1, k)[i] = s[i]
  <2>1. \A i \in 1 .. k : s[i] \in X
    BY <1>1
  <2>2. /\ SubSeq(s, 1, k) \in Seq(X)
        /\ Len(SubSeq(s, 1, k)) = IF 1 <= k THEN k - 1 + 1 ELSE 0
        /\ \A i \in 1 .. k - 1 + 1 : SubSeq(s, 1, k)[i] = s[1 + i - 1]
    BY <1>1, <2>1, SubSeqProperties
  <2>3. k \in Nat /\ 1 <= k /\ k - 1 + 1 = k
    BY <1>1
  <2>4. \A i \in 1 .. k : 1 + i - 1 = i
    OBVIOUS
  <2>. QED  BY <2>2, <2>3, <2>4
<1>3. /\ SubSeq(s, k + 1, Len(s)) \in Seq(X)
      /\ Len(SubSeq(s, k + 1, Len(s))) = Len(s) - k
      /\ \A i \in 1 .. Len(s) - k : SubSeq(s, k + 1, Len(s))[i] = s[k + i]
  <2>. DEFINE b == SubSeq(s, k + 1, Len(s))
  <2>1. \A i \in k + 1 .. Len(s) : s[i] \in X
    BY <1>1
  <2>2. /\ b \in Seq(X) /\ Len(b) = IF k + 1 <= Len(s) THEN Len(s) - (k + 1) + 1 ELSE 0
        /\ \A i \in 1 .. Len(s) - (k + 1) + 1 : b[i] = s[k + 1 + i - 1]
    BY <1>1, <2>1, SubSeqProperties
  <2>3. /\ Len(s) - (k + 1) + 1 = Len(s) - k
        /\ \A i \in 1 .. Len(s) - k : k + 1 + i - 1 = k + i
    BY <1>1
  <2>. HIDE DEF b
  <2>4. Len(b) = Len(s) - k
    BY <1>1, <2>2
  <2>. QED  BY <2>2, <2>3, <2>4 DEF b
<1>4. SubSeq(s, 1, k) \o SubSeq(s, k + 1, Len(s)) = SubSeq(s, 1, Len(s))
  <2>1. 1 \in 1 .. Len(s) + 1 /\ k \in 1 - 1 .. Len(s) /\ Len(s) \in k .. Len(s)
    BY <1>1
  <2>. QED  BY <2>1, ConcatAdjacentSubSeq
<1>. QED  BY <1>2, <1>3, <1>4, SubSeqFull

LEMMA RangeCut ==
  ASSUME NEW X, NEW s \in Seq(X), NEW k \in 1 .. Len(s)
  PROVE  Range(SubSeq(s, 1, k)) \cup Range(SubSeq(s, k + 1, Len(s))) = Range(s)
<1>. DEFINE a == SubSeq(s, 1, k)  b == SubSeq(s, k + 1, Len(s))
<1>1. /\ a \in Seq(X) /\ b \in Seq(X) /\ Len(a) = k /\ Len(b) = Len(s) - k
      /\ \A i \in 1 .. k : a[i] = s[i]
      /\ \A i \in 1 .. Len(s) - k : b[i] = s[k + i]
  BY CutSeq
<1>. HIDE DEF a, b
<1>2. Len(s) \in Nat /\ k \in Nat /\ k <= Len(s)
  BY LenProperties
<1>3. /\ \A x \in Range(s) : \E i \in 1 .. Len(s) : s[i] = x
      /\ \A i \in 1 .. Len(s) : s[i] \in Range(s)
  BY RangeIs
<1>4. /\ \A x \in Range(a) : \E i \in 1 .. k : a[i] = x
      /\ \A i \in 1 .. k : a[i] \in Range(a)
  <2>1. /\ \A x \in Range(a) : \E i \in 1 .. Len(a) : a[i] = x
        /\ \A i \in 1 .. Len(a) : a[i] \in Range(a)
    BY <1>1, RangeIs
  <2>. QED  BY <1>1, <2>1
<1>5. /\ \A x \in Range(b) : \E i \in 1 .. Len(s) - k : b[i] = x
      /\ \A i \in 1 .. Len(s) - k : b[i] \in Range(b)
  <2>1. /\ \A x \in Range(b) : \E i \in 1 .. Len(b) : b[i] = x
        /\ \A i \in 1 .. Len(b) : b[i] \in Range(b)
    BY <1>1, RangeIs
  <2>. QED  BY <1>1, <2>1
<1>6. ASSUME NEW x \in Range(s) PROVE x \in Range(a) \cup Range(b)
  <2>1. PICK i \in 1 .. Len(s) : s[i] = x
    BY <1>3
  <2>2. i \in 1 .. k \/ (i - k \in 1 .. Len(s) - k /\ k + (i - k) = i)
    BY <1>2
  <2>3. CASE i \in 1 .. k
    <3>1. a[i] = x /\ a[i] \in Range(a)
      BY <1>1, <1>4, <2>1, <2>3
    <3>. QED  BY <3>1
  <2>4. CASE i - k \in 1 .. Len(s) - k /\ k + (i - k) = i
    <3>1. b[i - k] = s[k + (i - k)] /\ b[i - k] \in Range(b)
      BY <1>1, <1>5, <2>4
    <3>. QED  BY <2>1, <2>4, <3>1
  <2>. QED  BY <2>2, <2>3, <2>4
<1>7. ASSUME NEW x \in Range(a) PROVE x \in Range(s)
  <2>1. PICK i \in 1 .. k : a[i] = x
    BY <1>4
  <2>2. i \in 1 .. Len(s) /\ s[i] = x
    BY <1>1, <1>2, <2>1
  <2>. QED  BY <1>3, <2>2
<1>8. ASSUME NEW x \in Range(b) PROVE x \in Range(s)
  <2>1. PICK i \in 1 .. Len(s) - k : b[i] = x
    BY <1>5
  <2>2. k + i \in 1 .. Len(s) /\ s[k + i] = x
    BY <1>1, <1>2, <2>1
  <2>. QED  BY <1>3, <2>2
<1>. QED  BY <1>6, <1>7, <1>8 DEF a, b

LEMMA TwoElements ==
  ASSUME NEW X, NEW a \in X, NEW b \in X
  PROVE  /\ <<a, b>> \in Seq(X) /\ Len(<<a, b>>) = 2
         /\ <<a, b>>[1] = a /\ <<a, b>>[2] = b
OBVIOUS

-----------------------------------------------------------------------------
(* Sets of numbers *)

\* Every number of A is below every number of B.
Below(A, B) == \A x \in A, y \in B : x < y

\* What a task carries, as a set.
Held(n) == {n} \ {0}

\* The numbers a task holds: none, or one.
LEMMA HeldOne == Held(0) = {} /\ \A n \in Nat \ {0} : Held(n) = {n}
BY DEF Held
-----------------------------------------------------------------------------
(* Induction, over the set of the numbers or sequences with a property *)

\* A set of numbers that holds zero and each successor holds every number: the
\* least that it would lack has a predecessor in it.
LEMMA NumberInduction ==
  ASSUME NEW S \in SUBSET Nat, 0 \in S, \A n \in S : n + 1 \in S
  PROVE  S = Nat
<1>. SUFFICES ASSUME Nat \ S # {} PROVE FALSE
  OBVIOUS
<1>. DEFINE R == {ss \in Nat \X Nat : ss[1] < ss[2]}
<1>1. PICK n \in Nat \ S : \A m \in Nat \ S : ~ (<<m, n>> \in R)
  <2>. HIDE DEF R
  <2>1. IsWellFoundedOn(R, Nat)
    BY NatLessThanWellFounded, Zenon DEF R, OpToRel
  <2>2. Nat \ S \subseteq Nat
    OBVIOUS
  <2>. QED  BY <2>1, <2>2, WFMin
<1>2. ASSUME NEW m \in Nat \ S PROVE n <= m
  <2>1. <<m, n>> \in Nat \X Nat /\ <<m, n>>[1] = m /\ <<m, n>>[2] = n
    OBVIOUS
  <2>2. ~ (m < n)
    BY <1>1, <2>1
  <2>. QED  BY <2>2
<1>3. n # 0 /\ n - 1 \in Nat
  BY <1>2
<1>4. n - 1 \in S
  BY <1>2, <1>3
<1>. QED  BY <1>3, <1>4

LEMMA SequenceInduction ==
  ASSUME NEW X, NEW G \in SUBSET Seq(X), <<>> \in G,
         \A s \in G, x \in X : Append(s, x) \in G
  PROVE  G = Seq(X)
<1>. DEFINE S == {n \in Nat : \A s \in Seq(X) : Len(s) = n => s \in G}
<1>1. 0 \in S
  BY EmptySeq
<1>2. ASSUME NEW n \in S PROVE n + 1 \in S
  <2>. SUFFICES ASSUME NEW s \in Seq(X), Len(s) = n + 1 PROVE s \in G
    OBVIOUS
  <2>1. s # <<>>
    BY EmptySeq
  <2>2. PICK t \in Seq(X), x \in X : s = Append(t, x)
    BY <2>1, SequenceEmptyOrAppend
  <2>3. Len(t) = n
    BY <2>2, AppendProperties, LenProperties
  <2>. QED  BY <2>2, <2>3
<1>. HIDE DEF S
<1>3. S = Nat
  BY <1>1, <1>2, NumberInduction DEF S
<1>. QED  BY <1>3, LenProperties DEF S

\* The values a recursion passes through: from a, by one function after another.
Passes(g, a, F, n) == g[0] = a /\ \A i \in 1 .. n : g[i] = F[i][g[i - 1]]

\* A recursive function exists,
LEMMA RecursionExists ==
  ASSUME NEW D, NEW a \in D, NEW n \in Nat, NEW F \in [1 .. n -> [D -> D]]
  PROVE  \E g \in [0 .. n -> D] : Passes(g, a, F, n)
<1>. DEFINE S == {m \in Nat : m <= n => \E g \in [0 .. m -> D] : Passes(g, a, F, m)}
<1>1. 0 \in S
  <2>1. [i \in 0 .. 0 |-> a] \in [0 .. 0 -> D] /\ Passes([i \in 0 .. 0 |-> a], a, F, 0)
    BY DEF Passes
  <2>. QED  BY <2>1
<1>2. ASSUME NEW m \in S PROVE m + 1 \in S
  <2>. SUFFICES ASSUME m + 1 <= n
                PROVE  \E g \in [0 .. m + 1 -> D] : Passes(g, a, F, m + 1)
    OBVIOUS
  <2>1. PICK g \in [0 .. m -> D] : Passes(g, a, F, m)
    OBVIOUS
  <2>2. m + 1 \in 1 .. n /\ m \in 0 .. m
    OBVIOUS
  <2>. DEFINE h == [i \in 0 .. m + 1 |-> IF i <= m THEN g[i] ELSE F[m + 1][g[m]]]
  <2>3. h \in [0 .. m + 1 -> D]
    BY <2>1, <2>2
  <2>4. h[0] = a
    BY <2>1 DEF Passes
  <2>5. ASSUME NEW i \in 1 .. m + 1 PROVE h[i] = F[i][h[i - 1]]
    <3>1. CASE i <= m
      <4>1. h[i] = g[i] /\ h[i - 1] = g[i - 1] /\ i \in 1 .. m
        BY <3>1
      <4>. QED  BY <2>1, <4>1 DEF Passes
    <3>2. CASE i = m + 1
      BY <3>2
    <3>. QED  BY <3>1, <3>2
  <2>. HIDE DEF h
  <2>. QED  BY <2>3, <2>4, <2>5 DEF Passes
<1>. HIDE DEF S
<1>3. S = Nat
  BY <1>1, <1>2, NumberInduction DEF S
<1>. QED  BY <1>3 DEF S

\* and is the only one: one that goes on further begins with the same values.
LEMMA RecursionUnique ==
  ASSUME NEW a, NEW n \in Nat, NEW m \in 0 .. n, NEW F, NEW H, NEW g, NEW h,
         Passes(g, a, F, n), Passes(h, a, H, m), \A i \in 1 .. m : F[i] = H[i]
  PROVE  \A i \in 0 .. m : g[i] = h[i]
<1>. DEFINE S == {k \in Nat : k <= m => g[k] = h[k]}
<1>1. 0 \in S
  BY DEF Passes
<1>2. ASSUME NEW k \in S PROVE k + 1 \in S
  <2>. SUFFICES ASSUME k + 1 <= m PROVE g[k + 1] = h[k + 1]
    OBVIOUS
  <2>1. k + 1 \in 1 .. m /\ k + 1 \in 1 .. n /\ (k + 1) - 1 = k /\ g[k] = h[k]
    OBVIOUS
  <2>2. g[k + 1] = F[k + 1][g[k]] /\ h[k + 1] = H[k + 1][h[k]]
    BY <2>1 DEF Passes
  <2>. QED  BY <2>1, <2>2
<1>. HIDE DEF S
<1>3. S = Nat
  BY <1>1, <1>2, NumberInduction DEF S
<1>. QED  BY <1>3 DEF S
-----------------------------------------------------------------------------
(* Clocks that wrap *)

LEMMA DivMod ==
  ASSUME NEW t \in Nat, NEW m \in Nat \ {0}
  PROVE  /\ t \div m \in Nat /\ t % m \in Nat
         /\ (t \div m) * m + (t % m) = t
BY SMT
=============================================================================
