----------------------------- MODULE DataLemmas -----------------------------
(***************************************************************************)
(* Sequences: what appending, concatenating and cutting keep when the      *)
(* elements have no common type, and what Subsequence selects.  Division   *)
(* with remainder.  Sums over finite sets: the terms may be added in any   *)
(* order.                                                                  *)
(***************************************************************************)
EXTENDS Selection, FiniteSetTheorems, SequenceTheorems, WellFoundedInduction,
        NaturalsInduction, TLAPS

-----------------------------------------------------------------------------
(* Sequences whose elements have no common type. *)

IsSeq(q) == q \in Seq({q[i] : i \in DOMAIN q})

LEMMA EmptyIsSeq == IsSeq(<<>>) /\ DOMAIN <<>> = {}
BY DEF IsSeq

\* A sequence of elements of any set is a sequence.
LEMMA TypedIsSeq ==
    ASSUME NEW S, NEW s \in Seq(S)
    PROVE  IsSeq(s)
<1>1. s = [i \in 1..Len(s) |-> s[i]] /\ Len(s) \in Nat /\ DOMAIN s = 1..Len(s)
  OBVIOUS
<1>2. \A i \in 1..Len(s) : s[i] \in {s[j] : j \in DOMAIN s}
  BY <1>1
<1>3. s \in Seq({s[j] : j \in DOMAIN s})
  BY <1>1, <1>2
<1> QED BY <1>3 DEF IsSeq

LEMMA AppendIsSeq ==
    ASSUME NEW q, IsSeq(q), NEW x
    PROVE  /\ IsSeq(Append(q, x))
           /\ Len(q) \in Nat /\ DOMAIN q = 1..Len(q)
           /\ Len(Append(q, x)) = Len(q) + 1
           /\ DOMAIN Append(q, x) = 1..(Len(q) + 1)
           /\ Append(q, x)[Len(q) + 1] = x
           /\ \A i \in 1..Len(q) : Append(q, x)[i] = q[i]
<1> DEFINE S == {q[i] : i \in DOMAIN q} \cup {x}
           r == Append(q, x)
<1>1. q \in Seq(S) /\ x \in S
  <2>1. q \in Seq({q[i] : i \in DOMAIN q})
    BY DEF IsSeq
  <2> QED BY <2>1
<1>2. /\ r \in Seq(S) /\ Len(q) \in Nat /\ DOMAIN q = 1..Len(q) /\ Len(r) = Len(q) + 1
      /\ DOMAIN r = 1..(Len(q) + 1) /\ r[Len(q) + 1] = x
      /\ \A i \in 1..Len(q) : r[i] = q[i]
  BY <1>1
<1>3. IsSeq(r)
  BY <1>2, TypedIsSeq
<1> QED BY <1>2, <1>3

\* s is q, and r after it.
IsJoin(s, q, r) ==
    /\ IsSeq(s)
    /\ Len(q) \in Nat /\ Len(r) \in Nat /\ Len(s) = Len(q) + Len(r)
    /\ \A i \in 1..Len(q) : s[i] = q[i]
    /\ \A i \in Len(q) + 1..Len(q) + Len(r) : i - Len(q) \in 1..Len(r) /\ s[i] = r[i - Len(q)]

\* What concatenation keeps.
LEMMA ConcatIsJoin ==
    ASSUME NEW q, IsSeq(q), NEW r, IsSeq(r)
    PROVE  IsJoin(q \o r, q, r)
<1> DEFINE S == {q[i] : i \in DOMAIN q} \cup {r[i] : i \in DOMAIN r}
           s == q \o r
<1>1. q \in Seq(S) /\ r \in Seq(S)
  <2>1. /\ q \in Seq({q[i] : i \in DOMAIN q})
        /\ r \in Seq({r[i] : i \in DOMAIN r})
    BY DEF IsSeq
  <2> QED BY <2>1
<1> HIDE DEF S
<1>2. /\ s \in Seq(S) /\ Len(q) \in Nat /\ Len(r) \in Nat /\ Len(s) = Len(q) + Len(r)
      /\ DOMAIN s = 1..Len(s)
      /\ \A i \in 1..Len(q) : s[i] = q[i]
      /\ \A i \in Len(q) + 1..Len(q) + Len(r) :
            i - Len(q) \in 1..Len(r) /\ s[i] = r[i - Len(q)]
  BY <1>1
<1>3. IsSeq(s)
  BY <1>2, TypedIsSeq
<1> QED BY <1>2, <1>3 DEF IsJoin

LEMMA ConcatIsSeq ==
    ASSUME NEW q, IsSeq(q), NEW r, IsSeq(r)
    PROVE  /\ IsSeq(q \o r)
           /\ Len(q) \in Nat /\ Len(r) \in Nat /\ Len(q \o r) = Len(q) + Len(r)
           /\ \A i \in 1..Len(q) : (q \o r)[i] = q[i]
           /\ \A i \in Len(q) + 1..Len(q) + Len(r) :
                 i - Len(q) \in 1..Len(r) /\ (q \o r)[i] = r[i - Len(q)]
BY ConcatIsJoin DEF IsJoin

\* What is left of a sequence when a prefix of it is taken away, and that prefix.
LEMMA CutIsSeq ==
    ASSUME NEW q, IsSeq(q), NEW n \in 0..Len(q)
    PROVE  /\ IsSeq(SubSeq(q, 1, n)) /\ IsSeq(SubSeq(q, n + 1, Len(q)))
           /\ Len(SubSeq(q, 1, n)) = n /\ Len(SubSeq(q, n + 1, Len(q))) = Len(q) - n
<1> DEFINE S == {q[i] : i \in DOMAIN q}
           a == SubSeq(q, 1, n)
           b == SubSeq(q, n + 1, Len(q))
<1>1. q \in Seq(S)
  BY DEF IsSeq
<1> HIDE DEF S
<1>2. /\ a \in Seq(S) /\ Len(a) = n /\ Len(q) \in Nat
      /\ b \in Seq(S) /\ Len(b) = Len(q) - n
  BY <1>1, SubSeqProperties
<1> HIDE DEF a, b
<1>3. IsSeq(a) /\ IsSeq(b)
  BY <1>2, TypedIsSeq
<1> QED BY <1>2, <1>3 DEF a, b

\* The first element and the rest.
LEMMA TailIsSeq ==
    ASSUME NEW q, IsSeq(q), q # <<>>
    PROVE  /\ IsSeq(Tail(q)) /\ Len(q) \in Nat \ {0} /\ Len(Tail(q)) = Len(q) - 1
           /\ Head(q) = q[1]
           /\ \A i \in 1..Len(q) - 1 : i + 1 \in 1..Len(q) /\ Tail(q)[i] = q[i + 1]
<1> DEFINE S == {q[i] : i \in DOMAIN q}
           t == Tail(q)
<1>1. q \in Seq(S)
  BY DEF IsSeq
<1> HIDE DEF S
<1>2. /\ t \in Seq(S) /\ Len(q) \in Nat \ {0} /\ Len(t) = Len(q) - 1
      /\ Head(q) = q[1] /\ DOMAIN t = 1..Len(t)
      /\ \A i \in 1..Len(q) - 1 : i + 1 \in 1..Len(q) /\ t[i] = q[i + 1]
  BY <1>1
<1>3. IsSeq(t)
  BY <1>2, TypedIsSeq
<1> QED BY <1>2, <1>3

\* A function on 1..n is a sequence, and two of them joined are a third when
\* they agree with it element by element.
IsList(f, n) == f = [i \in 1..n |-> f[i]]

LEMMA ListIsSeq ==
    ASSUME NEW n \in Nat, NEW f, IsList(f, n)
    PROVE  IsSeq(f) /\ Len(f) = n
<1>1. f = [i \in 1..n |-> f[i]] /\ DOMAIN f = 1..n
  BY DEF IsList
<1>2. PICK S : S = {f[i] : i \in 1..n}
  OBVIOUS
<1>3. f \in [1..n -> S]
  BY <1>1, <1>2
<1>4. f \in Seq(S) /\ Len(f) = n
  BY <1>1, <1>3
<1> QED BY <1>4, TypedIsSeq

LEMMA JoinIs ==
    ASSUME NEW m \in Nat, NEW n \in Nat, NEW a, NEW b, NEW c,
           IsList(a, m), IsList(b, n), IsList(c, m + n),
           \A i \in 1..m : a[i] = c[i],
           \A i \in 1..n : b[i] = c[m + i]
    PROVE  a \o b = c
<1>1. /\ IsSeq(a) /\ Len(a) = m /\ IsSeq(b) /\ Len(b) = n
      /\ IsSeq(c) /\ Len(c) = m + n
  BY ListIsSeq
<1>2. PICK d : d = a \o b
  OBVIOUS
<1>3. /\ IsSeq(d) /\ Len(d) = m + n
      /\ \A i \in 1..m : d[i] = a[i]
      /\ \A i \in m + 1..m + n : i - m \in 1..n /\ d[i] = b[i - m]
  <2>1. IsSeq(a) /\ IsSeq(b) /\ Len(a) = m /\ Len(b) = n
    BY <1>1
  <2>2. IsJoin(a \o b, a, b)
    BY <2>1, ConcatIsJoin
  <2>3. IsJoin(d, a, b)
    BY <1>2, <2>2
  <2> QED BY <2>1, <2>3 DEF IsJoin
<1>4. ASSUME NEW i \in 1..m + n
      PROVE  d[i] = c[i]
  <2>1. CASE i \in 1..m
    BY <1>3, <2>1
  <2>2. CASE i \in m + 1..m + n
    <3>1. i - m \in 1..n /\ m + (i - m) = i
      BY <1>3, <2>2
    <3> QED BY <1>3, <2>2, <3>1
  <2> QED BY <2>1, <2>2
<1>5. d = [i \in 1..m + n |-> d[i]]
  <2>1. d = [i \in 1..Len(d) |-> d[i]]
    BY <1>3 DEF IsSeq
  <2> QED BY <1>3, <2>1
<1>6. c = [i \in 1..m + n |-> c[i]]
  BY DEF IsList
<1>7. d = c
  BY <1>4, <1>5, <1>6, Zenon
<1> QED BY <1>2, <1>7

LEMMA JoinEmpty ==
    ASSUME NEW q, IsSeq(q)
    PROVE  q \o <<>> = q /\ <<>> \o q = q
<1>1. q \in Seq({q[i] : i \in DOMAIN q})
  BY DEF IsSeq
<1> QED BY <1>1

-----------------------------------------------------------------------------
(* Subsequences. *)

\* How many elements of S there are up to i numbers S from 1, each once.
LEMMA RankNumbers ==
    ASSUME NEW n \in Nat, NEW S \in SUBSET (1..n)
    PROVE  /\ Cardinality(S) \in Nat
           /\ \A x \in 1..Cardinality(S) : \E k \in S : CountUpTo(S, k) = x
<1> DEFINE Upto(k) == {j \in S : j <= k}
           m == Cardinality(S)
           f == [k \in S |-> Cardinality(Upto(k))]
<1>1. IsFiniteSet(S) /\ m \in Nat
  <2>1. IsFiniteSet(1..n)
    BY FS_Interval
  <2> QED BY <2>1, FS_Subset, FS_CardinalityType
<1>2. ASSUME NEW k \in S
      PROVE  /\ k \in Upto(k) /\ Upto(k) \in SUBSET S
             /\ IsFiniteSet(Upto(k)) /\ Cardinality(Upto(k)) \in 1..m
  <2>1. k \in Upto(k) /\ Upto(k) \in SUBSET S
    OBVIOUS
  <2>2. IsFiniteSet(Upto(k)) /\ Cardinality(Upto(k)) <= m
    BY <1>1, <2>1, FS_Subset
  <2>3. Cardinality(Upto(k)) \in Nat /\ Cardinality(Upto(k)) # 0
    BY <2>1, <2>2, FS_CardinalityType, FS_EmptySet
  <2> QED BY <1>1, <2>1, <2>2, <2>3
<1>3. ASSUME NEW j \in S, NEW k \in S, j < k
      PROVE  Cardinality(Upto(j)) # Cardinality(Upto(k))
  <2>1. Upto(j) \in SUBSET Upto(k) /\ k \notin Upto(j)
    <3>1. \A x \in S : x \in Int
      OBVIOUS
    <3>2. \A x \in S : x <= j => x <= k
      BY <1>3, <3>1
    <3>3. ~(k <= j)
      BY <1>3, <3>1
    <3> QED BY <3>2, <3>3
  <2>2. Upto(k) # Upto(j)
    BY <1>2, <2>1
  <2> HIDE DEF Upto
  <2> QED BY <1>2, <2>1, <2>2, FS_Subset
<1>4. f \in Injection(S, 1..m)
  <2> HIDE DEF Upto, m
  <2>1. \A j, k \in S : j \in Nat /\ k \in Nat
    OBVIOUS
  <2> QED BY <1>2, <1>3, <2>1 DEF Injection, IsInjective
<1>5. IsFiniteSet(1..m) /\ Cardinality(1..m) = m
  BY <1>1, FS_Interval
<1> HIDE DEF Upto, m
<1>6. f \in Surjection(S, 1..m)
  BY <1>1, <1>4, <1>5, FS_Injection DEF m
<1>7. \A x \in 1..m : \E k \in S : Cardinality(Upto(k)) = x
  BY <1>6 DEF Surjection
<1> QED BY <1>1, <1>7 DEF Upto, m, CountUpTo

\* The elements of s are those of q at some of the positions kept.
IsSelection(s, q, kept) ==
    \E m \in Nat :
       /\ s = [k \in 1..m |-> s[k]]
       /\ \E h \in [1..m -> kept] :
             /\ \A k \in 1..m : s[k] = q[h[k]]
             /\ \A j, k \in 1..m : h[j] = h[k] => j = k

\* A subsequence has elements of the kept positions, each at most once.
LEMMA SubsequenceKeeps ==
    ASSUME NEW q, NEW n \in Nat, NEW kept \in SUBSET (1..n),
           NEW s, s = Subsequence(q, kept)
    PROVE  IsSelection(s, q, kept)
<1> DEFINE nth(k) == CHOOSE i \in kept : CountUpTo(kept, i) = k
           m == Cardinality(kept)
           h == [k \in 1..m |-> nth(k)]
<1>1. s = [k \in 1..m |-> q[nth(k)]]
  BY DEF Subsequence
<1>2. m \in Nat /\ \A x \in 1..m : \E k \in kept : CountUpTo(kept, k) = x
  BY RankNumbers
<1> HIDE DEF m
<1>3. \A k \in 1..m : nth(k) \in kept /\ CountUpTo(kept, nth(k)) = k
  BY <1>2
<1> HIDE DEF nth
<1>4. h \in [1..m -> kept] /\ \A k \in 1..m : h[k] = nth(k)
  BY <1>3
<1>5. \A j, k \in 1..m : nth(j) = nth(k) => j = k
  BY <1>3
<1>6. s = [k \in 1..m |-> s[k]] /\ \A k \in 1..m : s[k] = q[nth(k)]
  BY <1>1
<1> HIDE DEF h
<1>7. \A k \in 1..m : s[k] = q[h[k]]
  BY <1>4, <1>6
<1>8. \A j, k \in 1..m : h[j] = h[k] => j = k
  BY <1>4, <1>5
<1> QED BY <1>2, <1>4, <1>6, <1>7, <1>8 DEF IsSelection

\* The positions a subsequence has its elements from, in order and none left out.
IsInOrder(s, q, kept) ==
    \E m \in Nat :
       /\ s = [k \in 1..m |-> s[k]]
       /\ \E h \in [1..m -> kept] :
             /\ \A k \in 1..m : s[k] = q[h[k]]
             /\ \A j, k \in 1..m : j < k => h[j] < h[k]
             /\ \A i \in kept : \E k \in 1..m : h[k] = i

LEMMA SubsequenceInOrder ==
    ASSUME NEW q, NEW n \in Nat, NEW kept \in SUBSET (1..n),
           NEW s, s = Subsequence(q, kept)
    PROVE  IsInOrder(s, q, kept)
<1> DEFINE nth(k) == CHOOSE i \in kept : CountUpTo(kept, i) = k
           m == Cardinality(kept)
           h == [k \in 1..m |-> nth(k)]
<1>1. s = [k \in 1..m |-> q[nth(k)]]
  BY DEF Subsequence
<1>2. m \in Nat /\ \A x \in 1..m : \E k \in kept : CountUpTo(kept, k) = x
  BY RankNumbers
<1>3. IsFiniteSet(kept)
  <2>1. IsFiniteSet(1..n)
    BY FS_Interval
  <2> QED BY <2>1, FS_Subset
<1>4. \A i \in kept : i \in Nat
  OBVIOUS
<1>5. ASSUME NEW i \in kept, NEW j \in kept, i < j
      PROVE  CountUpTo(kept, i) < CountUpTo(kept, j)
  <2> DEFINE Upto(k) == {x \in kept : x <= k}
  <2>1. Upto(i) \in SUBSET Upto(j) /\ j \in Upto(j) /\ j \notin Upto(i)
    <3>1. \A x \in kept : x <= i => x <= j
      BY <1>4, <1>5
    <3>2. j <= j /\ ~(j <= i)
      BY <1>4, <1>5
    <3> QED BY <3>1, <3>2
  <2>2. IsFiniteSet(Upto(j)) /\ Upto(i) # Upto(j)
    <3>1. Upto(j) \in SUBSET kept
      OBVIOUS
    <3> HIDE DEF Upto
    <3> QED BY <1>3, <2>1, <3>1, FS_Subset
  <2> HIDE DEF Upto
  <2>3. /\ IsFiniteSet(Upto(i)) /\ Cardinality(Upto(i)) <= Cardinality(Upto(j))
        /\ Cardinality(Upto(i)) # Cardinality(Upto(j))
    BY <2>1, <2>2, FS_Subset
  <2>4. Cardinality(Upto(i)) \in Nat /\ Cardinality(Upto(j)) \in Nat
    BY <2>2, <2>3, FS_CardinalityType
  <2> QED BY <2>3, <2>4 DEF Upto, CountUpTo
<1>6. ASSUME NEW i \in kept
      PROVE  CountUpTo(kept, i) \in 1..m
  <2> DEFINE U == {x \in kept : x <= i}
  <2>1. U \in SUBSET kept /\ i \in U
    BY <1>4
  <2> HIDE DEF U
  <2>2. IsFiniteSet(U) /\ Cardinality(U) <= m
    BY <1>3, <2>1, FS_Subset
  <2>3. Cardinality(U) \in Nat /\ Cardinality(U) # 0
    BY <2>1, <2>2, FS_CardinalityType, FS_EmptySet
  <2>4. CountUpTo(kept, i) = Cardinality(U)
    BY DEF CountUpTo, U
  <2> HIDE DEF m
  <2> QED BY <1>2, <2>2, <2>3, <2>4
<1> HIDE DEF m
<1>7. \A k \in 1..m : nth(k) \in kept /\ CountUpTo(kept, nth(k)) = k
  BY <1>2
<1> HIDE DEF nth
<1>8. h \in [1..m -> kept] /\ \A k \in 1..m : h[k] = nth(k)
  BY <1>7
<1>9. s = [k \in 1..m |-> s[k]] /\ \A k \in 1..m : s[k] = q[nth(k)]
  BY <1>1
<1> HIDE DEF h
<1>10. \A k \in 1..m : h[k] \in kept /\ CountUpTo(kept, h[k]) = k
  BY <1>7, <1>8
<1>11. ASSUME NEW i \in kept, NEW j \in kept, CountUpTo(kept, i) < CountUpTo(kept, j)
       PROVE  i < j
  <2>1. CountUpTo(kept, i) \in 1..m /\ CountUpTo(kept, j) \in 1..m
    BY <1>6
  <2>2. ~(j < i) /\ i # j
    <3>1. CASE j < i
      <4>1. CountUpTo(kept, j) < CountUpTo(kept, i)
        BY <1>5, <3>1
      <4> QED BY <1>2, <1>11, <2>1, <4>1
    <3>2. i # j
      BY <1>2, <1>11, <2>1
    <3> QED BY <3>1, <3>2
  <2> QED BY <1>4, <2>2
<1>12. ASSUME NEW j \in 1..m, NEW k \in 1..m, j < k
       PROVE  h[j] < h[k]
  <2>1. PICK x, y : x = h[j] /\ y = h[k]
    OBVIOUS
  <2>2. x \in kept /\ y \in kept /\ CountUpTo(kept, x) = j /\ CountUpTo(kept, y) = k
    BY <1>10, <2>1
  <2>3. CountUpTo(kept, x) < CountUpTo(kept, y)
    BY <1>12, <2>2
  <2>4. x < y
    BY <1>11, <2>2, <2>3
  <2> QED BY <2>1, <2>4
<1>13. ASSUME NEW i \in kept
       PROVE  \E k \in 1..m : h[k] = i
  <2>1. PICK k \in 1..m : k = CountUpTo(kept, i)
    BY <1>6
  <2>2. h[k] \in kept /\ CountUpTo(kept, h[k]) = k
    BY <1>10
  <2>3. ~(h[k] < i) /\ ~(i < h[k])
    <3>1. k \in Nat
      OBVIOUS
    <3>2. ~(k < k)
      BY <3>1
    <3> QED BY <1>5, <2>1, <2>2, <3>2
  <2>4. PICK a \in Nat : a = h[k]
    BY <1>4, <2>2
  <2>5. h[k] = i
    BY <1>4, <2>3, <2>4
  <2> QED BY <2>5
<1>14. \A k \in 1..m : s[k] = q[h[k]]
  BY <1>8, <1>9
<1>15. \A j, k \in 1..m : j < k => h[j] < h[k]
  BY <1>12
<1>16. \A i \in kept : \E k \in 1..m : h[k] = i
  BY <1>13
<1> QED BY <1>2, <1>8, <1>9, <1>14, <1>15, <1>16, Zenon DEF IsInOrder

-----------------------------------------------------------------------------
(* Numbers. *)

\* Dividing with remainder.
LEMMA Division ==
    ASSUME NEW a \in Nat, NEW d \in Nat \ {0}
    PROVE  a \div d \in Nat /\ a % d \in 0..d - 1 /\ a = (a \div d) * d + (a % d)
OBVIOUS

\* The multiples of d are d apart.
LEMMA Multiples ==
    ASSUME NEW d \in Nat \ {0}, NEW s \in Nat, NEW t \in Nat
    PROVE  /\ s * d \in Nat /\ t * d \in Nat
           /\ s < t => s * d + d <= t * d
<1>1. s * d \in Nat /\ t * d \in Nat
  OBVIOUS
<1>2. ASSUME s < t
      PROVE  s * d + d <= t * d
  <2>1. t - s - 1 \in Nat
    BY <1>2
  <2>2. (t - s - 1) * d \in Nat
    BY <2>1
  <2>3. t * d = s * d + d + (t - s - 1) * d
    OBVIOUS
  <2> QED BY <1>1, <2>2, <2>3
<1> QED BY <1>1, <1>2

\* What multiplies a panel index to a row and a column.
LEMMA Quotient ==
    ASSUME NEW d \in Nat \ {0}, NEW q \in Nat, NEW r \in 0..d - 1
    PROVE  /\ q * d + r \in Nat /\ (q * d + r) \div d = q /\ (q * d + r) % d = r
           /\ \A n \in Nat : q < n => q * d + r < n * d
<1> DEFINE x == q * d + r
<1>1. q * d \in Nat /\ x \in Nat
  OBVIOUS
<1>2. x \div d \in Nat /\ x % d \in 0..d - 1 /\ x = (x \div d) * d + (x % d)
  BY <1>1, Division, Zenon
<1> DEFINE s == x \div d
           m == x % d
<1>3. s \in Nat /\ m \in 0..d - 1 /\ x = s * d + m
  BY <1>2
<1> HIDE DEF s, m
<1>4. s * d \in Nat
  BY <1>3
<1>5. (s < q => s * d + d <= q * d) /\ (q < s => q * d + d <= s * d)
  BY <1>3, Multiples
<1>6. s = q
  BY <1>1, <1>3, <1>4, <1>5
<1>7. m = r
  BY <1>1, <1>3, <1>6
<1>8. ASSUME NEW n \in Nat, q < n
      PROVE  x < n * d
  <2>1. q * d + d <= n * d /\ n * d \in Nat
    BY <1>8, Multiples
  <2> QED BY <1>1, <2>1
<1> QED BY <1>1, <1>6, <1>7, <1>8 DEF s, m

\* A non-empty set of numbers up to n has a largest member.
LEMMA LargestUpTo ==
    ASSUME NEW n \in Nat, NEW S \in SUBSET (1..n), S # {}
    PROVE  \E t \in S : \A u \in S : u <= t
<1> DEFINE gaps == {n - t : t \in S}
           R == {ss \in Nat \X Nat : ss[1] < ss[2]}
<1>1. gaps \in SUBSET Nat /\ gaps # {}
  <2>1. \A t \in S : t \in 1..n /\ n - t \in Nat
    OBVIOUS
  <2>2. \E t : t \in S
    OBVIOUS
  <2> QED BY <2>1, <2>2
<1>2. IsWellFoundedOn(R, Nat)
  BY NatLessThanWellFounded, Zenon DEF OpToRel
<1>3. PICK g \in gaps : \A h \in gaps : ~(<<h, g>> \in R)
  <2> HIDE DEF gaps, R
  <2> QED BY <1>1, <1>2, WFMin
<1>4. PICK t \in S : g = n - t
  OBVIOUS
<1>5. \A h, k \in Nat : h < k => <<h, k>> \in R
  OBVIOUS
<1>6. \A u \in S : n - u \in gaps
  OBVIOUS
<1> HIDE DEF gaps, R
<1>7. ASSUME NEW u \in S
      PROVE  u <= t
  <2>1. ~(n - u < n - t)
    BY <1>1, <1>3, <1>4, <1>5, <1>6
  <2> QED BY <2>1
<1> QED BY <1>7

-----------------------------------------------------------------------------
(* Sums over finite sets.  A fold over a set takes its elements in an      *)
(* unspecified order; TotalOf is the recursive function it stands for.     *)

OneOf(s) == CHOOSE x \in s : TRUE

IsTotal(S, f, h) ==
    h = [s \in SUBSET S |-> IF s = {} THEN 0 ELSE f[OneOf(s)] + h[s \ {OneOf(s)}]]
TotalOf(S, f) == CHOOSE h : IsTotal(S, f, h)
Total(S, f) == TotalOf(S, f)[S]

\* A non-empty set of finite sets has a smallest member.
LEMMA SmallestSubset ==
    ASSUME NEW S, IsFiniteSet(S), NEW bad \in SUBSET SUBSET S, bad # {}
    PROVE  \E s \in bad : \A t \in bad : ~(Cardinality(t) < Cardinality(s))
<1> DEFINE sizes == {Cardinality(s) : s \in bad}
           R == {ss \in Nat \X Nat : ss[1] < ss[2]}
<1>1. \A s \in SUBSET S : Cardinality(s) \in Nat
  BY FS_Subset, FS_CardinalityType
<1>2. sizes \in SUBSET Nat /\ sizes # {}
  BY <1>1
<1>3. IsWellFoundedOn(R, Nat)
  BY NatLessThanWellFounded, Zenon DEF OpToRel
<1>4. PICK n \in sizes : \A m \in sizes : ~(<<m, n>> \in R)
  <2> HIDE DEF sizes, R
  <2> QED BY <1>2, <1>3, WFMin
<1>5. PICK s \in bad : Cardinality(s) = n
  OBVIOUS
<1>6. \A t \in bad : Cardinality(t) \in sizes
  OBVIOUS
<1>7. \A m, k \in Nat : m < k => <<m, k>> \in R
  OBVIOUS
<1> HIDE DEF sizes, R
<1>8. \A t \in bad : ~(Cardinality(t) < n)
  BY <1>2, <1>4, <1>6, <1>7
<1> QED BY <1>5, <1>8

\* Taking one element away.
LEMMA SmallerByOne ==
    ASSUME NEW S, IsFiniteSet(S), NEW s \in SUBSET S, NEW x \in s
    PROVE  /\ s \ {x} \in SUBSET S
           /\ Cardinality(s) \in Nat /\ Cardinality(s \ {x}) \in Nat
           /\ Cardinality(s \ {x}) = Cardinality(s) - 1
<1>1. IsFiniteSet(s) /\ IsFiniteSet(s \ {x}) /\ s \ {x} \in SUBSET S
  BY FS_Subset
<1>2. Cardinality(s \ {x}) = Cardinality(s) - 1
  BY <1>1, FS_RemoveElement
<1> QED BY <1>1, <1>2, FS_CardinalityType

LEMMA OneOfIsMember == ASSUME NEW s, s # {} PROVE OneOf(s) \in s
BY DEF OneOf

\* A function on the subsets of S that takes from a subset the element that
\* pick names and combines it with its value for the rest: a fold.
Picks(S, pick) == \A s \in SUBSET S : s # {} => pick[s] \in s

IsFold(S, pick, base, step, h) ==
    \A s \in SUBSET S :
        h[s] = IF s = {} THEN base ELSE step[<<pick[s], h[s \ {pick[s]}]>>]

\* The fold of a finite set exists: it is built up by the size of the subsets.
LEMMA FoldExists ==
    ASSUME NEW S, IsFiniteSet(S), NEW V, NEW base \in V, NEW pick, Picks(S, pick),
           NEW step \in [S \X V -> V]
    PROVE  \E h \in [SUBSET S -> V] : IsFold(S, pick, base, step, h)
<1> DEFINE body(h, s) == IF s = {} THEN base ELSE step[<<pick[s], h[s \ {pick[s]}]>>]
           Upto(n, h) == \A s \in SUBSET S : Cardinality(s) <= n => h[s] = body(h, s)
           bad == {n \in Nat : \A h \in [SUBSET S -> V] : ~Upto(n, h)}
           R == {ss \in Nat \X Nat : ss[1] < ss[2]}
<1>1. \A s \in SUBSET S : IsFiniteSet(s) /\ Cardinality(s) \in Nat
  BY FS_Subset, FS_CardinalityType
<1>2. bad = {}
  <2> SUFFICES ASSUME bad # {} PROVE FALSE
    OBVIOUS
  <2>1. IsWellFoundedOn(R, Nat)
    BY NatLessThanWellFounded, Zenon DEF OpToRel
  <2>2. bad \in SUBSET Nat
    OBVIOUS
  <2>3. PICK n \in bad : \A m \in bad : ~(<<m, n>> \in R)
    <3> HIDE DEF bad, R
    <3> QED BY <2>1, <2>2, WFMin
  <2>4. n \in Nat /\ (\A h \in [SUBSET S -> V] : ~Upto(n, h))
    OBVIOUS
  <2>5. CASE n = 0
    <3> DEFINE z == [s \in SUBSET S |-> base]
    <3>1. \A s \in SUBSET S : Cardinality(s) <= 0 => s = {}
      BY <1>1, FS_EmptySet
    <3>2. z \in [SUBSET S -> V] /\ Upto(0, z)
      BY <3>1
    <3> QED BY <2>4, <2>5, <3>2
  <2>6. CASE n # 0
    <3>1. n - 1 \in Nat /\ n - 1 \notin bad
      <4>1. n - 1 \in Nat /\ <<n - 1, n>> \in R
        BY <2>4, <2>6
      <4> QED BY <2>3, <4>1
    <3>2. PICK h \in [SUBSET S -> V] : Upto(n - 1, h)
      BY <3>1
    <3> DEFINE k == [s \in SUBSET S |-> IF Cardinality(s) < n THEN h[s] ELSE body(h, s)]
    <3>3. \A s \in SUBSET S : s # {} =>
             /\ pick[s] \in S /\ s \ {pick[s]} \in SUBSET S
             /\ Cardinality(s \ {pick[s]}) = Cardinality(s) - 1
      BY SmallerByOne DEF Picks
    <3>4. k \in [SUBSET S -> V]
      BY <3>3
    <3>5. ASSUME NEW s \in SUBSET S, Cardinality(s) <= n
          PROVE  k[s] = body(k, s)
      <4>1. k[s] = body(h, s)
        <5>1. CASE Cardinality(s) < n
          <6>1. Cardinality(s) <= n - 1
            BY <1>1, <2>4, <5>1
          <6> QED BY <3>2, <5>1, <6>1
        <5>2. CASE ~(Cardinality(s) < n)
          BY <5>2
        <5> QED BY <5>1, <5>2
      <4>2. s # {} => k[s \ {pick[s]}] = h[s \ {pick[s]}]
        BY <1>1, <2>4, <3>3, <3>5
      <4> QED BY <4>1, <4>2
    <3> HIDE DEF k
    <3> QED BY <2>4, <3>4, <3>5
  <2> QED BY <2>5, <2>6
<1>3. Cardinality(S) \in Nat /\ \A s \in SUBSET S : Cardinality(s) <= Cardinality(S)
  BY <1>1, FS_Subset
<1>4. PICK h \in [SUBSET S -> V] : Upto(Cardinality(S), h)
  BY <1>2, <1>3
<1>5. \A s \in SUBSET S : h[s] = body(h, s)
  BY <1>3, <1>4
<1> QED BY <1>5 DEF IsFold

\* What holds of the empty set and is kept by adding what is picked holds.
LEMMA FoldStays ==
    ASSUME NEW S, IsFiniteSet(S), NEW V, NEW pick, Picks(S, pick), NEW h, h[{}] \in V,
           \A s \in SUBSET S : s # {} /\ h[s \ {pick[s]}] \in V => h[s] \in V
    PROVE  \A s \in SUBSET S : h[s] \in V
<1> DEFINE off == {s \in SUBSET S : h[s] \notin V}
<1> SUFFICES ASSUME off # {} PROVE FALSE
  OBVIOUS
<1>1. PICK s \in off : \A u \in off : ~(Cardinality(u) < Cardinality(s))
  BY SmallestSubset
<1>2. s \in SUBSET S /\ h[s] \notin V /\ s # {}
  OBVIOUS
<1>3. s \ {pick[s]} \notin off /\ s \ {pick[s]} \in SUBSET S
  <2>1. /\ s \ {pick[s]} \in SUBSET S /\ Cardinality(s) \in Nat
        /\ Cardinality(s \ {pick[s]}) = Cardinality(s) - 1
    BY <1>2, SmallerByOne DEF Picks
  <2> HIDE DEF off
  <2> QED BY <1>1, <2>1
<1> QED BY <1>2, <1>3

\* The sum is a fold.
LEMMA TotalExists ==
    ASSUME NEW S, IsFiniteSet(S), NEW f \in [S -> Int]
    PROVE  /\ IsTotal(S, f, TotalOf(S, f))
           /\ TotalOf(S, f) \in [SUBSET S -> Int]
<1> DEFINE pick == [s \in SUBSET S |-> OneOf(s)]
           step == [xv \in S \X Int |-> f[xv[1]] + xv[2]]
           t == TotalOf(S, f)
<1>1. Picks(S, pick)
  BY OneOfIsMember DEF Picks
<1>2. 0 \in Int /\ step \in [S \X Int -> Int]
  OBVIOUS
<1>3. PICK h \in [SUBSET S -> Int] : IsFold(S, pick, 0, step, h)
  <2> HIDE DEF pick, step
  <2> QED BY <1>1, <1>2, FoldExists
<1>4. ASSUME NEW s \in SUBSET S, s # {}
      PROVE  h[s] = f[OneOf(s)] + h[s \ {OneOf(s)}]
  <2>1. OneOf(s) \in S /\ s \ {OneOf(s)} \in SUBSET S /\ pick[s] = OneOf(s)
    BY <1>4, OneOfIsMember
  <2>2. h[s] = step[<<OneOf(s), h[s \ {OneOf(s)}]>>]
    <3> HIDE DEF step, pick
    <3> QED BY <1>3, <1>4, <2>1 DEF IsFold
  <2> QED BY <2>1, <2>2
<1>5. IsTotal(S, f, h)
  <2>1. h[{}] = 0 /\ h = [s \in SUBSET S |-> h[s]]
    BY <1>3 DEF IsFold
  <2> QED BY <1>4, <2>1 DEF IsTotal
<1>6. IsTotal(S, f, t)
  BY <1>5 DEF TotalOf
<1> HIDE DEF t
<1>7. \A s \in SUBSET S : t[s] = IF s = {} THEN 0 ELSE f[OneOf(s)] + t[s \ {OneOf(s)}]
  BY <1>6 DEF IsTotal
<1>8. \A s \in SUBSET S : t[s] \in Int
  <2>1. t[{}] \in Int
    <3>1. {} \in SUBSET S /\ 0 \in Int
      OBVIOUS
    <3>2. t[{}] = 0
      BY <1>7, <3>1
    <3> QED BY <3>1, <3>2
  <2>2. \A s \in SUBSET S : s # {} /\ t[s \ {pick[s]}] \in Int => t[s] \in Int
    BY <1>7, OneOfIsMember
  <2> HIDE DEF pick
  <2> QED BY <1>1, <2>1, <2>2, FoldStays
<1>9. t = [s \in SUBSET S |-> t[s]]
  BY <1>6 DEF IsTotal
<1> QED BY <1>6, <1>8, <1>9 DEF t

AnyOrder(S, f, t) == \A s \in SUBSET S : \A x \in s : t[s] = f[x] + t[s \ {x}]

\* The elements of a subset may be added in any order.
LEMMA TotalStep ==
    ASSUME NEW S, IsFiniteSet(S), NEW f \in [S -> Int]
    PROVE  /\ TotalOf(S, f) \in [SUBSET S -> Int] /\ TotalOf(S, f)[{}] = 0
           /\ AnyOrder(S, f, TotalOf(S, f))
<1> DEFINE t == TotalOf(S, f)
<1>1. t \in [SUBSET S -> Int] /\ IsTotal(S, f, t)
  BY TotalExists
<1> HIDE DEF t
<1>2. \A s \in SUBSET S : t[s] = IF s = {} THEN 0 ELSE f[OneOf(s)] + t[s \ {OneOf(s)}]
  BY <1>1 DEF IsTotal
<1>3. t[{}] = 0
  BY <1>2
<1> DEFINE off == {s \in SUBSET S : \E x \in s : t[s] # f[x] + t[s \ {x}]}
<1>4. ASSUME off # {}
      PROVE  FALSE
  <2>1. PICK s \in off : \A u \in off : ~(Cardinality(u) < Cardinality(s))
    <3>1. off \in SUBSET SUBSET S
      OBVIOUS
    <3> HIDE DEF off
    <3> QED BY <1>4, <3>1, SmallestSubset
  <2>2. s \in SUBSET S
    OBVIOUS
  <2>3. PICK x \in s : t[s] # f[x] + t[s \ {x}]
    OBVIOUS
  <2> DEFINE y == OneOf(s)
  <2>4. y \in s
    BY OneOfIsMember
  <2>5. t[s] = f[y] + t[s \ {y}]
    BY <1>2, <2>2
  <2>6. x # y
    BY <2>3, <2>5
  <2>7. s \ {x} \in SUBSET S /\ s \ {y} \in SUBSET S /\ s \ {x} \notin off /\ s \ {y} \notin off
    <3>1. \A z \in s : Cardinality(s \ {z}) < Cardinality(s)
      BY <2>2, SmallerByOne
    <3> HIDE DEF off, y
    <3> QED BY <2>1, <2>2, <2>4, <3>1
  <2>8. t[s \ {y}] = f[x] + t[(s \ {y}) \ {x}]
    BY <2>6, <2>7
  <2>9. t[s \ {x}] = f[y] + t[(s \ {x}) \ {y}]
    BY <2>4, <2>6, <2>7
  <2>10. (s \ {x}) \ {y} = (s \ {y}) \ {x} /\ (s \ {x}) \ {y} \in SUBSET S
    BY <2>2
  <2>11. f[x] \in Int /\ f[y] \in Int /\ t[(s \ {x}) \ {y}] \in Int
    BY <1>1, <2>2, <2>4, <2>10
  <2>12. t[s] = f[y] + (f[x] + t[(s \ {x}) \ {y}])
    BY <2>5, <2>8, <2>10
  <2>13. f[x] + t[s \ {x}] = f[x] + (f[y] + t[(s \ {x}) \ {y}])
    BY <2>9
  <2> HIDE DEF y, off
  <2> QED BY <2>3, <2>11, <2>12, <2>13
<1> QED BY <1>1, <1>3, <1>4 DEF t, AnyOrder

\* Sums of functions that agree are the same.
LEMMA TotalAgree ==
    ASSUME NEW S, IsFiniteSet(S), NEW f \in [S -> Int], NEW g \in [S -> Int],
           NEW T \in SUBSET S, \A x \in T : f[x] = g[x]
    PROVE  TotalOf(S, f)[T] = TotalOf(S, g)[T]
<1> DEFINE t == TotalOf(S, f)
           u == TotalOf(S, g)
           off == {s \in SUBSET T : t[s] # u[s]}
<1>1. t[{}] = 0 /\ AnyOrder(S, f, t) /\ u[{}] = 0 /\ AnyOrder(S, g, u)
  BY TotalStep
<1> HIDE DEF t, u
<1>2. ASSUME off # {}
      PROVE  FALSE
  <2>1. PICK s \in off : \A v \in off : ~(Cardinality(v) < Cardinality(s))
    <3>1. off \in SUBSET SUBSET S
      OBVIOUS
    <3> HIDE DEF off
    <3> QED BY <1>2, <3>1, SmallestSubset
  <2>2. s # {} /\ s \in SUBSET T /\ s \in SUBSET S
    BY <1>1
  <2>3. PICK x \in s : TRUE
    BY <2>2
  <2>4. s \ {x} \notin off /\ s \ {x} \in SUBSET T
    <3>1. Cardinality(s \ {x}) < Cardinality(s)
      BY <2>2, <2>3, SmallerByOne
    <3> HIDE DEF off
    <3> QED BY <2>1, <2>2, <3>1
  <2>5. t[s] = f[x] + t[s \ {x}] /\ u[s] = g[x] + u[s \ {x}]
    BY <1>1, <2>2, <2>3 DEF AnyOrder
  <2>6. t[s \ {x}] = u[s \ {x}] /\ f[x] = g[x]
    BY <2>2, <2>4
  <2> QED BY <2>5, <2>6
<1> QED BY <1>2 DEF t, u

\* A sum of zeros.
LEMMA TotalZero ==
    ASSUME NEW S, IsFiniteSet(S), NEW f \in [S -> Int], \A x \in S : f[x] = 0
    PROVE  Total(S, f) = 0
<1> DEFINE t == TotalOf(S, f)
           off == {s \in SUBSET S : t[s] # 0}
<1>1. t[{}] = 0 /\ AnyOrder(S, f, t)
  BY TotalStep
<1> HIDE DEF t
<1>2. ASSUME off # {}
      PROVE  FALSE
  <2>1. PICK s \in off : \A v \in off : ~(Cardinality(v) < Cardinality(s))
    <3>1. off \in SUBSET SUBSET S
      OBVIOUS
    <3> HIDE DEF off
    <3> QED BY <1>2, <3>1, SmallestSubset
  <2>2. s # {} /\ s \in SUBSET S /\ t[s] # 0
    BY <1>1
  <2>3. PICK x \in s : TRUE
    BY <2>2
  <2>4. s \ {x} \notin off /\ s \ {x} \in SUBSET S
    <3>1. Cardinality(s \ {x}) < Cardinality(s)
      BY <2>2, <2>3, SmallerByOne
    <3> HIDE DEF off
    <3> QED BY <2>1, <2>2, <3>1
  <2>5. t[s] = f[x] + t[s \ {x}] /\ t[s \ {x}] = 0 /\ f[x] = 0
    BY <1>1, <2>2, <2>3, <2>4 DEF AnyOrder
  <2>6. t[s] = 0 + 0
    BY <2>5
  <2> QED BY <2>2, <2>6
<1> QED BY <1>2 DEF t, Total

\* Changing one term changes the sum by as much.
LEMMA TotalChange ==
    ASSUME NEW S, IsFiniteSet(S), NEW f \in [S -> Int], NEW g \in [S -> Int],
           NEW x \in S, \A y \in S \ {x} : f[y] = g[y]
    PROVE  /\ Total(S, f) \in Int /\ Total(S, g) \in Int
           /\ Total(S, g) = Total(S, f) + (g[x] - f[x])
<1>1. S \in SUBSET S /\ S \ {x} \in SUBSET S
  OBVIOUS
<1>2. /\ Total(S, f) = f[x] + TotalOf(S, f)[S \ {x}]
      /\ Total(S, g) = g[x] + TotalOf(S, g)[S \ {x}]
  <2>1. AnyOrder(S, f, TotalOf(S, f)) /\ AnyOrder(S, g, TotalOf(S, g))
    BY TotalStep
  <2> QED BY <1>1, <2>1 DEF Total, AnyOrder
<1>3. TotalOf(S, f)[S \ {x}] = TotalOf(S, g)[S \ {x}]
  BY <1>1, TotalAgree
<1>4. TotalOf(S, f)[S \ {x}] \in Int
  <2>1. TotalOf(S, f) \in [SUBSET S -> Int]
    BY TotalStep
  <2> QED BY <1>1, <2>1
<1>5. f[x] \in Int /\ g[x] \in Int
  OBVIOUS
<1> QED BY <1>2, <1>3, <1>4, <1>5

\* Raising every term of a subset by one raises the sum by its size.
LEMMA TotalRaise ==
    ASSUME NEW S, IsFiniteSet(S), NEW f \in [S -> Int], NEW g \in [S -> Int],
           NEW X \in SUBSET S,
           \A y \in S : g[y] = IF y \in X THEN f[y] + 1 ELSE f[y]
    PROVE  /\ Total(S, f) \in Int /\ Total(S, g) \in Int /\ Cardinality(X) \in Nat
           /\ Total(S, g) = Total(S, f) + Cardinality(X)
<1> DEFINE up(s) == [y \in S |-> IF y \in s THEN f[y] + 1 ELSE f[y]]
           off == {s \in SUBSET S : Total(S, up(s)) # Total(S, f) + Cardinality(s)}
<1>1. \A s \in SUBSET S : up(s) \in [S -> Int]
  OBVIOUS
<1>2. Total(S, f) \in Int
  <2>1. TotalOf(S, f) \in [SUBSET S -> Int] /\ S \in SUBSET S
    BY TotalStep
  <2> QED BY <2>1 DEF Total
<1>3. ASSUME off # {}
      PROVE  FALSE
  <2>1. PICK s \in off : \A v \in off : ~(Cardinality(v) < Cardinality(s))
    <3>1. off \in SUBSET SUBSET S
      OBVIOUS
    <3> HIDE DEF off
    <3> QED BY <1>3, <3>1, SmallestSubset
  <2>2. s \in SUBSET S /\ Total(S, up(s)) # Total(S, f) + Cardinality(s)
    OBVIOUS
  <2>3. CASE s = {}
    <3>1. up({}) = f
      OBVIOUS
    <3>2. Cardinality({}) = 0
      BY FS_EmptySet
    <3> HIDE DEF up, off
    <3> QED BY <1>2, <2>2, <2>3, <3>1, <3>2
  <2>4. CASE s # {}
    <3>1. PICK x \in s : TRUE
      BY <2>4
    <3>2. /\ s \ {x} \in SUBSET S
          /\ Cardinality(s) \in Nat /\ Cardinality(s \ {x}) = Cardinality(s) - 1
      BY <2>2, <3>1, SmallerByOne
    <3>3. Total(S, up(s \ {x})) = Total(S, f) + Cardinality(s \ {x})
      <4>1. s \ {x} \notin off
        <5> HIDE DEF off
        <5> QED BY <2>1, <3>2
      <4> QED BY <3>2, <4>1
    <3>4. /\ x \in S /\ up(s \ {x})[x] = f[x] /\ up(s)[x] = f[x] + 1 /\ f[x] \in Int
          /\ \A y \in S \ {x} : up(s \ {x})[y] = up(s)[y]
      BY <2>2, <3>1
    <3>5. up(s) \in [S -> Int] /\ up(s \ {x}) \in [S -> Int]
      BY <1>1, <2>2, <3>2
    <3>6. Total(S, up(s)) = Total(S, up(s \ {x})) + (up(s)[x] - up(s \ {x})[x])
      <4> DEFINE a == up(s \ {x})
                 b == up(s)
      <4>1. a \in [S -> Int] /\ b \in [S -> Int] /\ x \in S /\ \A y \in S \ {x} : a[y] = b[y]
        BY <3>4, <3>5
      <4> HIDE DEF a, b
      <4>2. Total(S, b) = Total(S, a) + (b[x] - a[x])
        BY <4>1, TotalChange
      <4> QED BY <4>2 DEF a, b
    <3> HIDE DEF up, off
    <3> QED BY <1>2, <2>2, <3>2, <3>3, <3>4, <3>6
  <2> QED BY <2>3, <2>4
<1>4. g = up(X)
  OBVIOUS
<1>5. Cardinality(X) \in Nat
  BY FS_Subset, FS_CardinalityType
<1>6. Total(S, g) = Total(S, f) + Cardinality(X)
  BY <1>3, <1>4
<1> QED BY <1>2, <1>5, <1>6

-----------------------------------------------------------------------------
(* Cutting typed sequences. *)

\* The front of what is left of s when n elements are gone, and the rest.
LEMMA FrontLeaves ==
    ASSUME NEW S, NEW s \in Seq(S), NEW n \in Nat
    PROVE  /\ n < Len(s) => /\ SubSeq(s, n + 1, Len(s)) # <<>>
                            /\ Head(SubSeq(s, n + 1, Len(s))) = s[n + 1]
                            /\ Tail(SubSeq(s, n + 1, Len(s))) = SubSeq(s, n + 2, Len(s))
           /\ n <= Len(s) => Len(SubSeq(s, n + 1, Len(s))) = Len(s) - n
           /\ n = Len(s) => SubSeq(s, n + 1, Len(s)) = <<>>
<1>1. Len(s) \in Nat /\ \A i \in 1..Len(s) : s[i] \in S
  OBVIOUS
<1>2. n <= Len(s) => Len(SubSeq(s, n + 1, Len(s))) = Len(s) - n
  <2> SUFFICES ASSUME n <= Len(s) PROVE Len(SubSeq(s, n + 1, Len(s))) = Len(s) - n
    OBVIOUS
  <2>1. \A i \in n + 1..Len(s) : s[i] \in S
    BY <1>1
  <2>2. Len(SubSeq(s, n + 1, Len(s)))
           = IF n + 1 <= Len(s) THEN Len(s) - (n + 1) + 1 ELSE 0
    BY <1>1, <2>1, SubSeqProperties
  <2> QED BY <1>1, <2>2
<1>3. ASSUME n < Len(s)
      PROVE  /\ SubSeq(s, n + 1, Len(s)) # <<>>
             /\ Head(SubSeq(s, n + 1, Len(s))) = s[n + 1]
             /\ Tail(SubSeq(s, n + 1, Len(s))) = SubSeq(s, n + 2, Len(s))
  <2>1. n + 1 \in 1..Len(s) /\ Len(s) \in n + 1..Len(s) /\ (n + 1) + 1 = n + 2
    BY <1>1, <1>3
  <2>2. Len(SubSeq(s, n + 1, Len(s))) # 0
    BY <1>1, <1>2, <1>3
  <2>3. PICK x \in 1..Len(s), y \in 1..Len(s) : x = n + 1 /\ y = Len(s)
    BY <2>1
  <2>4. y \in x..Len(s) /\ x + 1 = n + 2
    BY <2>1, <2>3
  <2>5. Head(SubSeq(s, x, y)) = s[x] /\ Tail(SubSeq(s, x, y)) = SubSeq(s, x + 1, y)
    BY <2>4, HeadTailOfSubSeq
  <2>6. SubSeq(s, n + 1, Len(s)) = SubSeq(s, x, y) /\ s[n + 1] = s[x]
        /\ SubSeq(s, n + 2, Len(s)) = SubSeq(s, x + 1, y)
    BY <2>3, <2>4
  <2>7. Len(<<>>) = 0
    OBVIOUS
  <2> QED BY <2>2, <2>5, <2>6, <2>7, Zenon
<1>4. n = Len(s) => SubSeq(s, n + 1, Len(s)) = <<>>
  <2> SUFFICES ASSUME n = Len(s) PROVE SubSeq(s, n + 1, Len(s)) = <<>>
    OBVIOUS
  <2>1. n + 1 \in Int /\ Len(s) \in Int /\ Len(s) < n + 1
    BY <1>1
  <2> QED BY <2>1, SubSeqEmpty
<1> QED BY <1>2, <1>3, <1>4

\* What is behind a when n elements of s came, and when one more comes.
LEMMA PrefixGrows ==
    ASSUME NEW S, NEW a \in Seq(S), NEW s \in Seq(S), NEW n \in Nat, n <= Len(s)
    PROVE  /\ a \o SubSeq(s, 1, n) \in Seq(S)
           /\ Len(a \o SubSeq(s, 1, n)) = Len(a) + n
           /\ n = 0 => a \o SubSeq(s, 1, n) = a
           /\ SubSeq(s, 1, n) \in Seq(S) /\ Len(SubSeq(s, 1, n)) = n
           /\ \A i \in 1..n : SubSeq(s, 1, n)[i] = s[i]
<1>1. Len(s) \in Nat /\ \A i \in 1..Len(s) : s[i] \in S
  OBVIOUS
<1>2. PICK b : b = SubSeq(s, 1, n)
  OBVIOUS
<1>3. b \in Seq(S) /\ Len(b) = n /\ \A i \in 1..n : b[i] = s[i]
  <2>1. \A i \in 1..n : s[i] \in S
    BY <1>1
  <2>2. /\ b \in Seq(S) /\ Len(b) = IF 1 <= n THEN n - 1 + 1 ELSE 0
        /\ \A i \in 1..n - 1 + 1 : b[i] = s[1 + i - 1]
    BY <1>2, <2>1, SubSeqProperties
  <2>3. n - 1 + 1 = n /\ \A i \in 1..n : 1 + i - 1 = i
    OBVIOUS
  <2> QED BY <2>2, <2>3
<1>4. n = 0 => a \o b = a
  <2> SUFFICES ASSUME n = 0 PROVE a \o b = a
    OBVIOUS
  <2>1. b = <<>>
    BY <1>3
  <2> QED BY <2>1
<1>5. a \o b \in Seq(S) /\ Len(a \o b) = Len(a) + n
  <2>1. b \in Seq(S) /\ Len(b) = n
    BY <1>3
  <2>2. a \o b \in Seq(S) /\ Len(a \o b) = Len(a) + Len(b)
    BY <2>1, ConcatProperties
  <2> QED BY <2>1, <2>2
<1> QED BY <1>2, <1>3, <1>4, <1>5

\* What is behind a when one more element of s comes.
LEMMA OneMoreComes ==
    ASSUME NEW S, NEW a \in Seq(S), NEW s \in Seq(S), NEW n \in Nat, n < Len(s)
    PROVE  Append(a \o SubSeq(s, 1, n), s[n + 1]) = a \o SubSeq(s, 1, n + 1)
<1>1. Len(s) \in Nat /\ n <= Len(s) /\ \A i \in 1..Len(s) : s[i] \in S
  OBVIOUS
<1>2. PICK b \in Seq(S) : b = SubSeq(s, 1, n)
  BY <1>1, PrefixGrows
<1>3. PICK w \in S : w = s[n + 1]
  BY <1>1
<1>4. SubSeq(s, 1, n + 1) = b \o <<w>>
  <2>1. 1 \in 1..Len(s) /\ n + 1 \in 1..Len(s) /\ (n + 1) - 1 = n
    BY <1>1
  <2> QED BY <1>2, <1>3, <2>1, SubSeqRecursiveSecond
<1>5. Append(a \o b, w) = a \o (b \o <<w>>)
  <2>1. a \o b \in Seq(S) /\ <<w>> \in Seq(S)
    OBVIOUS
  <2>2. Append(a \o b, w) = (a \o b) \o <<w>>
    BY <2>1, AppendIsConcat
  <2>3. (a \o b) \o <<w>> = a \o (b \o <<w>>)
    BY <2>1, ConcatAssociative
  <2> QED BY <2>2, <2>3
<1> QED BY <1>2, <1>3, <1>4, <1>5

\* Five sequences, one after the other.
IsJoined(q, a, b, r, w, s) ==
    /\ q \in Seq(Nat)
    /\ Len(q) = Len(a) + Len(b) + Len(r) + Len(w) + Len(s)
    /\ \A i \in 1..Len(a) : q[i] = a[i]
    /\ \A i \in 1..Len(b) : q[Len(a) + i] = b[i]
    /\ \A i \in 1..Len(r) : q[Len(a) + Len(b) + i] = r[i]
    /\ \A i \in 1..Len(w) : q[Len(a) + Len(b) + Len(r) + i] = w[i]
    /\ \A i \in 1..Len(s) : q[Len(a) + Len(b) + Len(r) + Len(w) + i] = s[i]

LEMMA FiveJoined ==
    ASSUME NEW a \in Seq(Nat), NEW b \in Seq(Nat), NEW r \in Seq(Nat), NEW w \in Seq(Nat),
           NEW s \in Seq(Nat), NEW q, q = a \o b \o r \o w \o s
    PROVE  IsJoined(q, a, b, r, w, s)
<1>1. ASSUME NEW y \in Seq(Nat), NEW z \in Seq(Nat)
      PROVE  /\ y \o z \in Seq(Nat) /\ Len(y) \in Nat /\ Len(z) \in Nat
             /\ Len(y \o z) = Len(y) + Len(z)
             /\ \A i \in 1..Len(y) : (y \o z)[i] = y[i]
             /\ \A i \in 1..Len(z) : (y \o z)[Len(y) + i] = z[i]
  OBVIOUS
<1>2. PICK ab \in Seq(Nat) : ab = a \o b
  BY <1>1
<1>3. PICK abr \in Seq(Nat) : abr = ab \o r
  BY <1>1
<1>4. PICK abrw \in Seq(Nat) : abrw = abr \o w
  BY <1>1
<1>5. q = abrw \o s
  BY <1>2, <1>3, <1>4
<1>6. /\ Len(ab) = Len(a) + Len(b)
      /\ \A i \in 1..Len(a) : ab[i] = a[i]
      /\ \A i \in 1..Len(b) : ab[Len(a) + i] = b[i]
  BY <1>1, <1>2
<1>7. /\ Len(abr) = Len(ab) + Len(r)
      /\ \A i \in 1..Len(ab) : abr[i] = ab[i]
      /\ \A i \in 1..Len(r) : abr[Len(ab) + i] = r[i]
  BY <1>1, <1>3
<1>8. /\ Len(abrw) = Len(abr) + Len(w)
      /\ \A i \in 1..Len(abr) : abrw[i] = abr[i]
      /\ \A i \in 1..Len(w) : abrw[Len(abr) + i] = w[i]
  BY <1>1, <1>4
<1>9. /\ q \in Seq(Nat) /\ Len(q) = Len(abrw) + Len(s)
      /\ \A i \in 1..Len(abrw) : q[i] = abrw[i]
      /\ \A i \in 1..Len(s) : q[Len(abrw) + i] = s[i]
  BY <1>1, <1>5
<1>10. PICK la \in Nat, lb \in Nat, lr \in Nat, lw \in Nat, ls \in Nat :
         la = Len(a) /\ lb = Len(b) /\ lr = Len(r) /\ lw = Len(w) /\ ls = Len(s)
  BY LenProperties
<1>11. /\ Len(ab) = la + lb /\ Len(abr) = la + lb + lr /\ Len(abrw) = la + lb + lr + lw
       /\ Len(q) = la + lb + lr + lw + ls
  BY <1>6, <1>7, <1>8, <1>9, <1>10
<1>12. \A i \in 1..la : q[i] = a[i]
  <2> SUFFICES ASSUME NEW i \in 1..la PROVE q[i] = a[i]
    OBVIOUS
  <2>1. i \in 1..la + lb /\ i \in 1..la + lb + lr /\ i \in 1..la + lb + lr + lw
    OBVIOUS
  <2> QED BY <1>6, <1>7, <1>8, <1>9, <1>10, <1>11, <2>1
<1>13. \A i \in 1..lb : q[la + i] = b[i]
  <2> SUFFICES ASSUME NEW i \in 1..lb PROVE q[la + i] = b[i]
    OBVIOUS
  <2>1. PICK j : j = la + i
    OBVIOUS
  <2>2. j \in 1..la + lb /\ j \in 1..la + lb + lr /\ j \in 1..la + lb + lr + lw
    BY <2>1
  <2>3. q[j] = abrw[j] /\ abrw[j] = abr[j] /\ abr[j] = ab[j]
    BY <1>7, <1>8, <1>9, <1>11, <2>2
  <2>4. ab[j] = b[i]
    BY <1>6, <1>10, <2>1
  <2> QED BY <2>1, <2>3, <2>4
<1>14. \A i \in 1..lr : q[la + lb + i] = r[i]
  <2> SUFFICES ASSUME NEW i \in 1..lr PROVE q[la + lb + i] = r[i]
    OBVIOUS
  <2>1. PICK j : j = la + lb + i
    OBVIOUS
  <2>2. j \in 1..la + lb + lr /\ j \in 1..la + lb + lr + lw
    BY <2>1
  <2>3. q[j] = abrw[j] /\ abrw[j] = abr[j]
    BY <1>8, <1>9, <1>11, <2>2
  <2>4. abr[j] = r[i]
    BY <1>7, <1>10, <1>11, <2>1
  <2> QED BY <2>1, <2>3, <2>4
<1>15. \A i \in 1..lw : q[la + lb + lr + i] = w[i]
  <2> SUFFICES ASSUME NEW i \in 1..lw PROVE q[la + lb + lr + i] = w[i]
    OBVIOUS
  <2>1. PICK j : j = la + lb + lr + i
    OBVIOUS
  <2>2. j \in 1..la + lb + lr + lw
    BY <2>1
  <2>3. q[j] = abrw[j]
    BY <1>9, <1>11, <2>2
  <2>4. abrw[j] = w[i]
    BY <1>8, <1>10, <1>11, <2>1
  <2> QED BY <2>1, <2>3, <2>4
<1>16. \A i \in 1..ls : q[la + lb + lr + lw + i] = s[i]
  BY <1>9, <1>10, <1>11
<1> QED BY <1>9, <1>10, <1>11, <1>12, <1>13, <1>14, <1>15, <1>16, Zenon DEF IsJoined

=============================================================================
