-------------------------- MODULE Selection_proofs --------------------------
(* Why an answer holds what was asked for: theorems of Selection and        *)
(* ChannelLists, for any posts, times, numbers of teams and limits.         *)
EXTENDS ChannelLists, FiniteSetTheorems, FunctionTheorems, SequenceTheorems, TLAPS

(* Arranging.                                                               *)

\* B puts the members of K one behind the other.
Orders(B, K) ==
  /\ \A k \in K : <<k, k>> \notin B
  /\ \A j, k, m \in K : <<j, k>> \in B /\ <<k, m>> \in B => <<j, m>> \in B
  /\ \A j, k \in K : j # k => <<j, k>> \in B \/ <<k, j>> \in B

Ahead(B, K, k) == {j \in K : <<j, k>> \in B}

\* What B has in front has fewer in front of it.
LEMMA FewerAhead ==
  ASSUME NEW K, IsFiniteSet(K), NEW B, Orders(B, K),
         NEW j \in K, NEW k \in K, <<j, k>> \in B
  PROVE  /\ Cardinality(Ahead(B, K, j)) \in Nat /\ Cardinality(Ahead(B, K, k)) \in Nat
         /\ Cardinality(Ahead(B, K, j)) < Cardinality(Ahead(B, K, k))
<1>1. Ahead(B, K, k) \subseteq K /\ Ahead(B, K, j) \subseteq Ahead(B, K, k)
  BY DEF Orders, Ahead
<1>2. j \in Ahead(B, K, k) /\ j \notin Ahead(B, K, j)
  BY DEF Orders, Ahead
<1>3. IsFiniteSet(Ahead(B, K, k)) /\ IsFiniteSet(Ahead(B, K, j))
  BY <1>1, FS_Subset
<1>4. Cardinality(Ahead(B, K, j)) \in Nat /\ Cardinality(Ahead(B, K, k)) \in Nat
  BY <1>3, FS_CardinalityType
<1>5. /\ Cardinality(Ahead(B, K, j)) <= Cardinality(Ahead(B, K, k))
      /\ Cardinality(Ahead(B, K, k)) # Cardinality(Ahead(B, K, j))
  BY <1>1, <1>2, <1>3, FS_Subset
<1>. QED  BY <1>4, <1>5

\* Every place from the first to the last is taken by one of them.
LEMMA Placed ==
  ASSUME NEW K, IsFiniteSet(K), NEW B, Orders(B, K)
  PROVE  /\ Cardinality(K) \in Nat
         /\ \A k \in K : 1 + Cardinality(Ahead(B, K, k)) \in 1..Cardinality(K)
         /\ \A r \in 1..Cardinality(K) : \E k \in K : 1 + Cardinality(Ahead(B, K, k)) = r
<1>. DEFINE place == [k \in K |-> 1 + Cardinality(Ahead(B, K, k))]
            R == 1..Cardinality(K)
<1>1. Cardinality(K) \in Nat
  BY FS_CardinalityType
<1>2. ASSUME NEW k \in K PROVE place[k] \in R
  <2>1. Ahead(B, K, k) \subseteq K /\ k \notin Ahead(B, K, k)
    BY DEF Orders, Ahead
  <2>2. IsFiniteSet(Ahead(B, K, k)) /\ Cardinality(Ahead(B, K, k)) <= Cardinality(K)
        /\ Cardinality(Ahead(B, K, k)) # Cardinality(K)
    BY <2>1, FS_Subset
  <2>3. Cardinality(Ahead(B, K, k)) \in Nat
    BY <2>2, FS_CardinalityType
  <2>. QED  BY <1>1, <2>2, <2>3
<1>3. ASSUME NEW j \in K, NEW k \in K, place[j] = place[k] PROVE j = k
  <2>1. CASE <<j, k>> \in B
    BY <1>3, <2>1, FewerAhead
  <2>2. CASE <<k, j>> \in B
    BY <1>3, <2>2, FewerAhead
  <2>. QED  BY <2>1, <2>2 DEF Orders
<1>4. place \in Injection(K, R)
  <2>1. place \in [K -> R]
    BY <1>2
  <2>. QED  BY <1>3, <2>1 DEF Injection, IsInjective
<1>5. IsFiniteSet(R) /\ Cardinality(R) = Cardinality(K)
  BY <1>1, FS_Interval
<1>6. place \in Surjection(K, R)
  <2>. HIDE DEF place, R
  <2>. QED  BY <1>4, <1>5, FS_Injection
<1>7. \A r \in R : \E k \in K : place[k] = r
  BY <1>6 DEF Surjection
<1>. QED  BY <1>1, <1>2, <1>7

\* A way through the positions K of s.
Way(pi, K, B) ==
  /\ pi \in [1..Cardinality(K) -> K]
  /\ \A k \in K : \E r \in 1..Cardinality(K) : pi[r] = k
  /\ \A q, r \in 1..Cardinality(K) : q < r => pi[q] # pi[r] /\ <<pi[q], pi[r]>> \in B

LEMMA Arranged ==
  ASSUME NEW s, NEW K, IsFiniteSet(K), NEW B, Orders(B, K)
  PROVE  \E pi : Way(pi, K, B) /\ Arrange(s, K, B) = [r \in 1..Cardinality(K) |-> s[pi[r]]]
<1>. DEFINE n1 == Cardinality(K)
            Pl(k) == 1 + Cardinality(Ahead(B, K, k))
            pi == [r \in 1..n1 |-> CHOOSE k \in K : Pl(k) = r]
<1>1. /\ n1 \in Nat /\ \A k \in K : Pl(k) \in 1..n1
      /\ \A r \in 1..n1 : \E k \in K : Pl(k) = r
  BY Placed
<1>2. \A j, k \in K : <<j, k>> \in B => Pl(j) < Pl(k)
  BY FewerAhead
<1>3. ASSUME NEW r \in 1..n1 PROVE pi[r] \in K /\ Pl(pi[r]) = r
  <2>. HIDE DEF Pl, n1
  <2>1. \E k \in K : Pl(k) = r
    BY <1>1
  <2>. QED  BY <2>1
<1>4. ASSUME NEW j \in K, NEW k \in K, Pl(j) = Pl(k) PROVE j = k
  <2>. Pl(j) \in 1..n1 /\ Pl(k) \in 1..n1
    BY <1>1
  <2>1. n1 \in Nat /\ ~(Pl(j) < Pl(k)) /\ ~(Pl(k) < Pl(j))
    BY <1>1, <1>4
  <2>. HIDE DEF Pl, n1
  <2>2. <<j, k>> \notin B /\ <<k, j>> \notin B
    BY <1>2, <2>1
  <2>. QED  BY <2>2 DEF Orders
<1>5. Way(pi, K, B)
  <2>1. pi \in [1..n1 -> K]
    BY <1>3
  <2>. HIDE DEF pi, Pl
  <2>2. ASSUME NEW k \in K PROVE \E r \in 1..n1 : pi[r] = k
    <3>1. Pl(k) \in 1..n1
      BY <1>1
    <3>2. pi[Pl(k)] \in K /\ Pl(pi[Pl(k)]) = Pl(k)
      BY <1>3, <3>1
    <3>. QED  BY <1>4, <3>1, <3>2
  <2>3. ASSUME NEW q \in 1..n1, NEW r \in 1..n1, q < r
        PROVE  pi[q] # pi[r] /\ <<pi[q], pi[r]>> \in B
    <3>1. pi[q] \in K /\ pi[r] \in K /\ Pl(pi[q]) = q /\ Pl(pi[r]) = r
      BY <1>3
    <3>2. pi[q] # pi[r]
      BY <1>1, <2>3, <3>1
    <3>3. <<pi[r], pi[q]>> \notin B
      BY <1>1, <1>2, <2>3, <3>1
    <3>. QED  BY <3>1, <3>2, <3>3 DEF Orders
  <2>. QED  BY <2>1, <2>2, <2>3 DEF Way
<1>6. Arrange(s, K, B) = [r \in 1..n1 |-> s[pi[r]]]
  BY DEF Arrange, Ahead
<1>. QED  BY <1>5, <1>6

--------------------------------------------------------------------------
(* Filtering and sorting.                                                   *)

Once(s) == \A j, k \in 1..Len(s) : j < k => s[j] # s[k]
Sorted(s, less) == \A j, k \in 1..Len(s) : j < k => <<s[k], s[j]>> \notin less

WeakOrder(less, T) ==
  /\ \A p, q \in T : <<p, q>> \in less => <<q, p>> \notin less
  /\ \A p, q, r \in T : <<p, q>> \in less => <<p, r>> \in less \/ <<r, q>> \in less

LEMMA SeqOfFunction ==
  ASSUME NEW T, NEW m \in Nat, NEW f \in [1..m -> T]
  PROVE  f \in Seq(T) /\ Len(f) = m /\ DOMAIN f = 1..m
<1>1. f \in Seq(T)
  OBVIOUS
<1>. QED  BY <1>1, LenProperties

\* The rest of what is in S, in the order it had.
LEMMA Filtered ==
  ASSUME NEW T, NEW s \in Seq(T), NEW S
  PROVE  /\ Filter(s, S) \in Seq(T) /\ Range(Filter(s, S)) = Range(s) \cap S
         /\ Once(s) => Once(Filter(s, S))
         /\ \A less : Sorted(s, less) => Sorted(Filter(s, S), less)
<1>. DEFINE K == {k \in DOMAIN s : s[k] \in S}
            B == {jk \in K \X K : jk[1] < jk[2]}
            out == Filter(s, S)
<1>1. DOMAIN s = 1..Len(s) /\ Len(s) \in Nat /\ s \in [1..Len(s) -> T]
  BY LenProperties
<1>2. IsFiniteSet(K)
  <2>1. IsFiniteSet(1..Len(s)) /\ K \subseteq 1..Len(s)
    BY <1>1, FS_Interval
  <2>. HIDE DEF K
  <2>. QED  BY <2>1, FS_Subset
<1>3. K \subseteq 1..Len(s) /\ \A j, k \in K : <<j, k>> \in B <=> j < k
  BY <1>1
<1>4. Orders(B, K)
  <2>. HIDE DEF K, B
  <2>. QED  BY <1>1, <1>3 DEF Orders
<1>5. PICK pi : Way(pi, K, B) /\ out = [r \in 1..Cardinality(K) |-> s[pi[r]]]
  <2>. HIDE DEF K, B
  <2>1. \E pi : Way(pi, K, B) /\ Arrange(s, K, B) = [r \in 1..Cardinality(K) |-> s[pi[r]]]
    BY <1>2, <1>4, Arranged
  <2>. QED  BY <2>1 DEF Filter, K, B
<1>. HIDE DEF out
<1>6. \A r \in 1..Cardinality(K) : pi[r] \in K /\ out[r] = s[pi[r]]
  <2>. HIDE DEF K, B
  <2>. QED  BY <1>5 DEF Way
<1>7. /\ Cardinality(K) \in Nat /\ out \in Seq(T)
      /\ Len(out) = Cardinality(K) /\ DOMAIN out = 1..Cardinality(K)
  <2>1. Cardinality(K) \in Nat
    BY <1>2, FS_CardinalityType
  <2>2. out \in [1..Cardinality(K) -> T]
    BY <1>1, <1>5, <1>6
  <2>. QED  BY <2>1, <2>2, SeqOfFunction
<1>8. Range(out) = Range(s) \cap S
  <2>1. \A k \in K : \E r \in 1..Cardinality(K) : pi[r] = k
    BY <1>5 DEF Way
  <2>2. Range(out) \subseteq Range(s) \cap S
    BY <1>1, <1>6, <1>7 DEF Range
  <2>3. ASSUME NEW k \in DOMAIN s, s[k] \in S PROVE s[k] \in Range(out)
    <3>1. k \in K
      BY <2>3
    <3>2. PICK r \in 1..Cardinality(K) : pi[r] = k
      BY <2>1, <3>1
    <3>. QED  BY <1>6, <1>7, <3>2 DEF Range
  <2>. QED  BY <2>2, <2>3 DEF Range
<1>9. \A q, r \in 1..Len(out) : q < r => pi[q] < pi[r]
  <2>. HIDE DEF K, B
  <2>. QED  BY <1>3, <1>5, <1>6, <1>7 DEF Way
<1>10. Once(s) => Once(out)
  <2>. HIDE DEF B, K
  <2>1. ASSUME Once(s), NEW q \in 1..Len(out), NEW r \in 1..Len(out), q < r
        PROVE  out[q] # out[r]
    <3>1. pi[q] \in 1..Len(s) /\ pi[r] \in 1..Len(s) /\ pi[q] < pi[r]
      BY <1>3, <1>6, <1>7, <1>9, <2>1
    <3>. QED  BY <1>6, <1>7, <2>1, <3>1 DEF Once
  <2>. QED  BY <2>1 DEF Once
<1>11. \A less : Sorted(s, less) => Sorted(out, less)
  <2>. HIDE DEF B
  <2>. QED  BY <1>1, <1>3, <1>6, <1>7, <1>9 DEF Sorted
<1>. QED  BY <1>7, <1>8, <1>10, <1>11 DEF out

\* The same elements, none behind a greater one.
LEMMA SortedStable ==
  ASSUME NEW T, NEW s \in Seq(T), NEW less, WeakOrder(less, T)
  PROVE  /\ SortStable(s, less) \in Seq(T) /\ Len(SortStable(s, less)) = Len(s)
         /\ Range(SortStable(s, less)) = Range(s) /\ Sorted(SortStable(s, less), less)
         /\ Once(s) => Once(SortStable(s, less))
<1>. DEFINE K == DOMAIN s
            Before(j, k) == <<s[j], s[k]>> \in less \/ (<<s[k], s[j]>> \notin less /\ j < k)
            B == {jk \in K \X K : Before(jk[1], jk[2])}
            out == SortStable(s, less)
<1>1. K = 1..Len(s) /\ Len(s) \in Nat /\ s \in [1..Len(s) -> T]
  BY LenProperties
<1>2. IsFiniteSet(K) /\ Cardinality(K) = Len(s)
  BY <1>1, FS_Interval
<1>3. \A j, k \in K : <<j, k>> \in B <=> Before(j, k)
  <2>. HIDE DEF K
  <2>. QED  OBVIOUS
<1>4. Orders(B, K)
  <2>. HIDE DEF K, B
  <2>1. ASSUME NEW k \in K PROVE <<k, k>> \notin B
    <3>1. s[k] \in T /\ ~(k < k)
      BY <1>1
    <3>. QED  BY <1>3, <3>1 DEF WeakOrder
  <2>2. ASSUME NEW j \in K, NEW k \in K, NEW m \in K, <<j, k>> \in B, <<k, m>> \in B
        PROVE  <<j, m>> \in B
    <3>1. Before(j, k) /\ Before(k, m) /\ s[j] \in T /\ s[k] \in T /\ s[m] \in T
      BY <1>1, <1>3, <2>2
    <3>2. Before(j, m)
      BY <1>1, <3>1 DEF WeakOrder
    <3>. QED  BY <1>3, <3>2
  <2>3. ASSUME NEW j \in K, NEW k \in K, j # k PROVE <<j, k>> \in B \/ <<k, j>> \in B
    <3>1. j < k \/ k < j
      BY <1>1, <2>3
    <3>2. Before(j, k) \/ Before(k, j)
      BY <3>1
    <3>. QED  BY <1>3, <3>2
  <2>. QED  BY <2>1, <2>2, <2>3 DEF Orders
<1>5. PICK pi : Way(pi, K, B) /\ out = [r \in 1..Len(s) |-> s[pi[r]]]
  <2>. HIDE DEF K, B
  <2>1. \E pi : Way(pi, K, B) /\ Arrange(s, K, B) = [r \in 1..Cardinality(K) |-> s[pi[r]]]
    <3>1. IsFiniteSet(K)
      BY <1>2
    <3>. QED  BY <3>1, <1>4, Arranged
  <2>. QED  BY <1>2, <2>1 DEF SortStable, K, B
<1>. HIDE DEF out, K, B
<1>6. \A r \in 1..Len(s) : pi[r] \in K /\ out[r] = s[pi[r]]
  BY <1>2, <1>5 DEF Way
<1>7. out \in Seq(T) /\ Len(out) = Len(s) /\ DOMAIN out = 1..Len(s)
  <2>1. out \in [1..Len(s) -> T]
    BY <1>1, <1>5, <1>6
  <2>. QED  BY <1>1, <2>1, SeqOfFunction
<1>8. Range(out) = Range(s)
  <2>1. \A k \in K : \E r \in 1..Len(s) : pi[r] = k
    BY <1>2, <1>5 DEF Way
  <2>2. \A r \in 1..Len(s) : out[r] \in Range(s)
    BY <1>6 DEF Range, K
  <2>3. \A k \in K : s[k] \in Range(out)
    BY <1>6, <1>7, <2>1 DEF Range
  <2>. QED  BY <1>7, <2>2, <2>3 DEF Range, K
<1>9. \A q, r \in 1..Len(s) : q < r => pi[q] # pi[r] /\ Before(pi[q], pi[r])
  BY <1>2, <1>3, <1>5, <1>6 DEF Way
<1>10. Sorted(out, less)
  BY <1>1, <1>6, <1>7, <1>9 DEF Sorted, WeakOrder
<1>11. Once(s) => Once(out)
  <2>1. ASSUME Once(s), NEW q \in 1..Len(out), NEW r \in 1..Len(out), q < r
        PROVE  out[q] # out[r]
    <3>1. pi[q] \in 1..Len(s) /\ pi[r] \in 1..Len(s) /\ pi[q] # pi[r]
      BY <1>1, <1>6, <1>7, <1>9, <2>1
    <3>2. pi[q] < pi[r] \/ pi[r] < pi[q]
      BY <3>1
    <3>. QED  BY <1>6, <1>7, <2>1, <3>1, <3>2 DEF Once
  <2>. QED  BY <2>1 DEF Once
<1>. QED  BY <1>7, <1>8, <1>10, <1>11 DEF out

\* A list in which nothing comes twice is as long as its range is large.
LEMMA OnceCounts ==
  ASSUME NEW T, NEW s \in Seq(T), Once(s)
  PROVE  IsFiniteSet(Range(s)) /\ Cardinality(Range(s)) = Len(s)
<1>1. DOMAIN s = 1..Len(s) /\ Len(s) \in Nat /\ s \in [1..Len(s) -> T]
  BY LenProperties
<1>2. ASSUME NEW j \in 1..Len(s), NEW k \in 1..Len(s), s[j] = s[k] PROVE j = k
  <2>1. ~(j < k) /\ ~(k < j)
    BY <1>2 DEF Once
  <2>. QED  BY <2>1
<1>3. s \in [1..Len(s) -> Range(s)]
  BY <1>1 DEF Range
<1>4. s \in Injection(1..Len(s), Range(s))
  BY <1>1, <1>2, <1>3 DEF Injection, IsInjective
<1>5. s \in Surjection(1..Len(s), Range(s))
  BY <1>1, <1>3 DEF Surjection, Range
<1>6. IsFiniteSet(1..Len(s)) /\ Cardinality(1..Len(s)) = Len(s)
  <2>1. 1 \in Int /\ Len(s) \in Int
    BY <1>1
  <2>2. /\ IsFiniteSet(1..Len(s))
        /\ Cardinality(1..Len(s)) = IF 1 > Len(s) THEN 0 ELSE Len(s) - 1 + 1
    BY <2>1, FS_Interval, Zenon
  <2>. QED  BY <1>1, <2>2
<1>7. /\ IsFiniteSet(Range(s))
      /\ Cardinality(Range(s)) = Cardinality(1..Len(s)) <=> s \in Injection(1..Len(s), Range(s))
  BY <1>5, <1>6, FS_Surjection
<1>. QED  BY <1>4, <1>6, <1>7

\* The elements of s from the a-th to the b-th.
LEMMA Piece ==
  ASSUME NEW T, NEW s \in Seq(T), NEW a \in Nat \ {0}, NEW b \in 0..Len(s), a <= b + 1
  PROVE  /\ SubSeq(s, a, b) \in Seq(T) /\ Len(SubSeq(s, a, b)) = b - a + 1
         /\ Range(SubSeq(s, a, b)) = {s[k] : k \in a..b}
         /\ \A k \in 1..(b - a + 1) : SubSeq(s, a, b)[k] = s[a + k - 1]
         /\ Once(s) => Once(SubSeq(s, a, b))
<1>. DEFINE out == SubSeq(s, a, b)
<1>1. DOMAIN s = 1..Len(s) /\ Len(s) \in Nat /\ s \in [1..Len(s) -> T]
  BY LenProperties
<1>2. a \in Int /\ b \in Int /\ \A k \in a..b : s[k] \in T
  BY <1>1
<1>3. /\ out \in Seq(T) /\ Len(out) = b - a + 1
      /\ \A k \in 1..(b - a + 1) : out[k] = s[a + k - 1]
  <2>1. /\ out \in Seq(T) /\ Len(out) = IF a <= b THEN b - a + 1 ELSE 0
        /\ \A k \in 1..(b - a + 1) : out[k] = s[a + k - 1]
    BY <1>2, SubSeqProperties
  <2>2. (IF a <= b THEN b - a + 1 ELSE 0) = b - a + 1
    BY <1>1
  <2>. QED  BY <2>1, <2>2
<1>4. DOMAIN out = 1..(b - a + 1)
  BY <1>3, LenProperties
<1>. HIDE DEF out
<1>5. Range(out) = {s[k] : k \in a..b}
  <2>1. ASSUME NEW k \in a..b PROVE s[k] \in Range(out)
    <3>1. k - a + 1 \in 1..(b - a + 1) /\ a + (k - a + 1) - 1 = k
      BY <1>1
    <3>2. out[k - a + 1] = s[k]
      BY <1>3, <3>1
    <3>. QED  BY <1>4, <3>1, <3>2 DEF Range
  <2>2. ASSUME NEW k \in 1..(b - a + 1) PROVE out[k] \in {s[m] : m \in a..b}
    <3>1. a + k - 1 \in a..b
      BY <1>1
    <3>. QED  BY <1>3, <3>1
  <2>. QED  BY <1>4, <2>1, <2>2 DEF Range
<1>6. Once(s) => Once(out)
  <2>1. ASSUME Once(s), NEW j \in 1..Len(out), NEW k \in 1..Len(out), j < k
        PROVE  out[j] # out[k]
    <3>1. a + j - 1 \in 1..Len(s) /\ a + k - 1 \in 1..Len(s) /\ a + j - 1 < a + k - 1
      BY <1>1, <1>3, <2>1
    <3>2. out[j] = s[a + j - 1] /\ out[k] = s[a + k - 1]
      BY <1>3
    <3>. QED  BY <2>1, <3>1, <3>2 DEF Once
  <2>. QED  BY <2>1 DEF Once
<1>. QED  BY <1>3, <1>5, <1>6 DEF out

\* The first b elements of s.
LEMMA Front ==
  ASSUME NEW T, NEW s \in Seq(T), NEW b \in 0..Len(s)
  PROVE  /\ SubSeq(s, 1, b) \in Seq(T) /\ Len(SubSeq(s, 1, b)) = b
         /\ Range(SubSeq(s, 1, b)) = {s[k] : k \in 1..b}
         /\ \A k \in 1..b : SubSeq(s, 1, b)[k] = s[k]
         /\ Once(s) => Once(SubSeq(s, 1, b))
<1>1. b \in Nat /\ 1 \in Nat \ {0} /\ 1 <= b + 1
  BY LenProperties
<1>2. b - 1 + 1 = b /\ \A k \in 1..b : 1 + k - 1 = k
  BY <1>1
<1>3. /\ SubSeq(s, 1, b) \in Seq(T) /\ Len(SubSeq(s, 1, b)) = b - 1 + 1
      /\ Range(SubSeq(s, 1, b)) = {s[k] : k \in 1..b}
      /\ \A k \in 1..(b - 1 + 1) : SubSeq(s, 1, b)[k] = s[1 + k - 1]
      /\ Once(s) => Once(SubSeq(s, 1, b))
  BY <1>1, Piece, Zenon
<1>. QED  BY <1>2, <1>3, Zenon

\* A piece that holds the newest of a list, in whatever order.
LEMMA NewestPiece ==
  ASSUME NEW s \in Seq(Ids), Once(s), NEW a \in Nat \ {0}, NEW b \in 0..Len(s), a <= b + 1,
         NEW out \in Seq(Ids), Once(out), Range(out) = {s[k] : k \in a..b},
         Len(out) = b - a + 1, NEW less, Sorted(out, less), NEW size \in Nat,
         b - a + 1 = IF size = 0 \/ Len(s) < size THEN Len(s) ELSE size,
         \A j \in a..b, k \in 1..Len(s) : k \notin a..b => CreateAt[s[k]] <= CreateAt[s[j]]
  PROVE  NewestOf(out, Range(s), size, less)
<1>1. DOMAIN s = 1..Len(s) /\ Len(s) \in Nat
  BY LenProperties
<1>2. Cardinality(Range(s)) = Len(s)
  BY OnceCounts
<1>3. Range(out) \subseteq Range(s)
  <2>1. ASSUME NEW k \in a..b PROVE s[k] \in Range(s)
    <3>1. k \in 1..Len(s)
      BY <1>1
    <3>. QED  BY <1>1, <3>1 DEF Range
  <2>. QED  BY <2>1
<1>4. Len(out) = IF size = 0 \/ Cardinality(Range(s)) < size THEN Cardinality(Range(s)) ELSE size
  BY <1>2
<1>5. \A j, k \in 1..Len(out) : j < k => out[j] # out[k] /\ <<out[k], out[j]>> \notin less
  BY DEF Once, Sorted
<1>6. ASSUME NEW p \in Range(out), NEW q \in Range(s) \ Range(out)
      PROVE  CreateAt[q] <= CreateAt[p]
  <2>1. PICK j \in a..b : p = s[j]
    OBVIOUS
  <2>2. PICK k \in 1..Len(s) : q = s[k]
    BY <1>1 DEF Range
  <2>3. k \notin a..b
    BY <2>2
  <2>. QED  BY <2>1, <2>2, <2>3
<1>. QED  BY <1>3, <1>4, <1>5, <1>6 DEF NewestOf

--------------------------------------------------------------------------
(* mm messages.                                                             *)

LEMMA WeakOrders ==
  WeakOrder(Newer, Ids) /\ WeakOrder(Older, Ids)
<1>1. \A p \in Ids : p \in Nat /\ CreateAt[p] \in Nat
  BY SelectionAssumption
<1>2. \A p, q \in Ids : <<p, q>> \in Newer <=> CreateAt[p] > CreateAt[q]
  BY DEF Newer
<1>3. \A p, q \in Ids : <<p, q>> \in Older <=> \/ CreateAt[p] < CreateAt[q]
                                               \/ CreateAt[p] = CreateAt[q] /\ p < q
  BY DEF Older
<1>4. WeakOrder(Newer, Ids)
  BY <1>1, <1>2 DEF WeakOrder
<1>5. WeakOrder(Older, Ids)
  BY <1>1, <1>3 DEF WeakOrder
<1>. QED  BY <1>4, <1>5

LEMMA OrdersMean ==
  ASSUME NEW p \in Ids, NEW q \in Ids
  PROVE  /\ <<p, q>> \notin Newer => CreateAt[p] <= CreateAt[q]
         /\ <<p, q>> \notin Older => CreateAt[q] <= CreateAt[p]
<1>1. CreateAt[p] \in Nat /\ CreateAt[q] \in Nat
  BY SelectionAssumption
<1>2. <<p, q>> \in Newer <=> CreateAt[p] > CreateAt[q]
  BY DEF Newer
<1>3. CreateAt[p] < CreateAt[q] => <<p, q>> \in Older
  BY DEF Older
<1>. QED  BY <1>1, <1>2, <1>3

LEMMA SelectedSince ==
  ASSUME NEW s \in Seq(Ids), Once(s), NEW t \in Nat
  PROVE  /\ SelectSince(s, t) \in Seq(Ids) /\ Once(SelectSince(s, t))
         /\ Range(SelectSince(s, t)) = Since(Range(s), t)
<1>. DEFINE S == {p \in Ids : t = 0 \/ CreateAt[p] >= t}
<1>1. Range(s) \subseteq Ids
  BY RangeOfSeq
<1>2. Range(s) \cap S = Since(Range(s), t)
  BY <1>1, SelectionAssumption DEF Since
<1>3. Filter(s, S) \in Seq(Ids) /\ Range(Filter(s, S)) = Range(s) \cap S /\ Once(Filter(s, S))
  <2>. HIDE DEF S
  <2>. QED  BY Filtered
<1>. QED  BY <1>2, <1>3 DEF SelectSince

\* mm messages of any list in which no post comes twice.
LEMMA RecentSelected ==
  ASSUME NEW s \in Seq(Ids), Once(s), NEW t \in Nat, NEW l \in Nat
  PROVE  NewestOf(selectRecentMessages(s, t, l), Since(Range(s), t), l, Older)
<1>. DEFINE recent == SortStable(SelectSince(s, t), Newer)
            b == IF l > 0 /\ Len(recent) > l THEN l ELSE Len(recent)
            kept == IF l > 0 /\ Len(recent) > l THEN SubSeq(recent, 1, l) ELSE recent
            out == SortStable(kept, Older)
<1>1. /\ recent \in Seq(Ids) /\ Once(recent) /\ Sorted(recent, Newer)
      /\ Range(recent) = Since(Range(s), t)
  <2>. DEFINE found == SelectSince(s, t)
  <2>1. found \in Seq(Ids) /\ Once(found) /\ Range(found) = Since(Range(s), t)
    BY SelectedSince
  <2>. HIDE DEF found
  <2>2. /\ SortStable(found, Newer) \in Seq(Ids) /\ Once(SortStable(found, Newer))
        /\ Sorted(SortStable(found, Newer), Newer)
        /\ Range(SortStable(found, Newer)) = Range(found)
    BY <2>1, SortedStable, WeakOrders
  <2>. QED  BY <2>1, <2>2 DEF found
<1>2. out = selectRecentMessages(s, t, l)
  BY DEF selectRecentMessages
<1>. HIDE DEF recent
<1>3. Len(recent) \in Nat /\ recent \in [1..Len(recent) -> Ids]
  BY <1>1, LenProperties
<1>4. b \in 0..Len(recent) /\ 1 <= b + 1
      /\ b - 1 + 1 = IF l = 0 \/ Len(recent) < l THEN Len(recent) ELSE l
  BY <1>3
<1>5. kept = SubSeq(recent, 1, b)
  BY <1>1, SubSeqFull
<1>6. /\ kept \in Seq(Ids) /\ Len(kept) = b - 1 + 1 /\ Once(kept)
      /\ Range(kept) = {recent[k] : k \in 1..b}
  <2>. HIDE DEF b, kept
  <2>. QED  BY <1>1, <1>4, <1>5, Piece
<1>7. /\ out \in Seq(Ids) /\ Len(out) = b - 1 + 1 /\ Once(out) /\ Sorted(out, Older)
      /\ Range(out) = {recent[k] : k \in 1..b}
  <2>. HIDE DEF b, kept
  <2>. QED  BY <1>6, SortedStable, WeakOrders
<1>8. ASSUME NEW j \in 1..b, NEW k \in 1..Len(recent), k \notin 1..b
      PROVE  CreateAt[recent[k]] <= CreateAt[recent[j]]
  <2>1. j \in 1..Len(recent) /\ j < k
    BY <1>3, <1>4, <1>8
  <2>2. recent[j] \in Ids /\ recent[k] \in Ids /\ <<recent[k], recent[j]>> \notin Newer
    BY <1>1, <1>3, <2>1 DEF Sorted
  <2>. QED  BY <2>2, OrdersMean
<1>9. NewestOf(out, Range(recent), l, Older)
  <2>1. \A j \in 1..b, k \in 1..Len(recent) :
          k \notin 1..b => CreateAt[recent[k]] <= CreateAt[recent[j]]
    BY <1>8
  <2>. HIDE DEF b, kept, out
  <2>2. 1 \in Nat \ {0}
    OBVIOUS
  <2>. QED  BY <1>1, <1>4, <1>7, <2>1, <2>2, NewestPiece
<1>. QED  BY <1>1, <1>2, <1>9

--------------------------------------------------------------------------
(* mm thread.                                                               *)

LEMMA SelectedReplies ==
  ASSUME NEW s \in Seq(Ids), Once(s)
  PROVE  /\ splitThreadPosts(s) \in Seq(Ids) /\ Once(splitThreadPosts(s))
         /\ Range(splitThreadPosts(s)) = Range(s) \ {Root}
         /\ \A less : Sorted(s, less) => Sorted(splitThreadPosts(s), less)
<1>. DEFINE S == Ids \ {Root}
<1>1. Range(s) \cap S = Range(s) \ {Root}
  BY RangeOfSeq
<1>2. /\ Filter(s, S) \in Seq(Ids) /\ Range(Filter(s, S)) = Range(s) \cap S /\ Once(Filter(s, S))
      /\ \A less : Sorted(s, less) => Sorted(Filter(s, S), less)
  <2>. HIDE DEF S
  <2>. QED  BY Filtered
<1>. QED  BY <1>1, <1>2 DEF splitThreadPosts

\* One list behind another that has none of its elements.
LEMMA OnceOfBoth ==
  ASSUME NEW s \in Seq(Ids), NEW t \in Seq(Ids), Once(s), Once(t), Range(s) \cap Range(t) = {}
  PROVE  /\ s \o t \in Seq(Ids) /\ Len(s \o t) = Len(s) + Len(t) /\ Once(s \o t)
         /\ Range(s \o t) = Range(s) \cup Range(t)
<1>. DEFINE st == s \o t
<1>1. /\ DOMAIN s = 1..Len(s) /\ Len(s) \in Nat /\ DOMAIN t = 1..Len(t) /\ Len(t) \in Nat
  BY LenProperties
<1>2. /\ st \in Seq(Ids) /\ Len(st) = Len(s) + Len(t)
      /\ \A k \in 1..Len(s) + Len(t) : st[k] = IF k <= Len(s) THEN s[k] ELSE t[k - Len(s)]
  BY ConcatProperties
<1>3. Range(st) = Range(s) \cup Range(t)
  BY RangeConcatenation
<1>. HIDE DEF st
<1>4. \A j \in 1..Len(s), k \in 1..Len(t) : s[j] # t[k]
  BY <1>1 DEF Range
<1>5. ASSUME NEW j \in 1..Len(st), NEW k \in 1..Len(st), j < k PROVE st[j] # st[k]
  <2>1. CASE k <= Len(s)
    <3>1. j \in 1..Len(s) /\ k \in 1..Len(s) /\ st[j] = s[j] /\ st[k] = s[k]
      BY <1>1, <1>2, <1>5, <2>1
    <3>. QED  BY <1>5, <3>1 DEF Once
  <2>2. CASE Len(s) < j
    <3>1. /\ j - Len(s) \in 1..Len(t) /\ k - Len(s) \in 1..Len(t) /\ j - Len(s) < k - Len(s)
          /\ st[j] = t[j - Len(s)] /\ st[k] = t[k - Len(s)]
      BY <1>1, <1>2, <1>5, <2>2
    <3>. QED  BY <3>1 DEF Once
  <2>3. CASE j <= Len(s) /\ Len(s) < k
    <3>1. /\ j \in 1..Len(s) /\ k - Len(s) \in 1..Len(t)
          /\ st[j] = s[j] /\ st[k] = t[k - Len(s)]
      BY <1>1, <1>2, <2>3
    <3>. QED  BY <1>4, <3>1
  <2>. QED  BY <1>1, <1>2, <2>1, <2>2, <2>3
<1>. QED  BY <1>2, <1>3, <1>5 DEF Once, st

LEMMA OnlyOne ==
  ASSUME NEW p \in Ids
  PROVE  <<p>> \in Seq(Ids) /\ Len(<<p>>) = 1 /\ Range(<<p>>) = {p} /\ Once(<<p>>)
<1>1. <<p>> \in Seq(Ids) /\ Len(<<p>>) = 1
  OBVIOUS
<1>2. DOMAIN <<p>> = 1..1 /\ <<p>>[1] = p
  OBVIOUS
<1>. QED  BY <1>1, <1>2 DEF Range, Once

LEMMA PostPresent ==
  ASSUME NEW s \in Seq(Ids), Once(s), NEW asked \in Ids
  PROVE  /\ ensurePostPresent(s, asked) \in Seq(Ids) /\ Once(ensurePostPresent(s, asked))
         /\ Range(ensurePostPresent(s, asked)) = Range(s) \cup {asked}
<1>1. CASE asked \in Range(s)
  BY <1>1 DEF ensurePostPresent
<1>2. CASE asked \notin Range(s)
  <2>1. ensurePostPresent(s, asked) = s \o <<asked>>
    BY <1>2, AppendIsConcat DEF ensurePostPresent
  <2>2. /\ <<asked>> \in Seq(Ids) /\ Range(<<asked>>) = {asked} /\ Once(<<asked>>)
        /\ Range(s) \cap Range(<<asked>>) = {}
    BY <1>2, OnlyOne
  <2>. QED  BY <2>1, <2>2, OnceOfBoth
<1>. QED  BY <1>1, <1>2

\* The root and the newest replies of a thread that has its root.
LEMMA ThreadWithRoot ==
  ASSUME NEW s \in Seq(Ids), Once(s), Root \in Range(s), NEW t \in Nat, NEW l \in Nat
  PROVE  LET out == selectThreadPosts(s, t, l)
             replies == splitThreadPosts(out)
         IN  /\ Root \in Range(out) /\ Len(out) = Len(replies) + 1
             /\ IF l = 1 THEN replies = <<>>
                ELSE NewestOf(replies, Since(Range(s) \ {Root}, t), IF l = 0 THEN 0 ELSE l - 1, Older)
<1>. DEFINE found == SelectSince(splitThreadPosts(s), t)
            R == SortStable(found, Older)
            a == IF l > 0 /\ Len(R) > l - 1 THEN Len(R) - l + 2 ELSE 1
            tail == SubSeq(R, a, Len(R))
            whole == <<Root>> \o tail
            out == SortStable(whole, Older)
            replies == splitThreadPosts(out)
            size == IF l = 0 THEN 0 ELSE l - 1
<1>1. found \in Seq(Ids) /\ Once(found) /\ Range(found) = Since(Range(s) \ {Root}, t)
  BY SelectedReplies, SelectedSince
<1>2. out = selectThreadPosts(s, t, l)
  BY DEF selectThreadPosts
<1>. HIDE DEF found
<1>3. R \in Seq(Ids) /\ Once(R) /\ Sorted(R, Older) /\ Range(R) = Range(found)
  BY <1>1, SortedStable, WeakOrders
<1>. HIDE DEF R
<1>4. Len(R) \in Nat /\ DOMAIN R = 1..Len(R) /\ R \in [1..Len(R) -> Ids]
  BY <1>3, LenProperties
<1>5. a \in Nat \ {0} /\ Len(R) \in 0..Len(R) /\ a <= Len(R) + 1
  BY <1>4
<1>6. /\ tail \in Seq(Ids) /\ Once(tail) /\ Len(tail) = Len(R) - a + 1
      /\ Range(tail) = {R[k] : k \in a..Len(R)}
  <2>. HIDE DEF a
  <2>. QED  BY <1>3, <1>5, Piece
<1>7. Range(tail) \subseteq Range(R) /\ Root \notin Range(R)
  <2>1. \A k \in a..Len(R) : k \in 1..Len(R)
    BY <1>4, <1>5
  <2>. HIDE DEF a, tail
  <2>2. \A k \in a..Len(R) : R[k] \in Range(R)
    BY <1>4, <2>1 DEF Range
  <2>. QED  BY <1>1, <1>3, <1>6, <2>2 DEF Since
<1>. HIDE DEF tail
<1>8. /\ whole \in Seq(Ids) /\ Once(whole) /\ Len(whole) = 1 + Len(tail)
      /\ Range(whole) = {Root} \cup Range(tail)
  <2>1. <<Root>> \in Seq(Ids) /\ Len(<<Root>>) = 1 /\ Range(<<Root>>) = {Root} /\ Once(<<Root>>)
    BY SelectionAssumption, OnlyOne
  <2>2. Range(<<Root>>) \cap Range(tail) = {}
    BY <1>7, <2>1
  <2>. QED  BY <1>6, <2>1, <2>2, OnceOfBoth
<1>. HIDE DEF whole
<1>9. /\ out \in Seq(Ids) /\ Once(out) /\ Sorted(out, Older) /\ Len(out) = Len(whole)
      /\ Range(out) = Range(whole)
  BY <1>8, SortedStable, WeakOrders
<1>. HIDE DEF out
<1>10. /\ replies \in Seq(Ids) /\ Once(replies) /\ Sorted(replies, Older)
       /\ Range(replies) = Range(tail)
  <2>1. /\ replies \in Seq(Ids) /\ Once(replies) /\ Range(replies) = Range(out) \ {Root}
        /\ \A less : Sorted(out, less) => Sorted(replies, less)
    BY <1>9, SelectedReplies
  <2>2. Range(out) \ {Root} = Range(tail)
    BY <1>7, <1>8, <1>9
  <2>. HIDE DEF replies
  <2>. QED  BY <1>9, <2>1, <2>2
<1>. HIDE DEF replies
<1>11. Len(replies) = Len(tail)
  <2>1. Cardinality(Range(replies)) = Len(replies) /\ Cardinality(Range(tail)) = Len(tail)
    BY <1>6, <1>10, OnceCounts
  <2>. QED  BY <1>10, <2>1
<1>12. Root \in Range(out) /\ Len(out) = Len(replies) + 1
  <2>1. Len(tail) \in Nat
    BY <1>6, LenProperties
  <2>. QED  BY <1>8, <1>9, <1>11, <2>1
<1>13. CASE l = 1
  <2>1. Len(replies) = 0
    BY <1>4, <1>6, <1>11, <1>13
  <2>2. replies = <<>>
    BY <1>10, <2>1, EmptySeq
  <2>. QED  BY <1>2, <1>12, <1>13, <2>2 DEF replies
<1>14. CASE l # 1
  <2>1. size \in Nat /\ Len(R) - a + 1 = IF size = 0 \/ Len(R) < size THEN Len(R) ELSE size
    <3>1. CASE l = 0
      <4>1. size = 0 /\ a = 1
        BY <3>1
      <4>. HIDE DEF size, a
      <4>. QED  BY <1>4, <4>1
    <3>2. CASE l > 1
      <4>1. size = l - 1
        BY <3>2
      <4>2. /\ Len(R) > l - 1 => a = Len(R) - l + 2
            /\ Len(R) <= l - 1 => a = 1
        BY <1>4, <3>2
      <4>. HIDE DEF size, a
      <4>. QED  BY <1>4, <3>2, <4>1, <4>2
    <3>3. l = 0 \/ l > 1
      BY <1>14
    <3>. HIDE DEF size, a
    <3>. QED  BY <3>1, <3>2, <3>3
  <2>2. ASSUME NEW j \in a..Len(R), NEW k \in 1..Len(R), k \notin a..Len(R)
        PROVE  CreateAt[R[k]] <= CreateAt[R[j]]
    <3>1. j \in 1..Len(R) /\ k < j
      BY <1>4, <1>5, <2>2
    <3>2. R[j] \in Ids /\ R[k] \in Ids /\ <<R[j], R[k]>> \notin Older
      BY <1>3, <1>4, <3>1 DEF Sorted
    <3>. QED  BY <3>2, OrdersMean
  <2>3. \A j \in a..Len(R), k \in 1..Len(R) :
          k \notin a..Len(R) => CreateAt[R[k]] <= CreateAt[R[j]]
    BY <2>2
  <2>4. Len(replies) = Len(R) - a + 1 /\ Range(replies) = {R[k] : k \in a..Len(R)}
    BY <1>6, <1>10, <1>11
  <2>5. NewestOf(replies, Range(R), size, Older)
    <3>. HIDE DEF a, size
    <3>. QED  BY <1>3, <1>5, <1>10, <2>1, <2>3, <2>4, NewestPiece
  <2>. QED  BY <1>1, <1>2, <1>3, <1>12, <1>14, <2>5 DEF replies
<1>. QED  BY <1>13, <1>14

\* mm thread of any list in which no post comes twice.
LEMMA ThreadSelected ==
  ASSUME NEW s \in Seq(Ids), Once(s), NEW asked \in Ids, NEW t \in Nat, NEW l \in Nat
  PROVE  LET out == runThread(s, asked, t, l)
             replies == splitThreadPosts(out)
             all == Range(s) \cup {asked}
         IN  IF Root \notin all THEN out = <<>>
             ELSE /\ Root \in Range(out) /\ Len(out) = Len(replies) + 1
                  /\ IF l = 1 THEN replies = <<>>
                     ELSE NewestOf(replies, Since(all \ {Root}, t),
                                   IF l = 0 THEN 0 ELSE l - 1, Older)
<1>. DEFINE present == ensurePostPresent(s, asked)
<1>1. /\ present \in Seq(Ids) /\ Once(present) /\ Range(present) = Range(s) \cup {asked}
  BY PostPresent
<1>2. runThread(s, asked, t, l) = selectThreadPosts(present, t, l)
  BY DEF runThread
<1>. HIDE DEF present
<1>3. CASE Root \notin Range(present)
  BY <1>1, <1>2, <1>3 DEF selectThreadPosts
<1>4. CASE Root \in Range(present)
  <2>. DEFINE out == runThread(s, asked, t, l)
              replies == splitThreadPosts(out)
  <2>1. /\ Root \in Range(out) /\ Len(out) = Len(replies) + 1
        /\ IF l = 1 THEN replies = <<>>
           ELSE NewestOf(replies, Since(Range(present) \ {Root}, t),
                         IF l = 0 THEN 0 ELSE l - 1, Older)
    BY <1>1, <1>2, <1>4, ThreadWithRoot, Zenon
  <2>. QED  BY <1>1, <1>4, <2>1, Zenon
<1>. QED  BY <1>3, <1>4

--------------------------------------------------------------------------
(* The answers of mm messages and mm thread.                                *)

LEMMA ListingsAreLists ==
  ASSUME NEW s \in Listings PROVE s \in Seq(Ids) /\ Once(s)
<1>1. PICK len \in 0..MaxHits : s \in [1..len -> Ids]
  BY DEF Listings
<1>2. s \in Seq(Ids) /\ Len(s) = len /\ DOMAIN s = 1..len
  BY <1>1, SelectionAssumption, SeqOfFunction
<1>3. \A j, k \in DOMAIN s : s[j] = s[k] => j = k
  BY DEF Listings
<1>4. ASSUME NEW j \in 1..Len(s), NEW k \in 1..Len(s), j < k PROVE s[j] # s[k]
  BY <1>2, <1>3, <1>4
<1>. QED  BY <1>2, <1>4 DEF Once

LEMMA FreshList ==
  ASSUME TypeOK, Fresh PROVE list \in Seq(Ids) /\ Once(list)
<1>1. 1 \in 1..NTeams /\ 2 \in 1..NTeams
  BY SelectionAssumption DEF Fresh
<1>2. matches[1] \in Listings /\ matches[2] \in Listings
  BY <1>1 DEF TypeOK
<1>3. matches[1] \in Seq(Ids) /\ matches[2] \in Seq(Ids)
  BY <1>2, ListingsAreLists
<1>4. list \in Seq(Ids)
  BY <1>3, ConcatProperties DEF list
<1>5. DOMAIN list = 1..Len(list) /\ Len(list) \in Nat
  BY <1>4, LenProperties
<1>6. \A j, k \in DOMAIN list : list[j] = list[k] => j = k
  BY DEF Fresh
<1>7. ASSUME NEW j \in 1..Len(list), NEW k \in 1..Len(list), j < k PROVE list[j] # list[k]
  BY <1>5, <1>6, <1>7
<1>. QED  BY <1>4, <1>7 DEF Once

LEMMA TypesOfQuery ==
  ASSUME TypeOK PROVE since \in Nat /\ limit \in Nat
BY SelectionAssumption DEF TypeOK

LEMMA AnswersOfPosts ==
  ASSUME TypeOK PROVE MessagesRight /\ ThreadRight
<1>1. MessagesRight
  <2>1. SUFFICES ASSUME Fresh
        PROVE NewestOf(selectRecentMessages(list, since, limit),
                       Since(Range(list), since), limit, Older)
    BY DEF MessagesRight
  <2>. QED  BY <2>1, FreshList, TypesOfQuery, RecentSelected
<1>2. ThreadRight
  <2>1. SUFFICES ASSUME Fresh, NEW asked \in Ids
        PROVE LET out == runThread(list, asked, since, limit)
                  replies == splitThreadPosts(out)
                  all == Range(list) \cup {asked}
              IN  IF Root \notin all THEN out = <<>>
                  ELSE /\ Root \in Range(out) /\ Len(out) = Len(replies) + 1
                       /\ IF limit = 1 THEN replies = <<>>
                          ELSE NewestOf(replies, Since(all \ {Root}, since),
                                        IF limit = 0 THEN 0 ELSE limit - 1, Older)
    BY DEF ThreadRight
  <2>2. list \in Seq(Ids) /\ Once(list) /\ since \in Nat /\ limit \in Nat
    BY <2>1, FreshList, TypesOfQuery
  <2>. QED  BY <2>2, ThreadSelected
<1>. QED  BY <1>1, <1>2

--------------------------------------------------------------------------
(* The hits of mm mentions and mm search.                                   *)

LEMMA LaterDay ==
  ASSUME NEW a \in Nat, NEW b \in Nat, NEW d \in Nat \ {0}, a >= b
  PROVE  a \div d > b \div d - 1
<1>1. a \div d \in Nat /\ b \div d \in Nat
  BY SMT
<1>2. a \div d >= b \div d
  BY SMT
<1>. QED  BY <1>1, <1>2

\* "after:" leaves out nothing that is not before --since.
LEMMA Searched ==
  ASSUME TypeOK, NEW t \in 1..NTeams
  PROVE  /\ SearchPosts(t) \in Seq(Ids)
         /\ Since(Range(SearchPosts(t)), since) = Since(Range(matches[t]), since)
<1>. DEFINE S == {p \in Ids : since = 0 \/ CreateAt[p] \div Day > afterDateForSinceMs}
<1>1. matches[t] \in Listings
  BY DEF TypeOK
<1>2. matches[t] \in Seq(Ids)
  BY <1>1, ListingsAreLists
<1>3. Range(matches[t]) \subseteq Ids
  BY <1>2, RangeOfSeq
<1>4. Filter(matches[t], S) \in Seq(Ids) /\ Range(Filter(matches[t], S)) = Range(matches[t]) \cap S
  <2>. HIDE DEF S
  <2>. QED  BY <1>2, Filtered
<1>5. ASSUME NEW p \in Ids, CreateAt[p] >= since PROVE p \in S
  <2>1. CreateAt[p] \in Nat /\ since \in Nat /\ Day \in Nat \ {0}
    BY SelectionAssumption, TypesOfQuery
  <2>2. CreateAt[p] \div Day > since \div Day - 1
    BY <1>5, <2>1, LaterDay
  <2>. QED  BY <2>2 DEF afterDateForSinceMs
<1>. HIDE DEF S
<1>6. Since(Range(matches[t]) \cap S, since) = Since(Range(matches[t]), since)
  BY <1>3, <1>5 DEF Since
<1>. QED  BY <1>4, <1>6 DEF SearchPosts, S

LEMMA InitHits ==
  Init => IndInv
<1>. SUFFICES ASSUME Init PROVE IndInv
  OBVIOUS
<1>1. buf = <<>> /\ buf \in Seq(Ids) /\ Len(buf) = 0
  BY EmptySeq DEF Init
<1>2. TypeOK
  <2>1. team \in 1..NTeams + 1 /\ searched \subseteq 1..team - 1
    BY SelectionAssumption DEF Init
  <2>. QED  BY <1>1, <2>1 DEF TypeOK, Init
<1>3. TeamsAsked
  BY DEF TeamsAsked, Init
<1>4. NothingLost
  <2>1. Live = {} /\ searched = {} /\ phase = "search"
    BY <1>1 DEF Live, Init
  <2>. QED  BY <2>1 DEF NothingLost, Since
<1>5. Cursor /\ NewestKept /\ HitsRight
  BY DEF Cursor, NewestKept, HitsRight, Init
<1>. QED  BY <1>2, <1>3, <1>4, <1>5 DEF IndInv

\* Writing the next position to be read behind what was written.
LEMMA HitWritten ==
  ASSUME NEW b \in Seq(Ids), NEW m \in Nat, NEW r \in 1..Len(b), m < r,
         NEW c, c = [b EXCEPT ![m + 1] = b[r]]
  PROVE  /\ c \in Seq(Ids) /\ Len(c) = Len(b) /\ c[m + 1] = b[r]
         /\ \A k \in 1..m \cup r + 1..Len(b) : c[k] = b[k]
         /\ {c[k] : k \in 1..m + 1 \cup r + 1..Len(c)} = {b[k] : k \in 1..m \cup r..Len(b)}
<1>1. Len(b) \in Nat /\ b \in [1..Len(b) -> Ids] /\ m + 1 \in 1..Len(b) /\ r \in 1..Len(b)
  BY LenProperties
<1>2. b[r] \in Ids
  BY <1>1
<1>3. /\ c \in Seq(Ids) /\ Len(c) = Len(b)
      /\ \A k \in 1..Len(b) : c[k] = IF k = m + 1 THEN b[r] ELSE b[k]
  BY <1>1, <1>2, ExceptSeq
<1>4. c[m + 1] = b[r]
  BY <1>1, <1>3
<1>5. \A k \in 1..m \cup r + 1..Len(b) : c[k] = b[k]
  <2>1. \A k \in 1..m \cup r + 1..Len(b) : k \in 1..Len(b) /\ k # m + 1
    BY <1>1
  <2>. QED  BY <1>3, <2>1
<1>6. 1..m + 1 \cup r + 1..Len(c) = (1..m \cup r + 1..Len(b)) \cup {m + 1}
  BY <1>1, <1>3
<1>7. 1..m \cup r..Len(b) = (1..m \cup r + 1..Len(b)) \cup {r}
  BY <1>1
<1>8. {c[k] : k \in 1..m + 1 \cup r + 1..Len(c)} = {b[k] : k \in 1..m \cup r..Len(b)}
  <2>. DEFINE K == 1..m \cup r + 1..Len(b)
  <2>1. \A k \in K : c[k] = b[k]
    BY <1>5
  <2>. HIDE DEF K
  <2>2. {c[k] : k \in K \cup {m + 1}} = {b[k] : k \in K \cup {r}}
    BY <1>4, <2>1
  <2>. QED  BY <1>6, <1>7, <2>2 DEF K
<1>. QED  BY <1>3, <1>4, <1>5, <1>8

LEMMA TypesOfHits ==
  ASSUME TypeOK
  PROVE  /\ Len(buf) \in Nat /\ DOMAIN buf = 1..Len(buf) /\ buf \in [1..Len(buf) -> Ids]
         /\ i \in Nat \ {0} /\ n \in Nat /\ team \in Nat /\ NTeams \in Nat
BY LenProperties, SelectionAssumption DEF TypeOK

LEMMA SearchTeamHits ==
  ASSUME IndInv, SearchTeam PROVE IndInv'
<1>. USE DEF IndInv
<1>1. team \in 1..NTeams /\ NTeams \in Nat
  BY SelectionAssumption DEF TypeOK, SearchTeam
<1>2. /\ SearchPosts(team) \in Seq(Ids)
      /\ Since(Range(SearchPosts(team)), since) = Since(Range(matches[team]), since)
  BY <1>1, Searched
<1>3. buf' \in Seq(Ids) /\ Range(buf') = Range(buf) \cup Range(SearchPosts(team))
  <2>1. buf \in Seq(Ids)
    BY DEF TypeOK
  <2>. QED  BY <1>2, <2>1, ConcatProperties, RangeConcatenation DEF SearchTeam
<1>4. TypeOK'
  <2>1. team' \in 1..NTeams + 1 /\ searched' \subseteq 1..team' - 1
    BY <1>1 DEF TypeOK, SearchTeam
  <2>. QED  BY <1>3, <2>1 DEF TypeOK, SearchTeam, query
<1>5. TeamsAsked'
  BY <1>1 DEF TypeOK, TeamsAsked, SearchTeam, query
<1>6. Live = Range(buf) /\ Live' = Range(buf')
  <2>1. i = 1 /\ n = 0 /\ i' = 1 /\ n' = 0
    BY DEF Cursor, SearchTeam
  <2>2. DOMAIN buf = 1..Len(buf) /\ DOMAIN buf' = 1..Len(buf')
    BY <1>3, LenProperties DEF TypeOK
  <2>. QED  BY <2>1, <2>2 DEF Live, Range
<1>7. NothingLost'
  <2>1. Since(Live', since) = Since(Live, since) \cup Since(Range(matches[team]), since)
    BY <1>2, <1>3, <1>6 DEF Since
  <2>2. Since(Live, since) = Since(UNION {Range(matches[t]) : t \in searched}, since)
    BY DEF NothingLost, SearchTeam
  <2>3. Since(UNION {Range(matches[t]) : t \in searched \cup {team}}, since)
          = Since(UNION {Range(matches[t]) : t \in searched}, since)
              \cup Since(Range(matches[team]), since)
    BY DEF Since
  <2>4. /\ phase' = "search" /\ matches' = matches /\ since' = since
        /\ searched' = searched \cup {team}
    BY DEF SearchTeam, query
  <2>5. Since(Live', since') = Since(UNION {Range(matches'[t]) : t \in searched'}, since')
    BY <2>1, <2>2, <2>3, <2>4
  <2>6. (Since(Live, since))'
          = (Since(UNION {Range(matches[t]) : t \in searched}, since))'
    BY <2>5 DEF Since
  <2>. QED  BY <2>4, <2>6 DEF NothingLost
<1>8. Cursor' /\ NewestKept' /\ HitsRight'
  BY DEF Cursor, NewestKept, HitsRight, SearchTeam
<1>. QED  BY <1>4, <1>5, <1>7, <1>8

\* The steps that leave the array and the teams searched as they are.
LEMMA QuietHits ==
  ASSUME IndInv, SkipTeam \/ SearchFails \/ AllSearched PROVE IndInv'
<1>. USE DEF IndInv
<1>1. /\ UNCHANGED <<matches, since, limit, in, searched, buf, i, n>>
      /\ phase' \in {"search", "filter", "failed"} /\ phase = "search"
      /\ phase' = "search" => team <= NTeams
      /\ phase' = "filter" => team > NTeams /\ team' = team /\ (in => searched # {})
      /\ team' = team \/ (team <= NTeams /\ in /\ team' = team + 1)
  BY DEF SkipTeam, SearchFails, AllSearched, query
<1>2. team \in 1..NTeams + 1 /\ NTeams \in Nat
  BY SelectionAssumption DEF TypeOK
<1>3. TypeOK'
  <2>1. team' \in 1..NTeams + 1 /\ searched' \subseteq 1..team' - 1
    BY <1>1, <1>2 DEF TypeOK
  <2>. QED  BY <1>1, <2>1 DEF TypeOK
<1>4. TeamsAsked'
  BY <1>1, <1>2 DEF TeamsAsked
<1>5. Cursor'
  BY <1>1, TypesOfHits DEF Cursor
<1>6. NothingLost'
  <2>1. Live' = Live /\ (phase' = "filter" => n' = 0)
    BY <1>1 DEF Live, Cursor
  <2>. QED  BY <1>1, <2>1 DEF NothingLost, Since
<1>7. NewestKept' /\ HitsRight'
  BY <1>1 DEF NewestKept, HitsRight
<1>. QED  BY <1>3, <1>4, <1>5, <1>6, <1>7

LEMMA FilterHits ==
  ASSUME IndInv, FilterHit PROVE IndInv'
<1>. USE DEF IndInv
<1>1. /\ UNCHANGED <<matches, since, limit, in, team, searched, phase>>
      /\ phase = "filter" /\ phase' = "filter" /\ i' = i + 1
  BY DEF FilterHit, query
<1>2. /\ Len(buf) \in Nat /\ i \in 1..Len(buf) /\ n \in Nat /\ n < i /\ buf \in Seq(Ids)
      /\ buf[i] \in Ids /\ CreateAt[buf[i]] \in Nat /\ since \in Nat
  <2>1. i \in 1..Len(buf)
    BY TypesOfHits DEF FilterHit
  <2>2. buf[i] \in Ids
    BY <2>1, TypesOfHits
  <2>. QED  BY <1>1, <2>1, <2>2, TypesOfHits, TypesOfQuery, SelectionAssumption DEF TypeOK, Cursor
<1>3. CASE since > 0 /\ CreateAt[buf[i]] < since
  <2>1. buf' = buf /\ n' = n
    BY <1>3 DEF FilterHit
  <2>2. 1..n \cup i..Len(buf) = (1..n \cup i + 1..Len(buf)) \cup {i}
    BY <1>2
  <2>3. Live = Live' \cup {buf[i]}
    <3>. DEFINE K == 1..n \cup i + 1..Len(buf)
    <3>1. Live = {buf[k] : k \in K \cup {i}} /\ Live' = {buf[k] : k \in K}
      BY <1>1, <2>1, <2>2 DEF Live
    <3>. HIDE DEF K
    <3>. QED  BY <3>1
  <2>4. (Since(Live, since))' = Since(Live, since)
    BY <1>1, <1>2, <1>3, <2>3 DEF Since
  <2>5. NothingLost'
    BY <1>1, <2>1, <2>4 DEF NothingLost, Since
  <2>6. TypeOK' /\ Cursor'
    BY <1>1, <1>2, <2>1 DEF TypeOK, Cursor
  <2>. QED  BY <1>1, <2>5, <2>6 DEF TeamsAsked, NewestKept, HitsRight
<1>4. CASE ~(since > 0 /\ CreateAt[buf[i]] < since)
  <2>1. buf' = [buf EXCEPT ![n + 1] = buf[i]] /\ n' = n + 1
    BY <1>4 DEF FilterHit
  <2>2. /\ buf' \in Seq(Ids) /\ Len(buf') = Len(buf) /\ buf'[n + 1] = buf[i]
        /\ \A k \in 1..n \cup i + 1..Len(buf) : buf'[k] = buf[k]
        /\ {buf'[k] : k \in 1..n + 1 \cup i + 1..Len(buf')}
             = {buf[k] : k \in 1..n \cup i..Len(buf)}
    <3>1. buf \in Seq(Ids) /\ n \in Nat /\ i \in 1..Len(buf) /\ n < i
      BY <1>2
    <3>. QED  BY <2>1, <3>1, HitWritten
  <2>3. Live' = Live
    BY <1>1, <2>1, <2>2 DEF Live
  <2>4. (Since(Live, since))' = Since(Live, since)
    BY <1>1, <2>3 DEF Since
  <2>5. ASSUME NEW k \in 1..n + 1 PROVE CreateAt[buf'[k]] >= since
    <3>1. CASE k = n + 1
      BY <1>2, <1>4, <2>2, <3>1
    <3>2. CASE k # n + 1
      <4>1. k \in 1..n
        BY <1>2, <3>2
      <4>. QED  BY <1>1, <2>2, <4>1 DEF NothingLost
    <3>. QED  BY <3>1, <3>2
  <2>6. NothingLost'
    BY <1>1, <2>1, <2>4, <2>5 DEF NothingLost, Since
  <2>7. TypeOK' /\ Cursor'
    BY <1>1, <1>2, <2>1, <2>2 DEF TypeOK, Cursor
  <2>. QED  BY <1>1, <2>6, <2>7 DEF TeamsAsked, NewestKept, HitsRight
<1>. QED  BY <1>3, <1>4

LEMMA SortHitsHits ==
  ASSUME IndInv, SortHits PROVE IndInv'
<1>. USE DEF IndInv
<1>1. /\ UNCHANGED <<matches, since, limit, in, team, searched>>
      /\ phase = "filter" /\ phase' = "dedupe" /\ i' = 1 /\ n' = 0
      /\ buf' = SortStable(SubSeq(buf, 1, n), Newer)
  BY DEF SortHits, query
<1>2. Len(buf) \in Nat /\ n \in 0..Len(buf) /\ i = Len(buf) + 1 /\ buf \in Seq(Ids)
  BY <1>1, TypesOfHits DEF SortHits, TypeOK, Cursor
<1>3. /\ SubSeq(buf, 1, n) \in Seq(Ids)
      /\ Range(SubSeq(buf, 1, n)) = {buf[k] : k \in 1..n}
  <2>1. 1 \in Nat \ {0} /\ 1 <= n + 1
    BY <1>2
  <2>. QED  BY <1>2, <2>1, Piece
<1>4. /\ buf' \in Seq(Ids) /\ Sorted(buf', Newer) /\ Range(buf') = {buf[k] : k \in 1..n}
  BY <1>1, <1>3, SortedStable, WeakOrders
<1>5. Len(buf') \in Nat /\ DOMAIN buf' = 1..Len(buf')
  BY <1>4, LenProperties
<1>6. Live = {buf[k] : k \in 1..n} /\ Live' = Range(buf')
  <2>1. 1..n \cup i..Len(buf) = 1..n /\ 1..n' \cup i'..Len(buf') = 1..Len(buf')
    BY <1>1, <1>2, <1>5
  <2>. QED  BY <1>5, <2>1 DEF Live, Range
<1>7. Since(Live, since) = Live
  BY <1>1, <1>6 DEF Since, NothingLost
<1>8. NothingLost'
  BY <1>1, <1>4, <1>6, <1>7 DEF NothingLost, Since
<1>9. NewestKept'
  <2>1. 1..n' \cup i'..Len(buf') = 1..Len(buf') /\ 1..n' = {} /\ (limit > 0 => n' <= limit)
    BY <1>1, <1>5, TypesOfQuery
  <2>. QED  BY <1>1, <1>4, <2>1 DEF NewestKept, Sorted
<1>10. TypeOK' /\ Cursor'
  BY <1>1, <1>4, <1>5 DEF TypeOK, Cursor
<1>. QED  BY <1>1, <1>8, <1>9, <1>10 DEF TeamsAsked, HitsRight

LEMMA DedupeHits ==
  ASSUME IndInv, DedupeHit PROVE IndInv'
<1>. USE DEF IndInv
<1>1. /\ UNCHANGED <<matches, since, limit, in, team, searched, phase>>
      /\ phase = "dedupe" /\ phase' = "dedupe" /\ i' = i + 1 /\ (limit > 0 => n < limit)
  BY TypesOfHits, TypesOfQuery DEF DedupeHit, Full, query
<1>2. /\ Len(buf) \in Nat /\ i \in 1..Len(buf) /\ n \in Nat /\ n < i /\ buf \in Seq(Ids)
  <2>1. i \in 1..Len(buf)
    BY TypesOfHits DEF DedupeHit
  <2>. QED  BY <1>1, <2>1, TypesOfHits DEF TypeOK, Cursor
<1>3. CASE \E k \in 1..n : buf[k] = buf[i]
  <2>1. buf' = buf /\ n' = n
    BY <1>3 DEF DedupeHit
  <2>2. 1..n \cup i..Len(buf) = (1..n \cup i + 1..Len(buf)) \cup {i}
    BY <1>2
  <2>3. Live' = Live
    <3>. DEFINE K == 1..n \cup i + 1..Len(buf)
    <3>1. Live = {buf[k] : k \in K \cup {i}} /\ Live' = {buf[k] : k \in K}
      BY <1>1, <2>1, <2>2 DEF Live
    <3>2. \E k \in K : buf[k] = buf[i]
      BY <1>3
    <3>. HIDE DEF K
    <3>. QED  BY <3>1, <3>2
  <2>4. NothingLost'
    BY <1>1, <2>3 DEF NothingLost, Since
  <2>5. NewestKept'
    <3>1. 1..n' \cup i'..Len(buf') \subseteq 1..n \cup i..Len(buf)
      BY <1>1, <1>2, <2>1
    <3>. QED  BY <1>1, <2>1, <3>1 DEF NewestKept
  <2>6. TypeOK' /\ Cursor'
    BY <1>1, <1>2, <2>1 DEF TypeOK, Cursor
  <2>. QED  BY <1>1, <2>4, <2>5, <2>6 DEF TeamsAsked, HitsRight
<1>4. CASE ~\E k \in 1..n : buf[k] = buf[i]
  <2>1. buf' = [buf EXCEPT ![n + 1] = buf[i]] /\ n' = n + 1
    BY <1>4 DEF DedupeHit
  <2>2. /\ buf' \in Seq(Ids) /\ Len(buf') = Len(buf) /\ buf'[n + 1] = buf[i]
        /\ \A k \in 1..n \cup i + 1..Len(buf) : buf'[k] = buf[k]
        /\ {buf'[k] : k \in 1..n + 1 \cup i + 1..Len(buf')}
             = {buf[k] : k \in 1..n \cup i..Len(buf)}
    BY <1>2, <2>1, HitWritten
  <2>3. Live' = Live
    BY <1>1, <2>1, <2>2 DEF Live
  <2>4. NothingLost'
    BY <1>1, <2>3 DEF NothingLost, Since
  <2>5. ASSUME NEW j \in 1..n', NEW k \in 1..n', j < k PROVE buf'[j] # buf'[k]
    <3>1. j \in 1..n /\ buf'[j] = buf[j]
      BY <1>2, <2>1, <2>2, <2>5
    <3>2. CASE k = n + 1
      BY <1>4, <2>2, <3>1, <3>2
    <3>3. CASE k \in 1..n
      BY <1>1, <2>2, <2>5, <3>1, <3>3 DEF NewestKept
    <3>. QED  BY <1>2, <2>1, <3>2, <3>3
  <2>6. ASSUME NEW j \in 1..n' \cup i'..Len(buf'), NEW k \in 1..n' \cup i'..Len(buf'), j < k
        PROVE  <<buf'[k], buf'[j]>> \notin Newer
    <3>. DEFINE at(m) == IF m = n + 1 /\ m < i + 1 THEN i ELSE m
    <3>1. ASSUME NEW m \in 1..n' \cup i'..Len(buf')
          PROVE  at(m) \in 1..n \cup i..Len(buf) /\ buf'[m] = buf[at(m)]
      <4>1. CASE m = n + 1
        <5>1. at(m) = i
          BY <1>2, <4>1
        <5>. QED  BY <1>2, <2>2, <4>1, <5>1
      <4>2. CASE m # n + 1
        <5>1. at(m) = m /\ m \in 1..n \cup i + 1..Len(buf)
          BY <1>1, <1>2, <2>1, <2>2, <4>2
        <5>. QED  BY <1>2, <2>2, <5>1
      <4>. QED  BY <4>1, <4>2
    <3>2. at(j) < at(k)
      BY <1>1, <1>2, <2>1, <2>2, <2>6
    <3>. HIDE DEF at
    <3>. QED  BY <1>1, <3>1, <3>2 DEF NewestKept
  <2>7. NewestKept'
    <3>1. limit > 0 => n' <= limit
      BY <1>1, <1>2, <2>1, TypesOfQuery
    <3>. QED  BY <1>1, <2>5, <2>6, <3>1 DEF NewestKept
  <2>8. TypeOK' /\ Cursor'
    BY <1>1, <1>2, <2>1, <2>2 DEF TypeOK, Cursor
  <2>. QED  BY <1>1, <2>4, <2>7, <2>8 DEF TeamsAsked, HitsRight
<1>. QED  BY <1>3, <1>4

LEMMA ReturnHits ==
  ASSUME IndInv, Return PROVE IndInv'
<1>. USE DEF IndInv
<1>. DEFINE out == SubSeq(buf, 1, n)
<1>1. /\ UNCHANGED <<matches, since, limit, in, team, searched, i, n>>
      /\ phase = "dedupe" /\ phase' = "done" /\ buf' = out
      /\ i > Len(buf) \/ (limit > 0 /\ n >= limit)
  BY DEF Return, Full, query
<1>2. /\ Len(buf) \in Nat /\ i \in Nat /\ n \in 0..Len(buf) /\ n < i /\ i <= Len(buf) + 1
      /\ buf \in Seq(Ids) /\ buf \in [1..Len(buf) -> Ids] /\ limit \in Nat
  BY <1>1, TypesOfHits, TypesOfQuery DEF TypeOK, Cursor
<1>3. /\ out \in Seq(Ids) /\ Len(out) = n /\ Range(out) = {buf[k] : k \in 1..n}
      /\ \A k \in 1..n : out[k] = buf[k]
  BY <1>2, Front, Zenon
<1>. HIDE DEF out
<1>4. Once(out)
  BY <1>1, <1>2, <1>3 DEF Once, NewestKept
<1>5. Range(out) \subseteq Live
  BY <1>3 DEF Live
<1>6. IsFiniteSet(Live) /\ Cardinality(Live) \in Nat /\ n <= Cardinality(Live)
  <2>1. Live \subseteq Range(buf)
    <3>1. \A k \in 1..n \cup i..Len(buf) : k \in 1..Len(buf)
      BY <1>2
    <3>. QED  BY <1>2, <3>1 DEF Live, Range
  <2>2. IsFiniteSet(1..Len(buf)) /\ buf \in Surjection(1..Len(buf), Range(buf))
    <3>1. IsFiniteSet(1..Len(buf)) /\ DOMAIN buf = 1..Len(buf)
      BY <1>2, FS_Interval
    <3>. QED  BY <1>2, <3>1 DEF Surjection, Range
  <2>3. IsFiniteSet(Range(buf))
    BY <2>2, FS_Surjection
  <2>4. IsFiniteSet(Live)
    BY <2>1, <2>3, FS_Subset
  <2>5. Cardinality(Range(out)) = n /\ Cardinality(Range(out)) <= Cardinality(Live)
    BY <1>3, <1>4, <1>5, <2>4, OnceCounts, FS_Subset
  <2>. QED  BY <2>4, <2>5, FS_CardinalityType
<1>7. n = IF limit = 0 \/ Cardinality(Live) < limit THEN Cardinality(Live) ELSE limit
  <2>1. limit > 0 => n <= limit
    BY <1>1 DEF NewestKept
  <2>2. CASE i > Len(buf)
    <3>1. i..Len(buf) = {}
      BY <1>2, <2>2
    <3>2. Live = Range(out)
      BY <1>3, <3>1 DEF Live
    <3>3. Cardinality(Live) = n
      BY <1>3, <1>4, <3>2, OnceCounts
    <3>. QED  BY <1>2, <1>6, <2>1, <3>3
  <2>3. CASE limit > 0 /\ n >= limit
    BY <1>2, <1>6, <2>1, <2>3
  <2>. QED  BY <1>1, <2>2, <2>3
<1>8. ASSUME NEW p \in Range(out), NEW q \in Live \ Range(out) PROVE CreateAt[q] <= CreateAt[p]
  <2>1. PICK j \in 1..n : p = buf[j]
    BY <1>3
  <2>2. PICK k \in 1..n \cup i..Len(buf) : q = buf[k]
    BY DEF Live
  <2>3. k \in i..Len(buf) /\ j < k
    <3>1. k \notin 1..n
      BY <1>3, <2>2
    <3>. QED  BY <1>2, <3>1
  <2>4. <<q, p>> \notin Newer /\ p \in Ids /\ q \in Ids
    BY <1>1, <1>2, <2>1, <2>2, <2>3 DEF NewestKept
  <2>. QED  BY <2>4, OrdersMean
<1>9. \A j, k \in 1..n : j < k => out[j] # out[k] /\ <<out[k], out[j]>> \notin Newer
  BY <1>1, <1>3 DEF NewestKept
<1>10. NewestOf(out, Live, limit, Newer)
  BY <1>3, <1>5, <1>7, <1>8, <1>9 DEF NewestOf
<1>11. /\ Live = Since(UNION {Range(matches[t]) : t \in searched}, since)
       /\ searched = IF in THEN searched ELSE 1..NTeams
       /\ in => searched # {}
  <2>1. team = NTeams + 1 /\ NTeams + 1 - 1 = NTeams /\ (in => searched # {})
    BY <1>1, SelectionAssumption DEF TeamsAsked
  <2>2. ~in => searched = 1..NTeams
    <3>1. team - 1 = NTeams
      BY <2>1, SelectionAssumption
    <3>. QED  BY <3>1 DEF TeamsAsked
  <2>. QED  BY <1>1, <2>1, <2>2 DEF NothingLost
<1>12. HitsRight'
  <2>. DEFINE asked == IF in' THEN searched' ELSE 1..NTeams
              S == Since(UNION {Range(matches'[t]) : t \in asked}, since')
  <2>1. asked = searched /\ (in' => asked # {})
    BY <1>1, <1>11
  <2>2. S = Live
    BY <1>1, <1>11, <2>1
  <2>3. NewestOf(buf', S, limit', Newer)
    BY <1>1, <1>10, <2>2
  <2>. QED  BY <2>1, <2>3 DEF HitsRight, NewestOf, Since, Newer
<1>13. TypeOK'
  BY <1>1, <1>3 DEF TypeOK
<1>. QED  BY <1>1, <1>12, <1>13 DEF TeamsAsked, Cursor, NothingLost, NewestKept

LEMMA StepHits ==
  IndInv /\ [Next]_vars => IndInv'
<1>. SUFFICES ASSUME IndInv, [Next]_vars PROVE IndInv'
  OBVIOUS
<1>1. CASE SkipTeam \/ SearchFails \/ AllSearched
  BY <1>1, QuietHits
<1>2. CASE SearchTeam
  BY <1>2, SearchTeamHits
<1>3. CASE FilterHit
  BY <1>3, FilterHits
<1>4. CASE SortHits
  BY <1>4, SortHitsHits
<1>5. CASE DedupeHit
  BY <1>5, DedupeHits
<1>6. CASE Return
  BY <1>6, ReturnHits
<1>7. CASE UNCHANGED vars
  <2>1. TypeOK' /\ TeamsAsked' /\ Cursor'
    BY <1>7 DEF IndInv, TypeOK, TeamsAsked, Cursor, vars, query
  <2>2. NothingLost' /\ NewestKept'
    BY <1>7 DEF IndInv, Live, NothingLost, NewestKept, Since, Newer, vars, query
  <2>3. HitsRight'
    BY <1>7 DEF IndInv, HitsRight, NewestOf, Since, Newer, vars, query
  <2>. QED  BY <2>1, <2>2, <2>3 DEF IndInv
<1>. QED  BY <1>1, <1>2, <1>3, <1>4, <1>5, <1>6, <1>7 DEF Next

THEOREM HitsInductive ==
  Spec => []IndInv
BY InitHits, StepHits, PTL DEF Spec

\* mm mentions and mm search print the newest of what matches, each hit once: nothing
\* a team listed is lost to the day "after:" names, to a duplicate that uses up the
\* limit, or to the passes of filterPostHitsSince and dedupeSortLimitPostHits over the
\* array they read from, whatever the number of teams, the hits and the times.
THEOREM HitsAreRight ==
  Spec => []HitsRight
<1>1. IndInv => HitsRight
  BY DEF IndInv
<1>. QED  BY <1>1, HitsInductive, PTL

\* mm messages prints the newest --limit posts at or after --since, oldest first:
\* selectRecentMessages cuts the list after it has sorted it.
THEOREM MessagesAreRight ==
  Spec => []MessagesRight
<1>1. IndInv => MessagesRight
  BY AnswersOfPosts DEF IndInv
<1>. QED  BY <1>1, HitsInductive, PTL

\* mm thread prints the root and the newest replies that fit beside it, the post that
\* was asked for among them, or nothing if there is no root: the limit of
\* selectThreadPosts counts the root, and --since does not hide it.
THEOREM ThreadIsRight ==
  Spec => []ThreadRight
<1>1. IndInv => ThreadRight
  BY AnswersOfPosts DEF IndInv
<1>. QED  BY <1>1, HitsInductive, PTL

--------------------------------------------------------------------------
(* mm channels and mm unread.                                               *)

LEMMA Ends ==
  ASSUME NEW K, IsFiniteSet(K), K # {}, NEW B, Orders(B, K)
  PROVE  /\ \E j \in K : \A k \in K : <<k, j>> \notin B
         /\ \E j \in K : \A k \in K : <<j, k>> \notin B
<1>. DEFINE ahead(k) == Cardinality(Ahead(B, K, k))
            m == Cardinality(K)
<1>1. /\ m \in Nat /\ \A k \in K : 1 + ahead(k) \in 1..m
      /\ \A r \in 1..m : \E k \in K : 1 + ahead(k) = r
  BY Placed
<1>2. \A j, k \in K : <<j, k>> \in B => ahead(j) \in Nat /\ ahead(k) \in Nat /\ ahead(j) < ahead(k)
  BY FewerAhead
<1>3. m \in 1..m /\ 1 \in 1..m
  BY <1>1, FS_EmptySet
<1>. HIDE DEF ahead, m
<1>4. PICK j \in K : 1 + ahead(j) = 1
  BY <1>1, <1>3
<1>5. PICK k \in K : 1 + ahead(k) = m
  BY <1>1, <1>3
<1>6. ASSUME NEW x \in K, <<x, j>> \in B PROVE FALSE
  BY <1>2, <1>4, <1>6
<1>7. ASSUME NEW x \in K, <<k, x>> \in B PROVE FALSE
  <2>1. ahead(k) < ahead(x) /\ 1 + ahead(x) \in 1..m /\ ahead(k) \in Nat /\ ahead(x) \in Nat
    BY <1>1, <1>2, <1>7
  <2>. QED  BY <1>1, <1>5, <2>1
<1>. QED  BY <1>6, <1>7

\* A set of teams that is not empty has a first and a last.
LEMMA Extremes ==
  ASSUME NEW K, K \subseteq Nat, IsFiniteSet(K), K # {}
  PROVE  /\ Min(K) \in K /\ \A k \in K : Min(K) <= k
         /\ Max(K) \in K /\ \A k \in K : Max(K) >= k
<1>. DEFINE B == {jk \in K \X K : jk[1] < jk[2]}
<1>1. \A j, k \in K : j \in Nat /\ k \in Nat /\ (<<j, k>> \in B <=> j < k)
  OBVIOUS
<1>2. Orders(B, K)
  <2>. HIDE DEF B
  <2>. QED  BY <1>1 DEF Orders
<1>. HIDE DEF B
<1>3. /\ \E j \in K : \A k \in K : <<k, j>> \notin B
      /\ \E j \in K : \A k \in K : <<j, k>> \notin B
  BY <1>2, Ends
<1>4. \E j \in K : \A k \in K : j <= k
  <2>1. PICK j \in K : \A k \in K : <<k, j>> \notin B
    BY <1>3
  <2>2. ASSUME NEW k \in K PROVE j <= k
    <3>1. ~(k < j) /\ j \in Nat /\ k \in Nat
      BY <1>1, <2>1
    <3>. QED  BY <3>1
  <2>. QED  BY <2>2
<1>5. \E j \in K : \A k \in K : j >= k
  <2>1. PICK j \in K : \A k \in K : <<j, k>> \notin B
    BY <1>3
  <2>2. ASSUME NEW k \in K PROVE j >= k
    <3>1. ~(j < k) /\ j \in Nat /\ k \in Nat
      BY <1>1, <2>1
    <3>. QED  BY <3>1
  <2>. QED  BY <2>2
<1>. QED  BY <1>4, <1>5 DEF Min, Max

LEMMA FirstTeam ==
  ASSUME NTeams \in Nat, NEW c, NEW teams \in SUBSET (1..NTeams), \E t \in teams : Lists(t, c)
  PROVE  teamByChannelID(c, teams) \in teams /\ Lists(teamByChannelID(c, teams), c)
<1>. DEFINE K == {t \in teams : Lists(t, c)}
<1>1. K \subseteq 1..NTeams /\ K \subseteq Nat /\ K # {}
  <2>1. K \subseteq 1..NTeams
    OBVIOUS
  <2>2. K # {}
    OBVIOUS
  <2>. HIDE DEF K
  <2>. QED  BY <2>1, <2>2
<1>2. IsFiniteSet(K)
  <2>1. IsFiniteSet(1..NTeams)
    BY FS_Interval
  <2>. HIDE DEF K
  <2>. QED  BY <1>1, <2>1, FS_Subset
<1>3. Min(K) \in K
  <2>. HIDE DEF K
  <2>. QED  BY <1>1, <1>2, Extremes
<1>. QED  BY <1>3 DEF teamByChannelID

LEMMA LastTagged ==
  ASSUME NTeams \in Nat, NEW c \in Channels, NEW cut \in 1..NTeams
  PROVE  /\ upsertChannelWithName(c, cut) \in 1..NTeams
         /\ Lists(upsertChannelWithName(c, cut), c)
<1>. DEFINE by(last) == {t \in 1..last : Lists(t, c)}
<1>1. IsFiniteSet(1..NTeams)
  BY FS_Interval
<1>2. ASSUME NEW last \in 1..NTeams, by(last) # {}
      PROVE  Max(by(last)) \in 1..NTeams /\ Lists(Max(by(last)), c)
  <2>1. by(last) \subseteq 1..NTeams /\ by(last) \subseteq Nat
    OBVIOUS
  <2>2. IsFiniteSet(by(last))
    <3>. HIDE DEF by
    <3>. QED  BY <1>1, <2>1, FS_Subset
  <2>3. Max(by(last)) \in by(last)
    <3>. HIDE DEF by
    <3>. QED  BY <1>2, <2>1, <2>2, Extremes
  <2>. QED  BY <2>1, <2>3
<1>3. by(NTeams) # {} /\ NTeams \in 1..NTeams
  BY DEF Channels
<1>. HIDE DEF by
<1>4. CASE by(cut) # {}
  <2>1. upsertChannelWithName(c, cut) = Max(by(cut))
    BY <1>4 DEF upsertChannelWithName, by
  <2>. QED  BY <1>2, <1>4, <2>1
<1>5. CASE by(cut) = {}
  <2>1. upsertChannelWithName(c, cut) = Max(by(NTeams))
    BY <1>5 DEF upsertChannelWithName, by
  <2>. QED  BY <1>2, <1>3, <2>1
<1>. QED  BY <1>4, <1>5

LEMMA OnlyIs ==
  ASSUME NEW rows, \A row : row \in rows => row = <<row[1], row[2]>>, NEW c
  PROVE  c \in Only(rows) <=> \E u : <<c, u>> \in rows
<1>1. ASSUME NEW row \in rows, c = row[1] PROVE \E u : <<c, u>> \in rows
  BY <1>1
<1>2. ASSUME NEW u, <<c, u>> \in rows PROVE c \in Only(rows)
  <2>1. <<c, u>>[1] = c
    OBVIOUS
  <2>. QED  BY <1>2, <2>1 DEF Only
<1>. QED  BY <1>1, <1>2 DEF Only

LEMMA ChannelsAlike ==
  ASSUME NTeams \in Nat PROVE TeamAlike
<1>. SUFFICES ASSUME Listed, NEW cut \in 1..NTeams, NEW shown \in SUBSET Ids
     PROVE  LET local(t) == unreadRowsLocal(t, cut, shown)
                live(t) == computeUnreadRows(selectedTeams(t), shown)
            IN  /\ Only(local(0)) = Only(live(0))
                /\ \A t \in 0..NTeams :
                     {row \in local(t) : row[1] \notin Teamless}
                       = {row \in live(t) : row[1] \notin Teamless}
                /\ \A t \in 1..NTeams : local(t) \subseteq live(t)
                /\ \A c \in Channels \cap shown \cap Teamless :
                     Cardinality({t \in 1..NTeams : c \in Only(local(t))}) = 1
  BY DEF TeamAlike
<1>. DEFINE up(c) == upsertChannelWithName(c, cut)
            local(t) == unreadRowsLocal(t, cut, shown)
            live(t) == computeUnreadRows(selectedTeams(t), shown)
            of(c, t) == teamByChannelID(c, selectedTeams(t))
            Known(c, t) == \E u \in selectedTeams(t) : Lists(u, c)
<1>1. \A c \in Channels : up(c) \in 1..NTeams /\ Lists(up(c), c)
  BY LastTagged
<1>2. ASSUME NEW t \in 0..NTeams
      PROVE  /\ selectedTeams(t) \subseteq 1..NTeams
             /\ \A c : Known(c, t) => of(c, t) \in selectedTeams(t) /\ Lists(of(c, t), c)
  <2>1. selectedTeams(t) \subseteq 1..NTeams
    BY DEF selectedTeams
  <2>. QED  BY <2>1, FirstTeam
<1>3. \A t \in 0..NTeams : \A c, u :
        <<c, u>> \in local(t) <=> /\ c \in Channels /\ c \in shown /\ u = up(c)
                                  /\ t = 0 \/ up(c) = t
  BY DEF unreadRowsLocal, channelsLocal
<1>4. \A t \in 0..NTeams : \A c, u :
        <<c, u>> \in live(t) <=> c \in shown /\ Known(c, t) /\ u = of(c, t)
  BY DEF computeUnreadRows
<1>5. /\ \A t, row : row \in local(t) => row = <<row[1], row[2]>>
      /\ \A t, row : row \in live(t) => row = <<row[1], row[2]>>
  BY DEF unreadRowsLocal, computeUnreadRows
<1>6. \A c \in shown : c \in Channels <=> \E u \in 1..NTeams : Lists(u, c)
  BY DEF Channels
<1>7. selectedTeams(0) = 1..NTeams /\ \A t \in 1..NTeams : selectedTeams(t) = {t}
  BY DEF selectedTeams
<1>8. \A c \in Channels, t, u \in 1..NTeams :
        c \notin Teamless /\ Lists(t, c) /\ Lists(u, c) => t = u
  BY DEF Listed
<1>. HIDE DEF local, live, up, of
<1>9. Only(local(0)) = Only(live(0))
  <2>. 0 \in 0..NTeams
    OBVIOUS
  <2>1. ASSUME NEW c PROVE c \in Only(local(0)) <=> c \in Channels /\ c \in shown
    <3>1. c \in Only(local(0)) <=> \E u : <<c, u>> \in local(0)
      BY <1>5, OnlyIs
    <3>. QED  BY <1>3, <3>1
  <2>2. ASSUME NEW c PROVE c \in Only(live(0)) <=> c \in Channels /\ c \in shown
    <3>1. c \in Only(live(0)) <=> \E u : <<c, u>> \in live(0)
      BY <1>5, OnlyIs
    <3>2. c \in Only(live(0)) <=> c \in shown /\ Known(c, 0)
      BY <1>4, <3>1
    <3>. QED  BY <1>6, <1>7, <3>2
  <2>. QED  BY <2>1, <2>2
<1>10. ASSUME NEW t \in 0..NTeams, NEW c, NEW u, c \notin Teamless
       PROVE  <<c, u>> \in local(t) <=> <<c, u>> \in live(t)
  <2>1. ASSUME <<c, u>> \in local(t) PROVE <<c, u>> \in live(t)
    <3>1. c \in Channels /\ c \in shown /\ u = up(c) /\ (t = 0 \/ up(c) = t)
      BY <1>3, <2>1
    <3>2. up(c) \in selectedTeams(t) /\ Lists(up(c), c)
      BY <1>1, <1>7, <3>1
    <3>3. of(c, t) \in 1..NTeams /\ Lists(of(c, t), c)
      BY <1>2, <3>2
    <3>4. of(c, t) = up(c)
      BY <1>1, <1>8, <1>10, <3>1, <3>2, <3>3
    <3>. QED  BY <1>4, <3>1, <3>2, <3>4
  <2>2. ASSUME <<c, u>> \in live(t) PROVE <<c, u>> \in local(t)
    <3>1. c \in shown /\ Known(c, t) /\ u = of(c, t)
      BY <1>4, <2>2
    <3>2. of(c, t) \in selectedTeams(t) /\ of(c, t) \in 1..NTeams /\ Lists(of(c, t), c)
      BY <1>2, <3>1
    <3>3. c \in Channels
      BY <1>6, <3>1, <3>2
    <3>4. of(c, t) = up(c)
      BY <1>1, <1>8, <1>10, <3>2, <3>3
    <3>5. t = 0 \/ up(c) = t
      BY <1>7, <3>2, <3>4
    <3>. QED  BY <1>3, <3>1, <3>3, <3>4, <3>5
  <2>. QED  BY <2>1, <2>2
<1>11. \A t \in 0..NTeams : {row \in local(t) : row[1] \notin Teamless}
                              = {row \in live(t) : row[1] \notin Teamless}
  BY <1>5, <1>10
<1>12. ASSUME NEW t \in 1..NTeams, NEW row \in local(t) PROVE row \in live(t)
  <2>1. row = <<row[1], row[2]>> /\ t \in 0..NTeams
    BY <1>5
  <2>2. row[1] \in Channels /\ row[1] \in shown /\ row[2] = up(row[1]) /\ up(row[1]) = t
    BY <1>3, <2>1
  <2>3. Known(row[1], t)
    BY <1>1, <1>7, <2>2
  <2>4. of(row[1], t) = t
    BY <1>2, <1>7, <2>1, <2>3
  <2>. QED  BY <1>4, <2>1, <2>2, <2>3, <2>4
<1>13. ASSUME NEW c \in Channels \cap shown \cap Teamless
       PROVE  Cardinality({t \in 1..NTeams : c \in Only(local(t))}) = 1
  <2>1. ASSUME NEW t \in 1..NTeams PROVE c \in Only(local(t)) <=> t = up(c)
    <3>1. c \in Only(local(t)) <=> \E u : <<c, u>> \in local(t)
      BY <1>5, OnlyIs
    <3>2. t \in 0..NTeams /\ t # 0
      OBVIOUS
    <3>. QED  BY <1>3, <3>1, <3>2
  <2>2. {t \in 1..NTeams : c \in Only(local(t))} = {up(c)}
    BY <1>1, <2>1
  <2>. QED  BY <2>2, FS_Singleton
<1>14. \A t \in 1..NTeams : local(t) \subseteq live(t)
  BY <1>12
<1>. QED  BY <1>9, <1>11, <1>13, <1>14 DEF local, live

\* What mm channels and mm unread list from the cache is what they list live, each
\* channel with its team, wherever the last pass of the daemon ended; of what has no
\* team, one --team shows it and no other does.
THEOREM TeamsAlike ==
  Spec => []TeamAlike
<1>1. IndInv => TeamAlike
  BY SelectionAssumption, ChannelsAlike
<1>. QED  BY <1>1, HitsInductive, PTL

--------------------------------------------------------------------------
(* mm find-channel.                                                         *)

LEMMA OneByOne ==
  ASSUME NEW S, 0 \in S, \A m \in Nat : m \in S => m + 1 \in S
  PROVE  \A m \in Nat : m \in S
<1>. SUFFICES ASSUME NEW m \in Nat, m \notin S PROVE FALSE
  OBVIOUS
<1>. DEFINE K == {x \in 0..m : x \notin S}
<1>1. K \subseteq Nat /\ m \in K
  OBVIOUS
<1>2. IsFiniteSet(K)
  <2>1. IsFiniteSet(0..m) /\ K \subseteq 0..m
    BY FS_Interval
  <2>. HIDE DEF K
  <2>. QED  BY <2>1, FS_Subset
<1>3. Min(K) \in K /\ \A k \in K : Min(K) <= k
  <2>1. K # {}
    BY <1>1
  <2>. HIDE DEF K
  <2>. QED  BY <1>1, <1>2, <2>1, Extremes
<1>4. PICK k \in K : \A x \in K : k <= x
  BY <1>3
<1>5. k # 0 /\ k \in Nat
  OBVIOUS
<1>6. k - 1 \in Nat /\ k - 1 \in S /\ k - 1 + 1 = k
  BY <1>4, <1>5
<1>. QED  BY <1>6

LEMMA LessOfTwo ==
  ASSUME NEW a \in Int, NEW b \in Int
  PROVE  /\ Min({a, b}) = IF a <= b THEN a ELSE b
         /\ Max({a, b}) = IF a >= b THEN a ELSE b
<1>1. \E x \in {a, b} : \A y \in {a, b} : x <= y
  OBVIOUS
<1>2. \E x \in {a, b} : \A y \in {a, b} : x >= y
  OBVIOUS
<1>3. Min({a, b}) \in {a, b} /\ \A y \in {a, b} : Min({a, b}) <= y
  BY <1>1 DEF Min
<1>4. Max({a, b}) \in {a, b} /\ \A y \in {a, b} : Max({a, b}) >= y
  BY <1>2 DEF Max
<1>. QED  BY <1>3, <1>4

\* What the loop does at team t, and what it has done by team m.
LookAt(t, found, size) ==
  IF t > 1 /\ Len(found) >= size THEN found ELSE WithTeam(t, found, size)
Looked(f, m, size) ==
  f = [t \in 0..m |-> IF t = 0 THEN <<>> ELSE LookAt(t, f[t - 1], size)]

\* The loop over the teams comes to an end.
LEMMA LoopEnds ==
  ASSUME NEW m \in Nat, NEW size PROVE \E f : Looked(f, m, size)
<1>. DEFINE S == {x \in Nat : \E f : Looked(f, x, size)}
<1>1. 0 \in S
  <2>. DEFINE f == [t \in 0..0 |-> <<>>]
  <2>1. Looked(f, 0, size)
    BY DEF Looked
  <2>. QED  BY <2>1
<1>2. ASSUME NEW x \in Nat, x \in S PROVE x + 1 \in S
  <2>1. PICK f : Looked(f, x, size)
    BY <1>2
  <2>. DEFINE g == [t \in 0..x + 1 |-> IF t = x + 1 THEN LookAt(x + 1, f[x], size) ELSE f[t]]
  <2>2. ASSUME NEW t \in 0..x + 1
        PROVE  g[t] = IF t = 0 THEN <<>> ELSE LookAt(t, g[t - 1], size)
    <3>1. CASE t = x + 1
      <4>1. t # 0 /\ t - 1 = x /\ x \in 0..x + 1 /\ x # x + 1
        BY <3>1
      <4>2. g[t] = LookAt(x + 1, f[x], size) /\ g[x] = f[x]
        BY <3>1, <4>1
      <4>. HIDE DEF g
      <4>. QED  BY <3>1, <4>1, <4>2
    <3>2. CASE t # x + 1 /\ t = 0
      BY <2>1, <3>2 DEF Looked
    <3>3. CASE t # x + 1 /\ t # 0
      <4>1. t \in 0..x /\ t - 1 \in 0..x /\ t - 1 \in 0..x + 1 /\ t - 1 # x + 1
        BY <3>3
      <4>2. g[t] = f[t] /\ g[t - 1] = f[t - 1]
        BY <3>3, <4>1
      <4>3. f[t] = LookAt(t, f[t - 1], size)
        BY <2>1, <3>3, <4>1 DEF Looked
      <4>. HIDE DEF g
      <4>. QED  BY <3>3, <4>2, <4>3
    <3>. QED  BY <3>1, <3>2, <3>3
  <2>3. g = [t \in 0..x + 1 |-> g[t]]
    OBVIOUS
  <2>. HIDE DEF g
  <2>4. Looked(g, x + 1, size)
    BY <2>2, <2>3 DEF Looked
  <2>. QED  BY <2>4
<1>. HIDE DEF S
<1>3. m \in S
  BY <1>1, <1>2, OneByOne
<1>. QED  BY <1>3 DEF S

LEMMA LoopIs ==
  ASSUME NTeams \in Nat, NEW size
  PROVE  \E f : Looked(f, NTeams, size) /\ searchTeams(size) = f[NTeams]
<1>. DEFINE Body(f) == [t \in 0..NTeams |->
                          IF t = 0 THEN <<>>
                          ELSE IF t > 1 /\ Len(f[t - 1]) >= size THEN f[t - 1]
                          ELSE WithTeam(t, f[t - 1], size)]
            found == CHOOSE f : f = Body(f)
<1>1. \A f : f = Body(f) <=> Looked(f, NTeams, size)
  BY DEF Looked, LookAt
<1>2. \E f : f = Body(f)
  BY <1>1, LoopEnds
<1>3. found = Body(found)
  <2>. HIDE DEF Body
  <2>. QED  BY <1>2
<1>4. searchTeams(size) = found[NTeams]
  BY DEF searchTeams
<1>. HIDE DEF found
<1>. QED  BY <1>1, <1>3, <1>4

\* The channels of the teams up to t, and what the loop has of them by then.
UpToTeam(t) == UNION {Range(matches[u]) : u \in 1..t}
FoundBy(found, t, size) ==
  /\ found \in Seq(Ids) /\ Once(found) /\ Range(found) \subseteq UpToTeam(t)
  /\ \A u \in 1..t, d \in Ids, c \in Range(found) :
       Lists(u, d) /\ d \notin Range(found) => \E v \in 1..u : Lists(v, c)
  /\ size > 0 => Len(found) <= size /\ (Len(found) < size => Range(found) = UpToTeam(t))
  /\ size = 0 => Len(found) = IF t = 0 \/ matches[1] = <<>> THEN 0 ELSE 1

\* The first rows, at least one of them if there is any.
LEMMA FirstRows ==
  ASSUME NEW s \in Seq(Ids), NEW size \in Int, NEW m, m = IF size < 1 THEN 1 ELSE size
  PROVE  \E b \in 0..Len(s) :
           /\ b <= m /\ (b < m => b = Len(s))
           /\ UpTo(s, size) \in Seq(Ids) /\ Len(UpTo(s, size)) = b
           /\ Range(UpTo(s, size)) = {s[k] : k \in 1..b}
           /\ \A k \in 1..b : UpTo(s, size)[k] = s[k]
           /\ Once(s) => Once(UpTo(s, size))
<1>. DEFINE b == Min({Len(s), Max({size, 1})})
<1>1. Len(s) \in Nat /\ m \in Nat
  BY LenProperties
<1>2. Max({size, 1}) = m
  <2>1. Max({size, 1}) = IF size >= 1 THEN size ELSE 1
    <3>1. 1 \in Int
      OBVIOUS
    <3>. QED  BY <3>1, LessOfTwo
  <2>. QED  BY <2>1
<1>3. b = IF Len(s) <= m THEN Len(s) ELSE m
  <2>1. Len(s) \in Int /\ m \in Int
    BY <1>1
  <2>2. Min({Len(s), m}) = IF Len(s) <= m THEN Len(s) ELSE m
    BY <2>1, LessOfTwo
  <2>. QED  BY <1>2, <2>2
<1>4. UpTo(s, size) = SubSeq(s, 1, b)
  BY DEF UpTo
<1>. HIDE DEF b
<1>5. b \in 0..Len(s)
  BY <1>1, <1>3
<1>6. /\ SubSeq(s, 1, b) \in Seq(Ids) /\ Len(SubSeq(s, 1, b)) = b
      /\ Range(SubSeq(s, 1, b)) = {s[k] : k \in 1..b}
      /\ \A k \in 1..b : SubSeq(s, 1, b)[k] = s[k]
      /\ Once(s) => Once(SubSeq(s, 1, b))
  BY <1>5, Front, Zenon
<1>7. b <= m /\ (b < m => b = Len(s))
  BY <1>1, <1>3
<1>. QED  BY <1>4, <1>5, <1>6, <1>7, Zenon

\* A team is looked at while there is room; what the teams before it list is found.
LEMMA OneTeamMore ==
  ASSUME NEW t \in Nat \ {0}, matches[t] \in Seq(Ids), Once(matches[t]), NEW size \in Nat,
         NEW found, FoundBy(found, t - 1, size), size = 0 => t = 1, size > 0 => Len(found) < size
  PROVE  FoundBy(WithTeam(t, found, size), t, size)
<1>. DEFINE new == NotIn(matches[t], found)
            took == UpTo(new, size - Len(found))
            all == WithTeam(t, found, size)
            S == Ids \ Range(found)
<1>1. /\ found \in Seq(Ids) /\ Once(found) /\ Range(found) \subseteq UpToTeam(t - 1)
      /\ Len(found) \in Nat
  BY LenProperties DEF FoundBy
<1>2. Range(found) = UpToTeam(t - 1) /\ (size = 0 => t = 1 /\ Len(found) = 0)
  <2>1. CASE size = 0
    <3>1. t = 1 /\ t - 1 = 0 /\ UpToTeam(0) = {}
      BY <2>1 DEF UpToTeam
    <3>2. Len(found) = 0
      BY <2>1, <3>1 DEF FoundBy
    <3>. QED  BY <1>1, <3>1, <3>2
  <2>2. CASE size > 0
    BY <2>2 DEF FoundBy
  <2>. QED  BY <2>1, <2>2
<1>3. UpToTeam(t) = UpToTeam(t - 1) \cup Range(matches[t])
  <2>1. 1..t = 1..t - 1 \cup {t}
    OBVIOUS
  <2>. QED  BY <2>1 DEF UpToTeam
<1>4. new \in Seq(Ids) /\ Once(new) /\ Range(new) = Range(matches[t]) \ Range(found)
  <2>1. Range(matches[t]) \subseteq Ids
    BY RangeOfSeq
  <2>2. /\ Filter(matches[t], S) \in Seq(Ids) /\ Once(Filter(matches[t], S))
        /\ Range(Filter(matches[t], S)) = Range(matches[t]) \cap S
    <3>. HIDE DEF S
    <3>. QED  BY Filtered
  <2>. QED  BY <2>1, <2>2 DEF NotIn
<1>. HIDE DEF new
<1>5. Len(new) \in Nat /\ DOMAIN new = 1..Len(new)
  BY <1>4, LenProperties
<1>. DEFINE m == IF size - Len(found) < 1 THEN 1 ELSE size - Len(found)
<1>6. PICK b \in 0..Len(new) :
        /\ b <= m /\ (b < m => b = Len(new))
        /\ took \in Seq(Ids) /\ Len(took) = b /\ Once(took)
        /\ Range(took) = {new[k] : k \in 1..b}
  <2>1. size - Len(found) \in Int
    BY <1>1
  <2>. HIDE DEF m
  <2>2. m = IF size - Len(found) < 1 THEN 1 ELSE size - Len(found)
    BY DEF m
  <2>3. \E b \in 0..Len(new) :
          /\ b <= m /\ (b < m => b = Len(new))
          /\ took \in Seq(Ids) /\ Len(took) = b
          /\ Range(took) = {new[k] : k \in 1..b}
          /\ \A k \in 1..b : took[k] = new[k]
          /\ Once(new) => Once(took)
    BY <1>4, <2>1, <2>2, FirstRows, Zenon
  <2>. QED  BY <1>4, <2>3, Zenon
<1>. HIDE DEF took, m
<1>7. Range(took) \subseteq Range(new) /\ (b = Len(new) => Range(took) = Range(new))
  <2>1. \A k \in 1..b : k \in 1..Len(new)
    BY <1>5
  <2>. QED  BY <1>5, <1>6, <2>1 DEF Range
<1>8. /\ all \in Seq(Ids) /\ Len(all) = Len(found) + b /\ Once(all)
      /\ Range(all) = Range(found) \cup Range(took)
  <2>1. all = found \o took
    BY DEF WithTeam, took, new
  <2>2. Range(found) \cap Range(took) = {}
    BY <1>4, <1>7
  <2>3. /\ found \o took \in Seq(Ids) /\ Len(found \o took) = Len(found) + Len(took)
        /\ Once(found \o took) /\ Range(found \o took) = Range(found) \cup Range(took)
    BY <1>1, <1>6, <2>2, OnceOfBoth
  <2>. QED  BY <1>6, <2>1, <2>3
<1>. HIDE DEF all
<1>9. Range(all) \subseteq UpToTeam(t) /\ (b = Len(new) => Range(all) = UpToTeam(t))
  BY <1>2, <1>3, <1>4, <1>7, <1>8
<1>10. ASSUME NEW u \in 1..t, NEW d \in Ids, NEW c \in Range(all), Lists(u, d), d \notin Range(all)
       PROVE  \E v \in 1..u : Lists(v, c)
  <2>1. u = t
    <3>1. ASSUME u \in 1..t - 1 PROVE FALSE
      <4>1. d \in UpToTeam(t - 1)
        BY <1>10, <3>1 DEF UpToTeam, Lists
      <4>. QED  BY <1>2, <1>8, <1>10, <4>1
    <3>. QED  BY <3>1
  <2>2. c \in UpToTeam(t)
    BY <1>9
  <2>. QED  BY <2>1, <2>2 DEF UpToTeam, Lists
<1>11. Len(found) \in Nat /\ Len(new) \in Nat /\ b \in Nat /\ b <= Len(new)
  <2>1. Len(found) \in Nat /\ Len(new) \in Nat
    BY <1>1, <1>5
  <2>. QED  BY <2>1
<1>12. Len(all) = Len(found) + b
  BY <1>8
<1>13. b <= m /\ (b < m => b = Len(new))
  BY <1>6
<1>14. size > 0 => Len(all) <= size /\ (Len(all) < size => Range(all) = UpToTeam(t))
  <2>1. ASSUME size > 0
        PROVE  Len(all) <= size /\ (Len(all) < size => b = Len(new))
    <3>1. m = size - Len(found)
      BY <1>1, <2>1 DEF m
    <3>. QED  BY <1>11, <1>12, <1>13, <3>1
  <2>. QED  BY <1>9, <2>1
<1>15. size = 0 => Len(all) = IF t = 0 \/ matches[1] = <<>> THEN 0 ELSE 1
  <2>1. SUFFICES ASSUME size = 0 PROVE Len(all) = IF matches[1] = <<>> THEN 0 ELSE 1
    OBVIOUS
  <2>2. t = 1 /\ Len(found) = 0 /\ m = 1
    BY <1>1, <1>2, <2>1 DEF m
  <2>3. Range(new) = Range(matches[1])
    <3>1. Range(found) = {}
      BY <1>2, <2>2 DEF UpToTeam
    <3>. QED  BY <1>4, <2>2, <3>1
  <2>4. Len(new) = 0 <=> matches[1] = <<>>
    <3>1. matches[1] \in Seq(Ids) /\ DOMAIN matches[1] = 1..Len(matches[1]) /\ Len(matches[1]) \in Nat
      BY <2>2, LenProperties
    <3>2. Range(new) = {} <=> Len(new) = 0
      <4>1. 1 \in 1..Len(new) <=> Len(new) # 0
        BY <1>5
      <4>2. Len(new) = 0 => 1..Len(new) = {}
        OBVIOUS
      <4>. QED  BY <1>5, <4>1, <4>2 DEF Range
    <3>3. Range(matches[1]) = {} <=> Len(matches[1]) = 0
      <4>1. 1 \in 1..Len(matches[1]) <=> Len(matches[1]) # 0
        BY <3>1
      <4>2. Len(matches[1]) = 0 => 1..Len(matches[1]) = {}
        OBVIOUS
      <4>. QED  BY <3>1, <4>1, <4>2 DEF Range
    <3>4. Len(matches[1]) = 0 <=> matches[1] = <<>>
      BY <3>1, EmptySeq
    <3>. QED  BY <2>3, <3>2, <3>3, <3>4
  <2>5. CASE Len(new) = 0
    BY <1>11, <1>12, <2>2, <2>4, <2>5
  <2>6. CASE Len(new) # 0
    BY <1>11, <1>12, <1>13, <2>2, <2>4, <2>6
  <2>. QED  BY <2>5, <2>6
<1>16. FoundBy(all, t, size)
  BY <1>8, <1>9, <1>10, <1>14, <1>15 DEF FoundBy
<1>. QED  BY <1>16 DEF all

LEMMA FoundByTeam ==
  ASSUME NTeams \in Nat, \A t \in 1..NTeams : matches[t] \in Seq(Ids) /\ Once(matches[t]),
         NEW size \in Nat, NEW f, Looked(f, NTeams, size)
  PROVE  FoundBy(f[NTeams], NTeams, size)
<1>. DEFINE S == {t \in Nat : t <= NTeams => FoundBy(f[t], t, size)}
<1>1. 0 \in S
  <2>1. f[0] = <<>>
    BY DEF Looked
  <2>2. <<>> \in Seq(Ids) /\ Len(<<>>) = 0 /\ DOMAIN <<>> = 1..0
    BY EmptySeq, LenProperties
  <2>3. Once(<<>>) /\ Range(<<>>) = {} /\ UpToTeam(0) = {}
    BY <2>2 DEF Once, Range, UpToTeam
  <2>4. ASSUME NEW none, none = <<>> PROVE FoundBy(none, 0, size)
    <3>1. none \in Seq(Ids) /\ Len(none) = 0 /\ Once(none) /\ Range(none) = {}
      BY <2>2, <2>3, <2>4
    <3>. QED  BY <2>3, <3>1 DEF FoundBy
  <2>. QED  BY <2>1, <2>4
<1>2. ASSUME NEW m \in Nat, m \in S PROVE m + 1 \in S
  <2>. DEFINE t == m + 1
  <2>. SUFFICES ASSUME t <= NTeams PROVE FoundBy(f[t], t, size)
    OBVIOUS
  <2>1. /\ t \in Nat \ {0} /\ t \in 0..NTeams /\ t \in 1..NTeams /\ t # 0 /\ t - 1 = m
        /\ m <= NTeams
    OBVIOUS
  <2>2. FoundBy(f[m], m, size)
    BY <1>2, <2>1
  <2>. HIDE DEF t
  <2>3. f[t] = LookAt(t, f[m], size)
    BY <2>1 DEF Looked
  <2>4. f[m] \in Seq(Ids) /\ Len(f[m]) \in Nat
    BY <2>2, LenProperties DEF FoundBy
  <2>5. CASE t > 1 /\ Len(f[m]) >= size
    <3>1. f[t] = f[m]
      BY <2>3, <2>5 DEF LookAt
    <3>2. 1..t = 1..m \cup {t}
      BY <2>1
    <3>3. UpToTeam(m) \subseteq UpToTeam(t)
      BY <3>2 DEF UpToTeam
    <3>4. ASSUME NEW u \in 1..t, NEW d \in Ids, NEW c \in Range(f[m]), Lists(u, d), d \notin Range(f[m])
          PROVE  \E v \in 1..u : Lists(v, c)
      <4>1. CASE u = t
        <5>1. c \in UpToTeam(t)
          BY <2>2, <3>3 DEF FoundBy
        <5>. QED  BY <4>1, <5>1 DEF UpToTeam, Lists
      <4>2. CASE u # t
        BY <2>2, <3>2, <3>4, <4>2 DEF FoundBy
      <4>. QED  BY <4>1, <4>2
    <3>5. size > 0 => Len(f[m]) <= size /\ ~(Len(f[m]) < size)
      BY <2>2, <2>4, <2>5 DEF FoundBy
    <3>6. size = 0 => Len(f[m]) = IF t = 0 \/ matches[1] = <<>> THEN 0 ELSE 1
      <4>1. m # 0 /\ t # 0
        BY <2>1, <2>5
      <4>. QED  BY <2>2, <4>1 DEF FoundBy
    <3>7. FoundBy(f[m], t, size)
      BY <2>2, <3>3, <3>4, <3>5, <3>6 DEF FoundBy
    <3>. QED  BY <3>1, <3>7
  <2>6. CASE ~(t > 1 /\ Len(f[m]) >= size)
    <3>1. f[t] = WithTeam(t, f[m], size)
      BY <2>3, <2>6 DEF LookAt
    <3>2. size = 0 => t = 1
      BY <2>1, <2>4, <2>6
    <3>3. size > 0 => Len(f[m]) < size
      <4>1. t = 1 => m = 0 /\ f[m] = <<>>
        BY <2>1 DEF Looked
      <4>2. Len(<<>>) = 0
        BY EmptySeq
      <4>. QED  BY <2>1, <2>4, <2>6, <4>1, <4>2
    <3>4. matches[t] \in Seq(Ids) /\ Once(matches[t])
      BY <2>1
    <3>. QED  BY <2>1, <2>2, <3>1, <3>2, <3>3, <3>4, OneTeamMore
  <2>. QED  BY <2>5, <2>6
<1>. HIDE DEF S
<1>3. NTeams \in S
  BY <1>1, <1>2, OneByOne
<1>. QED  BY <1>3 DEF S

LEMMA NamesOrdered ==
  WeakOrder(ByName, Ids)
<1>1. \A c \in Ids : Name[c] \in Nat
  BY ListsAssumption
<1>2. \A c, d \in Ids : <<c, d>> \in ByName <=> Name[c] < Name[d]
  BY DEF ByName
<1>. QED  BY <1>1, <1>2 DEF WeakOrder

\* The joined channels of the cache: the first in name.
LEMMA FoundInCache ==
  ASSUME NEW joined \in Seq(Ids), Once(joined), joined # <<>>, NEW size \in Nat
  PROVE  LET out == findChannelLocal(joined, size)
             S == Range(joined)
         IN  /\ Range(out) \subseteq S
             /\ \A j, k \in 1..Len(out) : j < k => out[j] # out[k] /\ <<out[k], out[j]>> \notin ByName
             /\ IF size > 0 THEN Len(out) = Min({size, Cardinality(S)}) ELSE Len(out) = 1
             /\ \A c \in Range(out), d \in S \ Range(out) : <<d, c>> \notin ByName
<1>. DEFINE s == SortStable(joined, ByName)
            out == UpTo(s, size)
            m == IF size < 1 THEN 1 ELSE size
<1>1. /\ s \in Seq(Ids) /\ Len(s) = Len(joined) /\ Once(s) /\ Sorted(s, ByName)
      /\ Range(s) = Range(joined)
  BY NamesOrdered, SortedStable
<1>2. out = findChannelLocal(joined, size)
  BY DEF findChannelLocal
<1>. HIDE DEF s
<1>3. Len(s) \in Nat \ {0} /\ DOMAIN s = 1..Len(s) /\ Cardinality(Range(joined)) = Len(s)
  <2>1. Len(joined) \in Nat \ {0}
    BY EmptySeq
  <2>. QED  BY <1>1, <2>1, LenProperties, OnceCounts
<1>4. PICK b \in 0..Len(s) :
        /\ b <= m /\ (b < m => b = Len(s))
        /\ out \in Seq(Ids) /\ Len(out) = b /\ Range(out) = {s[k] : k \in 1..b}
        /\ \A k \in 1..b : out[k] = s[k]
  <2>1. size \in Int
    OBVIOUS
  <2>. HIDE DEF m
  <2>2. m = IF size < 1 THEN 1 ELSE size
    BY DEF m
  <2>3. \E b \in 0..Len(s) :
          /\ b <= m /\ (b < m => b = Len(s))
          /\ UpTo(s, size) \in Seq(Ids) /\ Len(UpTo(s, size)) = b
          /\ Range(UpTo(s, size)) = {s[k] : k \in 1..b}
          /\ \A k \in 1..b : UpTo(s, size)[k] = s[k]
          /\ Once(s) => Once(UpTo(s, size))
    BY <1>1, <2>1, <2>2, FirstRows, Zenon
  <2>. QED  BY <2>3, Zenon
<1>. HIDE DEF out, m
<1>5. \A k \in 1..b : k \in 1..Len(s)
  BY <1>3
<1>6. Range(out) \subseteq Range(joined)
  BY <1>1, <1>3, <1>4, <1>5 DEF Range
<1>7. \A j, k \in 1..Len(out) : j < k => out[j] # out[k] /\ <<out[k], out[j]>> \notin ByName
  BY <1>1, <1>4, <1>5 DEF Once, Sorted
<1>8. Len(out) = b /\ b <= m /\ (b < m => b = Len(s)) /\ b \in Nat /\ b <= Len(s)
  <2>1. Len(out) = b /\ b <= m /\ (b < m => b = Len(s))
    BY <1>4
  <2>2. Len(s) \in Nat
    BY <1>3
  <2>. QED  BY <2>1, <2>2
<1>9. IF size > 0 THEN Len(out) = Min({size, Cardinality(Range(joined))}) ELSE Len(out) = 1
  <2>1. CASE size > 0
    <3>1. m = size /\ size \in Int /\ Len(s) \in Int
      BY <1>3, <2>1 DEF m
    <3>2. Min({size, Len(s)}) = IF size <= Len(s) THEN size ELSE Len(s)
      BY <3>1, LessOfTwo
    <3>3. Len(s) \in Nat
      BY <1>3
    <3>4. Len(out) = IF size <= Len(s) THEN size ELSE Len(s)
      BY <1>8, <3>1, <3>3
    <3>5. Cardinality(Range(joined)) = Len(s)
      BY <1>3
    <3>. QED  BY <2>1, <3>2, <3>4, <3>5
  <2>2. CASE size = 0
    <3>1. m = 1
      BY <2>2 DEF m
    <3>2. Len(s) \in Nat \ {0}
      BY <1>3
    <3>3. Len(out) = 1
      BY <1>8, <3>1, <3>2
    <3>. QED  BY <2>2, <3>3
  <2>. QED  BY <2>1, <2>2
<1>10. ASSUME NEW c \in Range(out), NEW d \in Range(joined) \ Range(out) PROVE <<d, c>> \notin ByName
  <2>1. PICK j \in 1..b : c = s[j]
    BY <1>4
  <2>2. PICK k \in 1..Len(s) : d = s[k]
    BY <1>1, <1>3 DEF Range
  <2>3. k \notin 1..b
    BY <1>4, <2>2
  <2>4. j \in 1..Len(s) /\ j < k
    BY <1>3, <1>5, <2>3
  <2>. QED  BY <1>1, <2>1, <2>2, <2>4 DEF Sorted
<1>. QED  BY <1>2, <1>6, <1>7, <1>9, <1>10

\* The rows of a search over the teams: those of the first teams.
LEMMA FoundLive ==
  ASSUME NTeams \in Nat, \A t \in 1..NTeams : matches[t] \in Seq(Ids) /\ Once(matches[t]),
         NEW size \in Nat
  PROVE  LET out == SortStable(searchTeams(size), ByName)
         IN  /\ Range(out) \subseteq Channels
             /\ \A j, k \in 1..Len(out) : j < k => out[j] # out[k] /\ <<out[k], out[j]>> \notin ByName
             /\ IF size > 0 THEN Len(out) = Min({size, Cardinality(Channels)})
                ELSE Len(out) = IF NTeams = 0 \/ matches[1] = <<>> THEN 0 ELSE 1
             /\ \A c \in Range(out), d \in Channels \ Range(out) :
                  \A t \in 1..NTeams : Lists(t, d) => \E u \in 1..t : Lists(u, c)
<1>. DEFINE found == searchTeams(size)
            out == SortStable(found, ByName)
<1>1. FoundBy(found, NTeams, size)
  BY LoopIs, FoundByTeam
<1>. HIDE DEF found
<1>2. found \in Seq(Ids) /\ Once(found) /\ Len(found) \in Nat
  BY <1>1, LenProperties DEF FoundBy
<1>3. /\ out \in Seq(Ids) /\ Len(out) = Len(found) /\ Once(out) /\ Sorted(out, ByName)
      /\ Range(out) = Range(found)
  BY <1>2, NamesOrdered, SortedStable
<1>. HIDE DEF out
<1>4. UpToTeam(NTeams) = Channels
  <2>1. \A t \in 1..NTeams : Range(matches[t]) \subseteq Ids
    BY RangeOfSeq
  <2>. QED  BY <2>1 DEF UpToTeam, Channels, Lists
<1>5. IF size > 0 THEN Len(out) = Min({size, Cardinality(Channels)})
      ELSE Len(out) = IF NTeams = 0 \/ matches[1] = <<>> THEN 0 ELSE 1
  <2>1. CASE size = 0
    BY <1>1, <1>3, <2>1 DEF FoundBy
  <2>2. CASE size > 0
    <3>1. /\ Range(found) \subseteq Channels /\ Len(found) <= size
          /\ Len(found) < size => Range(found) = Channels
      BY <1>1, <1>4, <2>2 DEF FoundBy
    <3>2. IsFiniteSet(Range(found)) /\ Cardinality(Range(found)) = Len(found)
      BY <1>2, OnceCounts
    <3>3. IsFiniteSet(Channels)
      <4>1. ASSUME NEW t \in 1..NTeams PROVE IsFiniteSet(Range(matches[t]))
        BY OnceCounts
      <4>2. IsFiniteSet(1..NTeams)
        BY FS_Interval
      <4>3. IsFiniteSet(UNION {Range(matches[t]) : t \in 1..NTeams})
        <5>. DEFINE g == [t \in 1..NTeams |-> Range(matches[t])]
                    Sets == {Range(matches[t]) : t \in 1..NTeams}
        <5>1. g \in Surjection(1..NTeams, Sets)
          BY DEF Surjection
        <5>2. \A T \in Sets : IsFiniteSet(T)
          BY <4>1
        <5>. HIDE DEF g, Sets
        <5>3. IsFiniteSet(Sets)
          BY <4>2, <5>1, FS_Surjection
        <5>4. IsFiniteSet(UNION Sets)
          BY <5>2, <5>3, FS_UNION
        <5>. QED  BY <5>4 DEF Sets
      <4>. QED  BY <1>4, <4>3 DEF UpToTeam
    <3>4. Cardinality(Channels) \in Nat /\ Len(found) <= Cardinality(Channels)
      BY <3>1, <3>2, <3>3, FS_Subset, FS_CardinalityType
    <3>5. Len(found) < size => Len(found) = Cardinality(Channels)
      BY <3>1, <3>2
    <3>6. Min({size, Cardinality(Channels)})
            = IF size <= Cardinality(Channels) THEN size ELSE Cardinality(Channels)
      <4>1. size \in Int /\ Cardinality(Channels) \in Int
        BY <3>4
      <4>. QED  BY <4>1, LessOfTwo
    <3>7. Len(found) = IF size <= Cardinality(Channels) THEN size ELSE Cardinality(Channels)
      BY <1>2, <3>1, <3>4, <3>5
    <3>. QED  BY <1>3, <2>2, <3>6, <3>7
  <2>. QED  BY <2>1, <2>2
<1>6. \A j, k \in 1..Len(out) : j < k => out[j] # out[k] /\ <<out[k], out[j]>> \notin ByName
  BY <1>3 DEF Once, Sorted
<1>7. Range(out) \subseteq Channels
  BY <1>1, <1>3, <1>4 DEF FoundBy
<1>8. ASSUME NEW c \in Range(out), NEW d \in Channels \ Range(out), NEW t \in 1..NTeams, Lists(t, d)
      PROVE  \E u \in 1..t : Lists(u, c)
  <2>1. d \in Ids
    BY DEF Channels
  <2>. QED  BY <1>1, <1>3, <1>8, <2>1 DEF FoundBy
<1>. QED  BY <1>5, <1>6, <1>7, <1>8 DEF out, found

LEMMA FindChannelIs ==
  ASSUME TypeOK PROVE FoundRight
<1>. SUFFICES ASSUME NEW joined \in {s \in Listings : Range(s) \subseteq Channels}
     PROVE  LET out == runFindChannel(joined, limit)
                S == IF joined = <<>> THEN Channels ELSE Range(joined)
                rest == S \ Range(out)
            IN  /\ Range(out) \subseteq S
                /\ \A j, k \in 1..Len(out) :
                     j < k => out[j] # out[k] /\ <<out[k], out[j]>> \notin ByName
                /\ IF limit > 0 THEN Len(out) = Min({limit, Cardinality(S)})
                   ELSE Len(out) = IF joined = <<>> /\ (NTeams = 0 \/ matches[1] = <<>>)
                                   THEN 0 ELSE 1
                /\ \A c \in Range(out), d \in rest :
                     IF joined = <<>>
                     THEN \A t \in 1..NTeams : Lists(t, d) => \E u \in 1..t : Lists(u, c)
                     ELSE <<d, c>> \notin ByName
  BY DEF FoundRight
<1>1. NTeams \in Nat /\ limit \in Nat
  BY SelectionAssumption, TypesOfQuery
<1>2. \A t \in 1..NTeams : matches[t] \in Seq(Ids) /\ Once(matches[t])
  BY ListingsAreLists DEF TypeOK
<1>3. joined \in Seq(Ids) /\ Once(joined)
  BY ListingsAreLists
<1>4. CASE joined = <<>>
  <2>1. runFindChannel(joined, limit) = SortStable(searchTeams(limit), ByName)
    BY <1>4 DEF runFindChannel
  <2>. DEFINE out == SortStable(searchTeams(limit), ByName)
  <2>2. /\ Range(out) \subseteq Channels
        /\ \A j, k \in 1..Len(out) : j < k => out[j] # out[k] /\ <<out[k], out[j]>> \notin ByName
    BY <1>1, <1>2, FoundLive
  <2>3. IF limit > 0 THEN Len(out) = Min({limit, Cardinality(Channels)})
        ELSE Len(out) = IF NTeams = 0 \/ matches[1] = <<>> THEN 0 ELSE 1
    BY <1>1, <1>2, FoundLive
  <2>4. \A c \in Range(out), d \in Channels \ Range(out) :
          \A t \in 1..NTeams : Lists(t, d) => \E u \in 1..t : Lists(u, c)
    BY <1>1, <1>2, FoundLive
  <2>. HIDE DEF out
  <2>5. runFindChannel(joined, limit) = out
    BY <2>1 DEF out
  <2>. QED  BY <1>4, <2>2, <2>3, <2>4, <2>5
<1>5. CASE joined # <<>>
  <2>1. runFindChannel(joined, limit) = findChannelLocal(joined, limit)
    BY <1>5 DEF runFindChannel
  <2>. QED  BY <1>1, <1>3, <1>5, <2>1, FoundInCache
<1>. QED  BY <1>4, <1>5

\* mm find-channel prints each channel once, by name, and as many as --limit allows:
\* of the joined ones the first in name, live those of the first teams.  The loop of
\* searchTeams over the teams stops where nothing of a later team could be shown.
THEOREM FindChannelIsRight ==
  Spec => []FoundRight
<1>1. IndInv => FoundRight
  BY FindChannelIs DEF IndInv
<1>. QED  BY <1>1, HitsInductive, PTL
=============================================================================
