----------------------------- MODULE DataProofs -----------------------------
(***************************************************************************)
(* Facts about the data of the models: the numbers of a finite set in      *)
(* order and the entries of a list at some of its places; induction and    *)
(* recursion over numbers, loops that end; and blank lines in a text.      *)
(***************************************************************************)
EXTENDS Ranks, SseText, SequenceTheorems, FiniteSetTheorems, TLAPS

UpTo(S, n) == {m \in S : m <= n}

Lists(q, S) ==
  /\ q \in [1..Cardinality(S) -> S]
  /\ \A n \in S : \E i \in 1..Cardinality(S) : q[i] = n
  /\ \A i, j \in 1..Cardinality(S) : i < j => q[i] < q[j]

(* How many numbers are not above n tells n from the others. *)
LEMMA RankTells ==
  ASSUME NEW S \in SUBSET Nat, IsFiniteSet(S)
  PROVE  /\ Cardinality(S) \in Nat
         /\ \A n \in S : Cardinality(UpTo(S, n)) \in 1..Cardinality(S)
         /\ \A n, k \in S : n < k => Cardinality(UpTo(S, n)) < Cardinality(UpTo(S, k))
<1>1. Cardinality(S) \in Nat
  BY FS_CardinalityType
<1>2. ASSUME NEW n \in S
      PROVE  /\ IsFiniteSet(UpTo(S, n)) /\ Cardinality(UpTo(S, n)) \in Nat
             /\ Cardinality(UpTo(S, n)) \in 1..Cardinality(S)
  <2>1. UpTo(S, n) \in SUBSET S /\ n \in UpTo(S, n)
    BY DEF UpTo
  <2>2. IsFiniteSet(UpTo(S, n)) /\ Cardinality(UpTo(S, n)) <= Cardinality(S)
    BY <2>1, FS_Subset
  <2>3. Cardinality(UpTo(S, n)) \in Nat
    BY <2>2, FS_CardinalityType
  <2>4. Cardinality(UpTo(S, n)) # 0
    BY <2>1, <2>2, FS_EmptySet
  <2> QED
    BY <1>1, <2>2, <2>3, <2>4
<1>3. ASSUME NEW n \in S, NEW k \in S, n < k
      PROVE  Cardinality(UpTo(S, n)) < Cardinality(UpTo(S, k))
  <2>0. \A m \in S : m <= n => m <= k
    <3>1. \A m \in S : m \in Nat
      OBVIOUS
    <3> QED
      BY <1>3, <3>1
  <2>1. UpTo(S, n) \in SUBSET UpTo(S, k)
    BY <2>0 DEF UpTo
  <2>2. k \in UpTo(S, k) /\ k \notin UpTo(S, n)
    BY <1>3 DEF UpTo
  <2>3. IsFiniteSet(UpTo(S, k)) /\ Cardinality(UpTo(S, k)) \in Nat /\ Cardinality(UpTo(S, n)) \in Nat
    BY <1>2
  <2>4. /\ Cardinality(UpTo(S, n)) <= Cardinality(UpTo(S, k))
        /\ Cardinality(UpTo(S, n)) # Cardinality(UpTo(S, k))
    BY <2>1, <2>2, <2>3, FS_Subset
  <2> QED
    BY <2>3, <2>4
<1> QED
  BY <1>1, <1>2, <1>3

LEMMA AscendingLists ==
  ASSUME NEW S \in SUBSET Nat, IsFiniteSet(S)
  PROVE  /\ Lists(Ascending(S), S)
         /\ \A i \in 1..Cardinality(S) : Cardinality(UpTo(S, Ascending(S)[i])) = i
<1> DEFINE c == Cardinality(S)
           rank == [n \in S |-> Cardinality(UpTo(S, n))]
           q == Ascending(S)
<1>1. c \in Nat
  BY RankTells
<1>2. rank \in [S -> 1..c]
  BY RankTells
<1>3. \A n, k \in S : n < k => rank[n] < rank[k]
  BY RankTells
<1>4. \A n, k \in S : rank[n] = rank[k] => n = k
  <2> SUFFICES ASSUME NEW n \in S, NEW k \in S, rank[n] = rank[k], n # k PROVE FALSE
    OBVIOUS
  <2>1. n \in Nat /\ k \in Nat /\ rank[n] \in Nat /\ rank[k] \in Nat
    BY <1>2
  <2>2. CASE n < k
    <3>1. rank[n] < rank[k]
      BY <1>3, <2>2
    <3> QED
      BY <2>1, <3>1
  <2>3. CASE k < n
    <3>1. rank[k] < rank[n]
      BY <1>3, <2>3
    <3> QED
      BY <2>1, <3>1
  <2> QED
    BY <2>1, <2>2, <2>3
<1>5. \A i \in 1..c : \E n \in S : rank[n] = i
  <2>1. rank \in Injection(S, 1..c)
    <3> HIDE DEF rank
    <3> QED
      BY <1>2, <1>4 DEF Injection, IsInjective
  <2>2. IsFiniteSet(1..c) /\ Cardinality(1..c) = c
    BY <1>1, FS_Interval
  <2> HIDE DEF rank
  <2>3. rank \in Surjection(S, 1..c)
    BY <2>1, <2>2, FS_Injection
  <2> QED
    BY <2>3 DEF Surjection
<1>6. ASSUME NEW i \in 1..c PROVE q[i] \in S /\ rank[q[i]] = i
  <2>1. q[i] = CHOOSE n \in S : Cardinality(UpTo(S, n)) = i
    BY DEF Ascending, UpTo
  <2>2. \E n \in S : Cardinality(UpTo(S, n)) = i
    BY <1>5
  <2>3. q[i] \in S /\ Cardinality(UpTo(S, q[i])) = i
    BY <2>1, <2>2
  <2> QED
    BY <2>3
<1>7. q \in [1..c -> S]
  <2>1. q = [i \in 1..c |-> q[i]]
    BY DEF Ascending
  <2> HIDE DEF q
  <2> QED
    BY <2>1, <1>6
<1> HIDE DEF q
<1>8. \A n \in S : \E i \in 1..c : q[i] = n
  BY <1>2, <1>4, <1>6
<1>9. ASSUME NEW i \in 1..c, NEW j \in 1..c, i < j PROVE q[i] < q[j]
  <2>1. q[i] \in S /\ q[j] \in S /\ rank[q[i]] = i /\ rank[q[j]] = j
    BY <1>6
  <2>2. q[i] \in Nat /\ q[j] \in Nat /\ i \in Nat /\ j \in Nat
    <3>1. \A x \in S : x \in Nat
      OBVIOUS
    <3>2. \A x \in 1..c : x \in Nat
      BY <1>1
    <3> QED
      BY <2>1, <3>1, <3>2, Zenon
  <2>3. CASE q[j] < q[i]
    <3>1. rank[q[j]] < rank[q[i]]
      BY <1>3, <2>1, <2>3
    <3> QED
      BY <1>9, <2>1, <2>2, <3>1
  <2>4. q[j] # q[i]
    BY <1>9, <2>1, <2>2
  <2> QED
    BY <2>2, <2>3, <2>4
<1>10. \A i \in 1..c : Cardinality(UpTo(S, q[i])) = i
  BY <1>6
<1> QED
  BY <1>7, <1>8, <1>9, <1>10 DEF Lists, q

(* There is no other list in order. *)
LEMMA AscendingIsOnly ==
  ASSUME NEW S \in SUBSET Nat, NEW k \in Nat, NEW q \in [1..k -> S],
         \A n \in S : \E i \in 1..k : q[i] = n,
         \A i, j \in 1..k : i < j => q[i] < q[j]
  PROVE  q = Ascending(S)
<1>1. \A i, j \in 1..k : q[i] = q[j] => i = j
  <2> SUFFICES ASSUME NEW i \in 1..k, NEW j \in 1..k, q[i] = q[j], i # j PROVE FALSE
    OBVIOUS
  <2>1. q[i] \in Nat /\ q[j] \in Nat
    OBVIOUS
  <2>2. CASE i < j
    <3>1. q[i] < q[j]
      BY <2>2
    <3> QED
      BY <2>1, <3>1
  <2>3. CASE j < i
    <3>1. q[j] < q[i]
      BY <2>3
    <3> QED
      BY <2>1, <3>1
  <2> QED
    BY <2>2, <2>3
<1>2. IsFiniteSet(S) /\ Cardinality(S) = k
  <2>1. q \in Bijection(1..k, S)
    BY <1>1 DEF Bijection, Injection, Surjection, IsInjective
  <2>2. ExistsBijection(1..k, S)
    BY <2>1 DEF ExistsBijection
  <2>3. IsFiniteSet(1..k) /\ Cardinality(1..k) = k
    BY FS_Interval
  <2> QED
    BY <2>2, <2>3, FS_Bijection
<1>3. ASSUME NEW i \in 1..k PROVE Cardinality(UpTo(S, q[i])) = i
  <2> DEFINE f == [j \in 1..i |-> q[j]]
             U == UpTo(S, q[i])
  <2>1. ASSUME NEW j \in 1..i PROVE q[j] \in U
    <3>0. j \in 1..k /\ \A x \in 1..k : q[x] \in Nat
      <4>1. j \in 1..k
        OBVIOUS
      <4>2. \A x \in 1..k : q[x] \in S
        OBVIOUS
      <4> QED
        BY <4>1, <4>2
    <3>1. j \in 1..k /\ q[j] \in Nat /\ q[i] \in Nat /\ q[j] \in S
      BY <3>0
    <3>2. q[j] <= q[i]
      BY <3>1
    <3> QED
      BY <3>1, <3>2 DEF UpTo
  <2>2. ASSUME NEW n \in U PROVE \E j \in 1..i : q[j] = n
    <3>1. n \in S /\ n <= q[i]
      BY DEF UpTo
    <3>2. PICK j \in 1..k : q[j] = n
      BY <3>1
    <3>3. ~(i < j)
      <4> SUFFICES ASSUME i < j PROVE FALSE
        OBVIOUS
      <4>1. q[i] < q[j] /\ q[i] \in Nat /\ q[j] \in Nat
        OBVIOUS
      <4> QED
        BY <4>1, <3>1, <3>2
    <3>4. j \in 1..i
      BY <3>3
    <3> QED
      BY <3>2, <3>4
  <2>3. f \in [1..i -> U] /\ \A n \in U : \E j \in 1..i : f[j] = n
    BY <2>1, <2>2
  <2>4. \A a, b \in 1..i : f[a] = f[b] => a = b
    BY <1>1
  <2> HIDE DEF f, U
  <2>5. f \in Bijection(1..i, U)
    BY <2>3, <2>4 DEF Bijection, Injection, Surjection, IsInjective
  <2>6. ExistsBijection(1..i, U)
    BY <2>5 DEF ExistsBijection
  <2>7. IsFiniteSet(1..i) /\ Cardinality(1..i) = i
    BY FS_Interval
  <2> QED
    BY <2>6, <2>7, FS_Bijection DEF U
<1>4. ASSUME NEW i \in 1..k PROVE q[i] = Ascending(S)[i]
  <2> DEFINE n == q[i]
             m == Ascending(S)[i]
  <2>1. n \in S /\ m \in S
    BY <1>2, AscendingLists DEF Lists
  <2>2. Cardinality(UpTo(S, n)) = i /\ Cardinality(UpTo(S, m)) = i
    BY <1>2, <1>3, AscendingLists
  <2> HIDE DEF n, m
  <2>3. n \in Nat /\ m \in Nat /\ i \in Nat
    BY <2>1
  <2>4. \A a, b \in S : a < b => Cardinality(UpTo(S, a)) < Cardinality(UpTo(S, b))
    BY <1>2, RankTells
  <2>5. ~(n < m) /\ ~(m < n)
    <3>1. n < m => i < i
      BY <2>1, <2>2, <2>4
    <3>2. m < n => i < i
      BY <2>1, <2>2, <2>4
    <3> QED
      BY <2>3, <3>1, <3>2
  <2>6. n = m
    BY <2>3, <2>5
  <2> QED
    BY <2>6 DEF n, m
<1>5. Ascending(S) \in [1..k -> S]
  BY <1>2, AscendingLists DEF Lists
<1> QED
  BY <1>4, <1>5

LEMMA AscendingTyped ==
  ASSUME NEW S \in SUBSET Nat, IsFiniteSet(S)
  PROVE  Ascending(S) \in Seq(Nat)
<1>1. Cardinality(S) \in Nat
  BY FS_CardinalityType
<1>2. Ascending(S) \in [1..Cardinality(S) -> Nat]
  <2>1. Ascending(S) \in [1..Cardinality(S) -> S]
    BY AscendingLists DEF Lists
  <2> QED
    BY <2>1
<1> QED
  BY <1>1, <1>2, SeqDef

(* The numbers of a later chunk come behind those of the earlier ones. *)
LEMMA AscendingJoins ==
  ASSUME NEW A \in SUBSET Nat, NEW B \in SUBSET Nat, IsFiniteSet(A), IsFiniteSet(B),
         \A a \in A, b \in B : a < b
  PROVE  Ascending(A \union B) = Ascending(A) \o Ascending(B)
<1> DEFINE a == Ascending(A)
           b == Ascending(B)
           m == Cardinality(A)
           n == Cardinality(B)
           q == a \o b
<1>1. m \in Nat /\ n \in Nat
  BY FS_CardinalityType
<1>2. a \in [1..m -> A] /\ b \in [1..n -> B]
  BY AscendingLists DEF Lists
<1>3. /\ \A x \in A : \E i \in 1..m : a[i] = x
      /\ \A x \in B : \E i \in 1..n : b[i] = x
  BY AscendingLists DEF Lists
<1>4. /\ \A i, j \in 1..m : i < j => a[i] < a[j]
      /\ \A i, j \in 1..n : i < j => b[i] < b[j]
  BY AscendingLists DEF Lists
<1>5. a \in Seq(A \union B) /\ b \in Seq(A \union B) /\ Len(a) = m /\ Len(b) = n
  <2>1. a \in [1..m -> A \union B] /\ b \in [1..n -> A \union B]
    BY <1>2
  <2> HIDE DEF a, b, m, n
  <2>2. a \in Seq(A \union B) /\ b \in Seq(A \union B)
    BY <1>1, <2>1, SeqDef
  <2>3. DOMAIN a = 1..m /\ DOMAIN b = 1..n
    BY <2>1
  <2> QED
    BY <1>1, <2>2, <2>3, LenProperties
<1> HIDE DEF a, b, m, n
<1>6. /\ q \in Seq(A \union B) /\ Len(q) = m + n
      /\ \A i \in 1..m : q[i] = a[i]
      /\ \A i \in 1..n : q[m + i] = b[i]
  <2>1. q \in Seq(A \union B) /\ Len(q) = m + n
    BY <1>5, ConcatProperties
  <2>2. \A i \in 1..m + n : q[i] = IF i <= m THEN a[i] ELSE b[i - m]
    BY <1>1, <1>5, ConcatProperties
  <2>3. \A i \in 1..n : m + i \in 1..m + n /\ ~(m + i <= m) /\ (m + i) - m = i
    BY <1>1
  <2>4. \A i \in 1..m : i \in 1..m + n /\ i <= m
    BY <1>1
  <2> HIDE DEF q
  <2> QED
    BY <2>1, <2>2, <2>3, <2>4
<1> HIDE DEF q
<1>7. q \in [1..m + n -> A \union B]
  BY <1>1, <1>6, LenProperties, SeqDef
<1>8. \A i \in 1..m + n : i \in 1..m \/ \E j \in 1..n : i = m + j
  <2> TAKE i \in 1..m + n
  <2>1. CASE i <= m
    BY <1>1, <2>1
  <2>2. CASE ~(i <= m)
    <3>1. i - m \in 1..n /\ i = m + (i - m)
      BY <1>1, <2>2
    <3> QED
      BY <3>1
  <2> QED
    BY <2>1, <2>2
<1>9. ASSUME NEW i \in 1..m + n, NEW j \in 1..m + n, i < j
      PROVE  q[i] < q[j]
  <2>1. CASE i \in 1..m /\ j \in 1..m
    BY <1>4, <1>6, <1>9, <2>1
  <2>2. CASE i \in 1..m /\ j \notin 1..m
    <3>1. PICK y \in 1..n : j = m + y
      BY <1>8, <2>2
    <3>2. q[i] \in A /\ q[j] \in B
      BY <1>2, <1>6, <2>2, <3>1
    <3> QED
      BY <3>2
  <2>3. CASE i \notin 1..m
    <3>1. PICK x \in 1..n : i = m + x
      BY <1>8, <2>3
    <3>2. j \notin 1..m
      BY <1>1, <1>9, <2>3
    <3>3. PICK y \in 1..n : j = m + y
      BY <1>8, <3>2
    <3>4. x < y
      BY <1>1, <1>9, <3>1, <3>3
    <3> QED
      BY <1>4, <1>6, <3>1, <3>3, <3>4
  <2> QED
    BY <2>1, <2>2, <2>3
<1>10. \A x \in A \union B : \E i \in 1..m + n : q[i] = x
  <2>1. ASSUME NEW x \in A PROVE \E i \in 1..m + n : q[i] = x
    <3>1. PICK i \in 1..m : a[i] = x
      BY <1>3
    <3>2. i \in 1..m + n
      BY <1>1
    <3> QED
      BY <1>6, <3>1, <3>2
  <2>2. ASSUME NEW x \in B PROVE \E i \in 1..m + n : q[i] = x
    <3>1. PICK i \in 1..n : b[i] = x
      BY <1>3
    <3>2. m + i \in 1..m + n
      BY <1>1
    <3> QED
      BY <1>6, <3>1, <3>2
  <2> QED
    BY <2>1, <2>2
<1>11. q = Ascending(A \union B)
  BY <1>1, <1>7, <1>9, <1>10, AscendingIsOnly
<1> QED
  BY <1>11 DEF q, a, b

LEMMA LeastNumber ==
  ASSUME NEW S \in SUBSET Nat, IsFiniteSet(S), S # {}
  PROVE  \E i \in S : \A j \in S : i <= j
<1> DEFINE q == Ascending(S)
           c == Cardinality(S)
<1>1. c \in Nat /\ 1 \in 1..c
  BY FS_CardinalityType, FS_EmptySet
<1>2. /\ q \in [1..c -> S]
      /\ \A n \in S : \E i \in 1..c : q[i] = n
      /\ \A i, j \in 1..c : i < j => q[i] < q[j]
  BY AscendingLists DEF Lists
<1> HIDE DEF q, c
<1>3. ASSUME NEW n \in S PROVE q[1] <= n
  <2>1. PICK i \in 1..c : q[i] = n
    BY <1>2
  <2>2. q[1] \in Nat /\ q[i] \in Nat
    BY <1>1, <1>2
  <2>3. CASE i = 1
    BY <2>1, <2>2, <2>3
  <2>4. CASE i # 1
    <3>1. 1 < i
      BY <1>1, <2>4
    <3>2. q[1] < q[i]
      BY <1>1, <1>2, <3>1
    <3> QED
      BY <2>1, <2>2, <3>2
  <2> QED
    BY <2>3, <2>4
<1>4. q[1] \in S
  BY <1>1, <1>2
<1> QED
  BY <1>3, <1>4

-----------------------------------------------------------------------------
(* What is at some places of a list. *)

LEMMA AtProperties ==
  ASSUME NEW S, NEW s \in Seq(S), NEW places \in SUBSET (1..Len(s))
  PROVE  /\ IsFiniteSet(places) /\ Cardinality(places) \in Nat
         /\ At(s, places) \in Seq(S) /\ Len(At(s, places)) = Cardinality(places)
         /\ \A i \in 1..Cardinality(places) :
              /\ Ascending(places)[i] \in places
              /\ At(s, places)[i] = s[Ascending(places)[i]]
         /\ \A p \in places : \E i \in 1..Cardinality(places) : Ascending(places)[i] = p
         /\ \A i, j \in 1..Cardinality(places) :
              i < j => Ascending(places)[i] < Ascending(places)[j]
<1> DEFINE c == Cardinality(places)
           order == Ascending(places)
<1>1. Len(s) \in Nat /\ \A i \in 1..Len(s) : s[i] \in S
  BY LenProperties, ElementOfSeq
<1>2. IsFiniteSet(places) /\ places \in SUBSET Nat
  <2>1. IsFiniteSet(1..Len(s)) /\ 1..Len(s) \in SUBSET Nat
    BY <1>1, FS_Interval
  <2> QED
    BY <2>1, FS_Subset
<1>3. c \in Nat
  BY <1>2, FS_CardinalityType
<1>4. /\ order \in [1..c -> places]
      /\ \A p \in places : \E i \in 1..c : order[i] = p
      /\ \A i, j \in 1..c : i < j => order[i] < order[j]
  BY <1>2, AscendingLists DEF Lists
<1> HIDE DEF order, c
<1>5. At(s, places) = [i \in DOMAIN order |-> s[order[i]]]
  <2>1. CASE places = DOMAIN s
    <3>1. places = 1..Len(s) /\ c = Len(s)
      <4>1. places = 1..Len(s)
        BY <2>1, LenProperties
      <4>2. Cardinality(1..Len(s)) = Len(s)
        BY <1>1, FS_Interval, SMTT(30)
      <4> QED
        BY <4>1, <4>2 DEF c
    <3> DEFINE same == [i \in 1..Len(s) |-> i]
    <3>2. /\ same \in [1..Len(s) -> places] /\ \A n \in places : \E i \in 1..Len(s) : same[i] = n
          /\ \A i, j \in 1..Len(s) : i < j => same[i] < same[j]
      BY <3>1
    <3> HIDE DEF same
    <3>3. same = order
      BY <1>1, <1>2, <3>2, AscendingIsOnly DEF order
    <3>4. DOMAIN order = 1..Len(s) /\ \A i \in 1..Len(s) : order[i] = i
      BY <3>3 DEF same
    <3>5. s = [i \in 1..Len(s) |-> s[i]]
      BY LenProperties
    <3> QED
      BY <2>1, <3>4, <3>5 DEF At
  <2>2. CASE places # DOMAIN s
    BY <2>2 DEF At, order
  <2> QED
    BY <2>1, <2>2
<1>6. At(s, places) = [i \in 1..c |-> s[order[i]]]
  BY <1>4, <1>5
<1>7. At(s, places) \in [1..c -> S]
  BY <1>1, <1>4, <1>6
<1>8. At(s, places) \in Seq(S) /\ Len(At(s, places)) = c
  BY <1>3, <1>7, SeqDef, LenProperties
<1> QED
  BY <1>2, <1>3, <1>4, <1>6, <1>8 DEF c, order

LEMMA AscendingOne ==
  ASSUME NEW n \in Nat
  PROVE  Ascending({n}) = <<n>>
<1> DEFINE q == [i \in 1..1 |-> n]
<1>1. \A i \in 1..1 : i = 1 /\ q[i] = n
  OBVIOUS
<1>2. q \in [1..1 -> {n}] /\ 1 \in Nat /\ {n} \in SUBSET Nat /\ 1 \in 1..1
  OBVIOUS
<1>3. \A i, j \in 1..1 : ~(i < j)
  OBVIOUS
<1>4. q = <<n>>
  OBVIOUS
<1> HIDE DEF q
<1>5. q = Ascending({n})
  BY <1>1, <1>2, <1>3, AscendingIsOnly
<1> QED
  BY <1>4, <1>5

LEMMA AtIs ==
  ASSUME NEW S, NEW list \in Seq(S), NEW places \in SUBSET (1..Len(list))
  PROVE  /\ IsFiniteSet(places) /\ places \in SUBSET Nat
         /\ Ascending(places) \in Seq(Nat)
         /\ Len(Ascending(places)) = Cardinality(places)
         /\ Len(At(list, places)) = Len(Ascending(places))
         /\ At(list, places) \in Seq(S)
         /\ \A i \in 1..Len(Ascending(places)) :
              Ascending(places)[i] \in places /\ At(list, places)[i] = list[Ascending(places)[i]]
<1>1. IsFiniteSet(places) /\ Cardinality(places) \in Nat
  BY AtProperties
<1>2. places \in SUBSET Nat
  OBVIOUS
<1>3. Ascending(places) \in Seq(Nat)
  BY <1>1, <1>2, AscendingTyped
<1>4. Ascending(places) \in [1..Cardinality(places) -> places]
  BY <1>1, <1>2, AscendingLists DEF Lists
<1>5. Len(Ascending(places)) = Cardinality(places)
  BY <1>1, <1>3, <1>4, LenProperties
<1> QED
  BY <1>1, <1>2, <1>3, <1>5, AtProperties

LEMMA AtMissed ==
  ASSUME NEW S, NEW list \in Seq(S), NEW e \in S, NEW places \in SUBSET (1..Len(list))
  PROVE  At(Append(list, e), places) = At(list, places)
<1> DEFINE more == Append(list, e)
<1>1. /\ more \in Seq(S) /\ Len(more) = Len(list) + 1 /\ Len(list) \in Nat
      /\ \A i \in 1..Len(list) : more[i] = list[i]
  BY AppendProperties
<1> HIDE DEF more
<1>2. places \in SUBSET (1..Len(more))
  BY <1>1
<1>3. /\ At(more, places) \in Seq(S) /\ At(list, places) \in Seq(S)
      /\ Len(At(more, places)) = Len(At(list, places))
      /\ \A i \in 1..Len(At(list, places)) : At(more, places)[i] = At(list, places)[i]
  <2>1. /\ At(list, places) \in Seq(S)
        /\ Len(At(list, places)) = Len(Ascending(places))
        /\ \A i \in 1..Len(Ascending(places)) :
             Ascending(places)[i] \in places /\ At(list, places)[i] = list[Ascending(places)[i]]
    BY AtIs
  <2>2. /\ At(more, places) \in Seq(S)
        /\ Len(At(more, places)) = Len(Ascending(places))
        /\ \A i \in 1..Len(Ascending(places)) : At(more, places)[i] = more[Ascending(places)[i]]
    BY <1>1, <1>2, AtIs
  <2> QED
    BY <1>1, <2>1, <2>2
<1> QED
  BY <1>3, SeqEqual DEF more

LEMMA AtSeen ==
  ASSUME NEW S, NEW list \in Seq(S), NEW e \in S, NEW places \in SUBSET (1..Len(list))
  PROVE  At(Append(list, e), places \union {Len(list) + 1}) = Append(At(list, places), e)
<1> DEFINE more == Append(list, e)
           n == Len(list) + 1
           B == places \union {n}
           a == Ascending(places)
           seen == At(list, places)
           k == Len(a)
<1>1. /\ more \in Seq(S) /\ Len(more) = n /\ Len(list) \in Nat /\ more[n] = e
      /\ \A i \in 1..Len(list) : more[i] = list[i]
  BY AppendProperties
<1>2. places \in SUBSET (1..Len(more)) /\ B \in SUBSET (1..Len(more)) /\ n \in Nat
  <2> HIDE DEF more, B
  <2>1. n \in Nat /\ n \in 1..Len(more) /\ \A x \in 1..Len(list) : x \in 1..Len(more)
    BY ONLY <1>1
  <2>2. places \in SUBSET (1..Len(more))
    BY <2>1
  <2> QED
    BY <2>1, <2>2 DEF B
<1>3. /\ IsFiniteSet(places) /\ places \in SUBSET Nat /\ a \in Seq(Nat) /\ k \in Nat
      /\ seen \in Seq(S) /\ Len(seen) = k
      /\ \A i \in 1..k : a[i] \in places /\ seen[i] = list[a[i]]
  BY AtIs
<1>4. Ascending(B) = a \o <<n>>
  <2>1. \A x \in places, y \in {n} : x < y
    BY <1>1
  <2> HIDE DEF n
  <2>2. IsFiniteSet({n})
    BY FS_Singleton
  <2>4. {n} \in SUBSET Nat
    BY <1>2
  <2> QED
    BY <1>2, <1>3, <2>1, <2>2, <2>4, AscendingJoins, AscendingOne
<1> HIDE DEF more, a, n, seen, B
<1>5. /\ a \o <<n>> \in Seq(Nat) /\ Len(a \o <<n>>) = k + 1 /\ (a \o <<n>>)[k + 1] = n
      /\ \A i \in 1..k : (a \o <<n>>)[i] = a[i]
  <2>1. <<n>> \in Seq(Nat) /\ Len(<<n>>) = 1 /\ <<n>>[1] = n
    BY <1>2
  <2>2. \A i \in 1..(k + 1) : (a \o <<n>>)[i] = IF i <= k THEN a[i] ELSE <<n>>[i - k]
    BY <1>3, <2>1, ConcatProperties
  <2>3. a \o <<n>> \in Seq(Nat) /\ Len(a \o <<n>>) = k + 1
    BY <1>3, <2>1, ConcatProperties
  <2>4. k + 1 \in 1..(k + 1) /\ ~(k + 1 <= k) /\ (k + 1) - k = 1
    BY <1>3
  <2>5. \A i \in 1..k : i \in 1..(k + 1) /\ i <= k
    BY <1>3
  <2> QED
    BY <2>1, <2>2, <2>3, <2>4, <2>5
<1>6. /\ At(more, B) \in Seq(S) /\ Len(At(more, B)) = k + 1
      /\ \A i \in 1..(k + 1) : At(more, B)[i] = more[Ascending(B)[i]]
  <2>1. /\ At(more, B) \in Seq(S) /\ Len(At(more, B)) = Len(Ascending(B))
        /\ \A i \in 1..Len(Ascending(B)) : At(more, B)[i] = more[Ascending(B)[i]]
    BY <1>1, <1>2, AtIs
  <2> QED
    BY <1>4, <1>5, <2>1
<1>7. /\ Append(seen, e) \in Seq(S) /\ Len(Append(seen, e)) = k + 1
      /\ Append(seen, e)[k + 1] = e /\ \A i \in 1..k : Append(seen, e)[i] = seen[i]
  BY <1>3, AppendProperties
<1>8. ASSUME NEW i \in 1..(k + 1) PROVE At(more, B)[i] = Append(seen, e)[i]
  <2>1. CASE i \in 1..k
    <3>1. a[i] \in 1..Len(list)
      BY <1>3, <2>1
    <3>2. At(more, B)[i] = more[a[i]]
      BY <1>4, <1>5, <1>6, <2>1
    <3> QED
      BY <1>1, <1>3, <1>7, <2>1, <3>1, <3>2
  <2>2. CASE i = k + 1
    BY <1>1, <1>4, <1>5, <1>6, <1>7, <2>2
  <2> QED
    BY <1>3, <2>1, <2>2
<1> QED
  BY <1>6, <1>7, <1>8, SeqEqual, ZenonT(40) DEF more, seen, n, B

-----------------------------------------------------------------------------
(* Induction, with a set in the place of a formula.                         *)

(* Any number of numbers has a least one, so that induction needs no more  *)
(* than a set.                                                             *)
LEMMA LeastOfAny ==
  ASSUME NEW S \in SUBSET Nat, S # {}
  PROVE  \E i \in S : \A j \in S : i <= j
<1>1. PICK k \in S : TRUE
  OBVIOUS
<1> DEFINE B == {m \in S : m <= k}
<1>2. B \in SUBSET (0..k) /\ B \in SUBSET Nat /\ k \in B
  <2>1. \A m \in S : m \in Nat
    OBVIOUS
  <2>2. \A m \in B : m \in Nat /\ m <= k
    BY <2>1
  <2>3. k \in Nat /\ k \in B
    BY <2>1
  <2> HIDE DEF B
  <2> QED
    BY <2>2, <2>3
<1>3. IsFiniteSet(B)
  <2>1. IsFiniteSet(0..k)
    BY FS_Interval, 0 \in Int, k \in Int
  <2> HIDE DEF B
  <2> QED
    BY <1>2, <2>1, FS_Subset
<1>4. PICK i \in B : \A j \in B : i <= j
  BY <1>2, <1>3, LeastNumber
<1>5. ASSUME NEW j \in S PROVE i <= j
  <2>1. i <= k /\ i \in Nat /\ j \in Nat /\ k \in Nat
    OBVIOUS
  <2>2. CASE j <= k
    BY <1>4, <2>2
  <2> QED
    BY <2>1, <2>2
<1> QED
  BY <1>5

LEMMA Induction ==
  ASSUME NEW S, NEW n \in Nat, 0 \in S, \A i \in 0..(n - 1) : i \in S => i + 1 \in S
  PROVE  \A i \in 0..n : i \in S
<1> SUFFICES ASSUME NEW k \in 0..n, k \notin S PROVE FALSE
  OBVIOUS
<1> DEFINE B == {m \in 0..n : m \notin S}
<1>1. B \in SUBSET Nat /\ B # {}
  OBVIOUS
<1>2. PICK i \in B : \A j \in B : i <= j
  BY <1>1, LeastOfAny
<1>3. i # 0 /\ i \in 0..n /\ i \notin S
  OBVIOUS
<1>4. i - 1 \in 0..(n - 1) /\ i - 1 \in 0..n /\ ~(i <= i - 1) /\ (i - 1) + 1 = i
  BY <1>3
<1>5. i - 1 \in S
  BY <1>2, <1>4
<1> QED
  BY <1>3, <1>4, <1>5

LEMMA StrongInduction ==
  ASSUME NEW S, \A n \in Nat : (\A m \in 0..(n - 1) : m \in S) => n \in S
  PROVE  \A n \in Nat : n \in S
<1> SUFFICES ASSUME NEW k \in Nat, k \notin S PROVE FALSE
  OBVIOUS
<1> DEFINE B == {m \in Nat : m \notin S}
<1>1. B \in SUBSET Nat /\ B # {}
  OBVIOUS
<1>2. PICK i \in B : \A j \in B : i <= j
  BY <1>1, LeastOfAny
<1>3. ASSUME NEW m \in 0..(i - 1) PROVE m \in S
  <2>1. m \in Nat /\ ~(i <= m)
    OBVIOUS
  <2> QED
    BY <1>2, <2>1
<1> QED
  BY <1>3

(* A recursion over the numbers up to n, as a recursive function.          *)
Recursion(f, n, base, step) ==
  f = [i \in 0..n |-> IF i = 0 THEN base ELSE step[<<i, f[i - 1]>>]]

LEMMA RecursionExists ==
  ASSUME NEW n \in Nat, NEW V, NEW base \in V, NEW step \in [(1..n) \X V -> V]
  PROVE  \E f \in [0..n -> V] : Recursion(f, n, base, step)
<1> DEFINE S == {k \in 0..n : \E f \in [0..k -> V] : Recursion(f, k, base, step)}
<1>1. 0 \in S
  <2> DEFINE f == [i \in 0..0 |-> base]
  <2>1. \A i \in 0..0 : i = 0 /\ f[i] = base
    OBVIOUS
  <2>2. f \in [0..0 -> V] /\ Recursion(f, 0, base, step)
    BY <2>1 DEF Recursion
  <2>3. 0 \in 0..n
    OBVIOUS
  <2> HIDE DEF f
  <2> QED
    BY <2>2, <2>3
<1>2. ASSUME NEW k \in 0..(n - 1), k \in S PROVE k + 1 \in S
  <2>1. PICK f \in [0..k -> V] : Recursion(f, k, base, step)
    BY <1>2
  <2> DEFINE h == [i \in 0..(k + 1) |-> IF i = k + 1 THEN step[<<k + 1, f[k]>>] ELSE f[i]]
  <2>2. /\ k \in Nat /\ k \in 0..k /\ k + 1 \in 1..n /\ k + 1 \in 0..n
        /\ \A i \in 0..(k + 1) : i # k + 1 => i \in 0..k
        /\ \A i \in 0..(k + 1) : i # 0 => i - 1 \in 0..(k + 1) /\ i - 1 # k + 1
        /\ (k + 1) - 1 = k /\ k + 1 # 0 /\ k \in 0..(k + 1) /\ k # k + 1
    OBVIOUS
  <2>3. ASSUME NEW i \in 0..(k + 1) PROVE h[i] \in V
    BY <2>2
  <2>4. ASSUME NEW i \in 0..(k + 1)
        PROVE  h[i] = IF i = 0 THEN base ELSE step[<<i, h[i - 1]>>]
    <3>1. CASE i = k + 1
      <4>1. h[i] = step[<<k + 1, f[k]>>] /\ h[k] = f[k]
        BY <2>2, <3>1
      <4> HIDE DEF h
      <4> QED
        BY <2>2, <3>1, <4>1
    <3>2. CASE i # k + 1
      <4>1. i \in 0..k /\ h[i] = f[i] /\ (i # 0 => h[i - 1] = f[i - 1])
        BY <2>2, <3>2
      <4>2. f[i] = IF i = 0 THEN base ELSE step[<<i, f[i - 1]>>]
        BY <2>1, <4>1 DEF Recursion
      <4> HIDE DEF h
      <4> QED
        BY <4>1, <4>2
    <3> QED
      BY <3>1, <3>2
  <2>5. h = [i \in 0..(k + 1) |-> h[i]]
    OBVIOUS
  <2> HIDE DEF h
  <2>6. h \in [0..(k + 1) -> V]
    BY <2>3, <2>5
  <2>7. Recursion(h, k + 1, base, step)
    BY <2>4, <2>5 DEF Recursion
  <2> QED
    BY <2>2, <2>6, <2>7
<1> HIDE DEF S
<1>3. n \in S
  <2>1. \A k \in 0..n : k \in S
    BY <1>1, <1>2, Induction
  <2> QED
    BY <2>1
<1> QED
  BY <1>3 DEF S

(* A loop that ends, as a recursive function.                              *)
Loop(f, D, Ended, next) == f = [s \in D |-> IF s \in Ended THEN s ELSE f[next[s]]]

LEMMA LoopExists ==
  ASSUME NEW D, NEW Ended \in SUBSET D, NEW next \in [D -> D], NEW size \in [D -> Nat],
         \A s \in D \ Ended : size[next[s]] < size[s]
  PROVE  \E f : Loop(f, D, Ended, next)
<1> DEFINE Body(f, s) == IF s \in Ended THEN s ELSE f[next[s]]
           Upto(n) == {f \in [D -> D] : \A s \in D : size[s] < n => f[s] = Body(f, s)}
           G == [n \in Nat |-> CHOOSE f : f \in Upto(n)]
           F == [s \in D |-> G[size[s] + 1][s]]
           E == {n \in Nat : Upto(n) # {}}
<1>1. ASSUME NEW n \in Nat PROVE Upto(n) # {}
  <2>1. 0 \in E
    <3>1. [s \in D |-> s] \in Upto(0)
      OBVIOUS
    <3> QED
      BY <3>1
  <2>2. ASSUME NEW k \in Nat, k \in E PROVE k + 1 \in E
    <3>1. PICK f \in [D -> D] : \A s \in D : size[s] < k => f[s] = Body(f, s)
      BY <2>2
    <3> DEFINE h == [s \in D |-> Body(f, s)]
    <3>2. h \in [D -> D]
      OBVIOUS
    <3>3. ASSUME NEW s \in D, size[s] < k + 1 PROVE h[s] = Body(h, s)
      <4>1. CASE s \in Ended
        BY <4>1
      <4>2. CASE s \notin Ended
        <5>1. next[s] \in D /\ size[next[s]] < size[s] /\ size[s] \in Nat /\ size[next[s]] \in Nat
          BY <4>2
        <5>2. size[next[s]] < k
          BY <3>3, <5>1
        <5>3. f[next[s]] = h[next[s]]
          BY <3>1, <5>1, <5>2
        <5> QED
          BY <4>2, <5>1, <5>3
      <4> QED
        BY <4>1, <4>2
    <3> HIDE DEF h
    <3>4. h \in Upto(k + 1)
      BY <3>2, <3>3
    <3> QED
      BY <3>4
  <2> HIDE DEF E
  <2>3. \A i \in 0..n : i \in E
    BY <2>1, <2>2, Induction
  <2>4. n \in E
    BY <2>3
  <2> QED
    BY <2>4 DEF E
<1>2. ASSUME NEW n \in Nat PROVE G[n] \in [D -> D] /\ \A s \in D : size[s] < n => G[n][s] = Body(G[n], s)
  <2>1. G[n] \in Upto(n)
    BY <1>1
  <2> HIDE DEF G
  <2> QED
    BY <2>1
<1> HIDE DEF G
<1>3. \A k \in Nat : \A m, n \in Nat, s \in D : size[s] = k /\ k < m /\ k < n => G[m][s] = G[n][s]
  <2> DEFINE S == {k \in Nat : \A m, n \in Nat, s \in D :
                      size[s] = k /\ k < m /\ k < n => G[m][s] = G[n][s]}
  <2>1. ASSUME NEW k \in Nat, \A i \in 0..(k - 1) : i \in S PROVE k \in S
    <3> SUFFICES ASSUME NEW m \in Nat, NEW n \in Nat, NEW s \in D, size[s] = k, k < m, k < n
                 PROVE  G[m][s] = G[n][s]
      OBVIOUS
    <3>1. G[m][s] = Body(G[m], s) /\ G[n][s] = Body(G[n], s)
      BY <1>2
    <3>2. CASE s \notin Ended
      <4>1. next[s] \in D /\ size[next[s]] \in Nat /\ size[next[s]] < k
        BY <3>2
      <4>2. size[next[s]] \in S /\ size[next[s]] < m /\ size[next[s]] < n
        BY <2>1, <4>1
      <4>3. G[m][next[s]] = G[n][next[s]]
        BY <4>1, <4>2
      <4> QED
        BY <3>1, <3>2, <4>3
    <3> QED
      BY <3>1, <3>2
  <2> HIDE DEF S
  <2>2. \A k \in Nat : k \in S
    BY <2>1, StrongInduction
  <2> QED
    BY <2>2 DEF S
<1>4. ASSUME NEW s \in D PROVE F[s] = Body(F, s)
  <2> DEFINE k == size[s]
  <2>1. k \in Nat /\ F[s] = G[k + 1][s]
    OBVIOUS
  <2>2. G[k + 1][s] = Body(G[k + 1], s)
    BY <1>2, <2>1
  <2>3. CASE s \notin Ended
    <3>1. next[s] \in D /\ size[next[s]] \in Nat /\ size[next[s]] < k
      BY <2>3
    <3>2. G[k + 1][next[s]] = G[size[next[s]] + 1][next[s]]
      BY <1>3, <2>1, <3>1
    <3>3. F[next[s]] = G[size[next[s]] + 1][next[s]]
      BY <3>1
    <3> QED
      BY <2>1, <2>2, <2>3, <3>2, <3>3
  <2> QED
    BY <2>1, <2>2, <2>3
<1>5. F = [s \in D |-> Body(F, s)]
  <2>1. F = [s \in D |-> F[s]]
    OBVIOUS
  <2> HIDE DEF F
  <2> QED
    BY <1>4, <2>1
<1> QED
  BY <1>5 DEF Loop

-----------------------------------------------------------------------------
(* Parts of a list.                                                        *)

LEMMA SubSeqIs ==
  ASSUME NEW A, NEW s \in Seq(A), NEW i \in Nat, NEW j \in Nat, i >= 1, i <= j + 1, j <= Len(s)
  PROVE  /\ SubSeq(s, i, j) \in Seq(A)
         /\ Len(SubSeq(s, i, j)) = j - i + 1
         /\ \A k \in 1..(j - i + 1) : SubSeq(s, i, j)[k] = s[k + i - 1]
<1>0. Len(s) \in Nat
  OBVIOUS
<1>1. CASE i <= j
  <2>1. i \in 1..(j + 1) /\ j \in i..Len(s) /\ i \in 1..(Len(s) + 1) /\ j \in (i - 1)..Len(s)
    BY <1>0, <1>1
  <2> QED
    BY <2>1, SubSeqProperties
<1>2. CASE i = j + 1
  <2>1. i \in 1..(Len(s) + 1) /\ j \in (i - 1)..Len(s)
    BY <1>0, <1>2
  <2> QED
    BY <2>1, SubSeqProperties
<1> QED
  BY <1>0, <1>1, <1>2

LEMMA PrefixOfPrefix ==
  ASSUME NEW A, NEW t \in Seq(A), NEW m \in 0..Len(t), NEW k \in 0..m
  PROVE  /\ SubSeq(t, 1, k) \in Seq(A) /\ Len(SubSeq(t, 1, k)) = k
         /\ \A i \in 1..k : SubSeq(t, 1, k)[i] = t[i]
         /\ SubSeq(SubSeq(t, 1, m), 1, k) = SubSeq(t, 1, k)
<1>0. Len(t) \in Nat /\ m \in Nat /\ k \in Nat /\ k <= m /\ m <= Len(t) /\ k <= Len(t)
      /\ k - 1 + 1 = k /\ m - 1 + 1 = m /\ 1 <= k + 1 /\ 1 <= m + 1 /\ 1 \in Nat /\ 1 >= 1
      /\ (\A i \in 1..k : i + 1 - 1 = i /\ i \in 1..m) /\ (\A i \in 1..m : i + 1 - 1 = i)
  OBVIOUS
<1> DEFINE v == SubSeq(t, 1, k)
           w == SubSeq(t, 1, m)
           u == SubSeq(w, 1, k)
<1>1. v \in Seq(A) /\ Len(v) = k /\ \A i \in 1..k : v[i] = t[i]
  BY <1>0, SubSeqIs
<1>2. w \in Seq(A) /\ Len(w) = m /\ \A i \in 1..m : w[i] = t[i]
  BY <1>0, SubSeqIs
<1> HIDE DEF v, w
<1>3. u \in Seq(A) /\ Len(u) = k /\ \A i \in 1..k : u[i] = w[i]
  BY <1>0, <1>2, SubSeqIs
<1> HIDE DEF u
<1>4. \A i \in 1..k : u[i] = v[i]
  BY <1>0, <1>1, <1>2, <1>3
<1>5. u = v
  BY <1>1, <1>3, <1>4, SeqEqual
<1> QED
  BY <1>1, <1>5 DEF u, v, w

LEMMA PrefixGrows ==
  ASSUME NEW A, NEW t \in Seq(A), NEW k \in Nat, k < Len(t)
  PROVE  Append(SubSeq(t, 1, k), t[k + 1]) = SubSeq(t, 1, k + 1)
<1> DEFINE p == SubSeq(t, 1, k)
           q == Append(p, t[k + 1])
           w == SubSeq(t, 1, k + 1)
<1>0. k + 1 \in 1..Len(t) /\ t[k + 1] \in A /\ k + 1 \in Nat /\ Len(t) \in Nat
  OBVIOUS
<1>1. p \in Seq(A) /\ Len(p) = k /\ \A i \in 1..k : p[i] = t[i]
  <2>1. k - 1 + 1 = k /\ \A i \in 1..k : i + 1 - 1 = i
    OBVIOUS
  <2> QED
    BY <1>0, <2>1, SubSeqIs
<1>2. w \in Seq(A) /\ Len(w) = k + 1 /\ \A i \in 1..(k + 1) : w[i] = t[i]
  <2>1. (k + 1) - 1 + 1 = k + 1 /\ \A i \in 1..(k + 1) : i + 1 - 1 = i
    OBVIOUS
  <2> QED
    BY <1>0, <2>1, SubSeqIs
<1> HIDE DEF p, w
<1>3. q \in Seq(A) /\ Len(q) = k + 1 /\ q[k + 1] = t[k + 1] /\ \A i \in 1..k : q[i] = t[i]
  BY <1>0, <1>1, AppendProperties
<1> HIDE DEF q
<1>4. \A i \in 1..(k + 1) : i \in 1..k \/ i = k + 1
  OBVIOUS
<1>5. q = w
  BY <1>0, <1>2, <1>3, <1>4, SeqEqual
<1> QED
  BY <1>5 DEF q, w, p

LEMMA SuffixIs ==
  ASSUME NEW A, NEW s \in Seq(A), NEW t \in Seq(A)
  PROVE  IsSuffix(s, t) <=>
           Len(s) <= Len(t) /\ \A i \in 1..Len(s) : s[i] = t[Len(t) - Len(s) + i]
<1> DEFINE u == Reverse(s)
           v == Reverse(t)
           m == Len(s)
           n == Len(t)
<1>1. m \in Nat /\ n \in Nat
  OBVIOUS
<1>2. /\ u \in Seq(A) /\ Len(u) = m /\ \A i \in 1..m : u[i] = s[(m - i) + 1]
      /\ v \in Seq(A) /\ Len(v) = n /\ \A i \in 1..n : v[i] = t[(n - i) + 1]
  <2>1. \A i \in 1..m : (m - i) + 1 \in 1..m
    BY <1>1
  <2>2. \A i \in 1..n : (n - i) + 1 \in 1..n
    BY <1>1
  <2>3. u \in [1..m -> A] /\ v \in [1..n -> A]
    BY <2>1, <2>2 DEF Reverse
  <2>4. /\ \A i \in 1..m : u[i] = s[(m - i) + 1]
        /\ \A i \in 1..n : v[i] = t[(n - i) + 1]
    BY DEF Reverse
  <2> HIDE DEF u, v, m, n
  <2>5. u \in Seq(A) /\ v \in Seq(A)
    BY <1>1, <2>3, SeqDef
  <2>6. Len(u) = m /\ Len(v) = n
    BY <1>1, <2>3, <2>5, LenProperties
  <2> QED
    BY <2>4, <2>5, <2>6
<1> HIDE DEF u, v
<1>3. CASE m <= n
  <2>1. /\ SubSeq(u, 1, m) \in Seq(A) /\ Len(SubSeq(u, 1, m)) = m
        /\ \A i \in 1..m : SubSeq(u, 1, m)[i] = u[i]
        /\ SubSeq(v, 1, m) \in Seq(A) /\ Len(SubSeq(v, 1, m)) = m
        /\ \A i \in 1..m : SubSeq(v, 1, m)[i] = v[i]
    <3> HIDE DEF m, n
    <3> QED
      BY <1>1, <1>2, <1>3, SubSeqProperties
  <2>2. SubSeq(u, 1, m) = SubSeq(v, 1, m) <=> \A i \in 1..m : u[i] = v[i]
    <3> HIDE DEF m, n
    <3>1. ASSUME \A i \in 1..m : u[i] = v[i]
          PROVE  SubSeq(u, 1, m) = SubSeq(v, 1, m)
      BY <2>1, <3>1, SeqEqual
    <3>2. ASSUME SubSeq(u, 1, m) = SubSeq(v, 1, m)
          PROVE  \A i \in 1..m : u[i] = v[i]
      BY <2>1, <3>2
    <3> QED
      BY <3>1, <3>2
  <2>3. IsSuffix(s, t) <=> \A i \in 1..m : u[i] = v[i]
    BY <1>2, <1>3, <2>2 DEF IsSuffix, IsPrefix, u, v
  <2>4. ASSUME \A i \in 1..m : u[i] = v[i], NEW i \in 1..m PROVE s[i] = t[n - m + i]
    <3>1. /\ (m - i) + 1 \in 1..m /\ (m - ((m - i) + 1)) + 1 = i
          /\ (n - ((m - i) + 1)) + 1 = n - m + i /\ (m - i) + 1 \in 1..n
      BY <1>1, <1>3
    <3> HIDE DEF m, n
    <3> QED
      BY <1>2, <2>4, <3>1, SMTT(30)
  <2>5. ASSUME \A i \in 1..m : s[i] = t[n - m + i], NEW i \in 1..m PROVE u[i] = v[i]
    <3>1. (m - i) + 1 \in 1..m /\ n - m + ((m - i) + 1) = (n - i) + 1 /\ i \in 1..n
      BY <1>1, <1>3
    <3>2. s[(m - i) + 1] = t[n - m + ((m - i) + 1)]
      BY <2>5, <3>1
    <3> HIDE DEF m, n
    <3> QED
      BY <1>2, <3>1, <3>2
  <2> QED
    BY <1>3, <2>3, <2>4, <2>5
<1>4. CASE ~(m <= n)
  BY <1>2, <1>4 DEF IsSuffix, IsPrefix, u, v
<1> QED
  BY <1>3, <1>4

-----------------------------------------------------------------------------
(* Blank lines, character by character.                                    *)

(* A blank line ends at place k; its first \n is at Core, its start before *)
(* that if a \r is there.                                                  *)
EndsAt(t, k) ==
  /\ k \in 2..Len(t) /\ t[k] = "n"
  /\ t[k - 1] = "n" \/ (k > 2 /\ t[k - 1] = "r" /\ t[k - 2] = "n")

Core(t, k) == IF t[k - 1] = "n" THEN k - 1 ELSE k - 2

StartOf(t, k) ==
  IF Core(t, k) > 1 /\ t[Core(t, k) - 1] = "r" THEN Core(t, k) - 1 ELSE Core(t, k)

LEMMA BlankLineIs ==
  ASSUME NEW A, NEW s \in Seq(A)
  PROVE  s \in BlankLines <=>
           \/ Len(s) = 2 /\ s[1] = "n" /\ s[2] = "n"
           \/ Len(s) = 3 /\ s[1] = "r" /\ s[2] = "n" /\ s[3] = "n"
           \/ Len(s) = 3 /\ s[1] = "n" /\ s[2] = "r" /\ s[3] = "n"
           \/ Len(s) = 4 /\ s[1] = "r" /\ s[2] = "n" /\ s[3] = "r" /\ s[4] = "n"
<1>1. /\ Len(s) = 2 => s = <<s[1], s[2]>>
      /\ Len(s) = 3 => s = <<s[1], s[2], s[3]>>
      /\ Len(s) = 4 => s = <<s[1], s[2], s[3], s[4]>>
  OBVIOUS
<1> QED
  BY <1>1 DEF BlankLines

LEMMA MatchIs ==
  ASSUME NEW A, NEW t \in Seq(A), NEW i \in 1..Len(t), NEW len \in 2..4
  PROVE  MatchAt(t, i, len) <=>
           \/ len = 2 /\ i + 1 <= Len(t) /\ t[i] = "n" /\ t[i + 1] = "n"
           \/ len = 3 /\ i + 2 <= Len(t) /\ t[i] = "r" /\ t[i + 1] = "n" /\ t[i + 2] = "n"
           \/ len = 3 /\ i + 2 <= Len(t) /\ t[i] = "n" /\ t[i + 1] = "r" /\ t[i + 2] = "n"
           \/ /\ len = 4 /\ i + 3 <= Len(t)
              /\ t[i] = "r" /\ t[i + 1] = "n" /\ t[i + 2] = "r" /\ t[i + 3] = "n"
<1> DEFINE s == SubSeq(t, i, i + len - 1)
<1>1. CASE i + len - 1 <= Len(t)
  <2>1. /\ s \in Seq(A) /\ Len(s) = len
        /\ \A j \in 1..len : s[j] = t[i + j - 1]
    BY <1>1, SubSeqProperties
  <2> HIDE DEF s
  <2>2. MatchAt(t, i, len) <=> s \in BlankLines
    BY <1>1 DEF MatchAt, s
  <2>3. CASE len = 2
    <3>1. s[1] = t[i] /\ s[2] = t[i + 1] /\ Len(s) = 2
      BY <2>1, <2>3
    <3> QED
      BY <1>1, <2>1, <2>2, <2>3, <3>1, BlankLineIs
  <2>4. CASE len = 3
    <3>1. s[1] = t[i] /\ s[2] = t[i + 1] /\ s[3] = t[i + 2] /\ Len(s) = 3
      BY <2>1, <2>4
    <3> QED
      BY <1>1, <2>1, <2>2, <2>4, <3>1, BlankLineIs
  <2>5. CASE len = 4
    <3>1. s[1] = t[i] /\ s[2] = t[i + 1] /\ s[3] = t[i + 2] /\ s[4] = t[i + 3] /\ Len(s) = 4
      BY <2>1, <2>5
    <3>2. i + 3 <= Len(t)
      BY <1>1, <2>5
    <3>3. s \in BlankLines <=> s[1] = "r" /\ s[2] = "n" /\ s[3] = "r" /\ s[4] = "n"
      <4>1. s \in Seq(A) /\ Len(s) = 4
        BY <2>1, <3>1
      <4> QED
        BY ONLY <4>1, BlankLineIs
    <3> QED
      BY <2>2, <2>5, <3>1, <3>2, <3>3
  <2> QED
    BY <2>3, <2>4, <2>5
<1>2. CASE ~(i + len - 1 <= Len(t))
  <2>1. ~MatchAt(t, i, len)
    BY <1>2 DEF MatchAt
  <2> QED
    BY <1>2, <2>1
<1> QED
  BY <1>1, <1>2

LEMMA BoundaryEnds ==
  ASSUME NEW A, NEW t \in Seq(A), NEW b \in Boundaries(t)
  PROVE  /\ b[1] \in 1..Len(t) /\ b[2] \in 2..4
         /\ EndsAt(t, b[1] + b[2] - 1)
         /\ b[1] \in StartOf(t, b[1] + b[2] - 1)..Core(t, b[1] + b[2] - 1)
<1>1. /\ b[1] \in 1..Len(t) /\ b[2] \in 2..4 /\ MatchAt(t, b[1], b[2])
  BY DEF Boundaries
<1> DEFINE i == b[1]
           len == b[2]
<1>2. \/ len = 2 /\ i + 1 <= Len(t) /\ t[i] = "n" /\ t[i + 1] = "n"
      \/ len = 3 /\ i + 2 <= Len(t) /\ t[i] = "r" /\ t[i + 1] = "n" /\ t[i + 2] = "n"
      \/ len = 3 /\ i + 2 <= Len(t) /\ t[i] = "n" /\ t[i + 1] = "r" /\ t[i + 2] = "n"
      \/ /\ len = 4 /\ i + 3 <= Len(t)
         /\ t[i] = "r" /\ t[i + 1] = "n" /\ t[i + 2] = "r" /\ t[i + 3] = "n"
  BY <1>1, MatchIs, SMTT(30)
<1>3. i \in Nat /\ Len(t) \in Nat
  BY <1>1
<1> HIDE DEF i, len
<1>4. ASSUME len = 2, i + 1 <= Len(t), t[i] = "n", t[i + 1] = "n", i >= 1
      PROVE  EndsAt(t, i + len - 1) /\ i \in StartOf(t, i + len - 1)..Core(t, i + len - 1)
  BY <1>3, <1>4 DEF EndsAt, StartOf, Core
<1>5. ASSUME len = 3, i + 2 <= Len(t), t[i + 2] = "n", i >= 1,
             (t[i] = "r" /\ t[i + 1] = "n") \/ (t[i] = "n" /\ t[i + 1] = "r")
      PROVE  EndsAt(t, i + len - 1) /\ i \in StartOf(t, i + len - 1)..Core(t, i + len - 1)
  <2>1. i + len - 1 = i + 2 /\ (i + 2) - 1 = i + 1 /\ (i + 2) - 2 = i /\ (i + 1) - 1 = i
    BY <1>3, <1>5
  <2> QED
    BY <1>3, <1>5, <2>1 DEF EndsAt, StartOf, Core
<1>6. ASSUME len = 4, i + 3 <= Len(t), i >= 1,
             t[i] = "r", t[i + 1] = "n", t[i + 2] = "r", t[i + 3] = "n"
      PROVE  EndsAt(t, i + len - 1) /\ i \in StartOf(t, i + len - 1)..Core(t, i + len - 1)
  <2>1. i + len - 1 = i + 3 /\ (i + 3) - 1 = i + 2 /\ (i + 3) - 2 = i + 1 /\ (i + 1) - 1 = i
    BY <1>3, <1>6
  <2> QED
    BY <1>3, <1>6, <2>1 DEF EndsAt, StartOf, Core
<1>7. i >= 1
  BY <1>1 DEF i
<1> QED
  BY <1>1, <1>2, <1>4, <1>5, <1>6, <1>7 DEF i, len

LEMMA EndIsBoundary ==
  ASSUME NEW A, NEW t \in Seq(A), NEW k, EndsAt(t, k)
  PROVE  /\ k \in 2..Len(t) /\ StartOf(t, k) \in 1..(k - 1) /\ k - StartOf(t, k) + 1 \in 2..4
         /\ <<StartOf(t, k), k - StartOf(t, k) + 1>> \in Boundaries(t)
<1> DEFINE i == StartOf(t, k)
           len == k - i + 1
<1>0. k \in 2..Len(t) /\ Len(t) \in Nat
  BY DEF EndsAt
<1>1. \/ i = k - 1 /\ t[i] = "n" /\ t[i + 1] = "n"
      \/ i = k - 2 /\ t[i] = "r" /\ t[i + 1] = "n" /\ t[i + 2] = "n"
      \/ i = k - 2 /\ t[i] = "n" /\ t[i + 1] = "r" /\ t[i + 2] = "n"
      \/ i = k - 3 /\ t[i] = "r" /\ t[i + 1] = "n" /\ t[i + 2] = "r" /\ t[i + 3] = "n"
  <2>1. CASE t[k - 1] = "n"
    <3>1. Core(t, k) = k - 1 /\ t[k - 1] = "n" /\ t[k] = "n"
      BY <2>1 DEF Core, EndsAt
    <3>2. (k - 1) + 1 = k /\ (k - 1) - 1 = k - 2 /\ (k - 2) + 1 = k - 1 /\ (k - 2) + 2 = k
      BY <1>0
    <3> QED
      BY <3>1, <3>2 DEF StartOf
  <2>2. CASE t[k - 1] # "n"
    <3>1. Core(t, k) = k - 2 /\ t[k - 2] = "n" /\ t[k - 1] = "r" /\ t[k] = "n"
      BY <2>2 DEF Core, EndsAt
    <3>2. /\ (k - 2) + 1 = k - 1 /\ (k - 2) + 2 = k /\ (k - 2) - 1 = k - 3
          /\ (k - 3) + 1 = k - 2 /\ (k - 3) + 2 = k - 1 /\ (k - 3) + 3 = k
      BY <1>0
    <3> QED
      BY <3>1, <3>2 DEF StartOf
  <2> QED
    BY <2>1, <2>2
<1>2. i \in 1..(k - 1) /\ i \in 1..Len(t) /\ len \in 2..4
  <2>1. Core(t, k) \in 1..(k - 1) /\ Core(t, k) >= k - 2
    BY <1>0 DEF Core, EndsAt
  <2>2. i \in 1..(k - 1) /\ i >= k - 3
    BY <1>0, <2>1 DEF StartOf
  <2> HIDE DEF i
  <2> QED
    BY <1>0, <2>2
<1> HIDE DEF i
<1>3. MatchAt(t, i, len)
  <2>1. /\ i = k - 1 => len = 2 /\ i + 1 <= Len(t)
        /\ i = k - 2 => len = 3 /\ i + 2 <= Len(t)
        /\ i = k - 3 => len = 4 /\ i + 3 <= Len(t)
    BY <1>0, <1>2
  <2>2. i \in 1..Len(t) /\ len \in 2..4
    BY <1>2
  <2>3. \/ len = 2 /\ i + 1 <= Len(t) /\ t[i] = "n" /\ t[i + 1] = "n"
        \/ len = 3 /\ i + 2 <= Len(t) /\ t[i] = "r" /\ t[i + 1] = "n" /\ t[i + 2] = "n"
        \/ len = 3 /\ i + 2 <= Len(t) /\ t[i] = "n" /\ t[i + 1] = "r" /\ t[i + 2] = "n"
        \/ /\ len = 4 /\ i + 3 <= Len(t)
           /\ t[i] = "r" /\ t[i + 1] = "n" /\ t[i + 2] = "r" /\ t[i + 3] = "n"
    <3> HIDE DEF len
    <3> QED
      BY <1>1, <2>1
  <2> HIDE DEF len
  <2> QED
    BY <2>2, <2>3, MatchIs
<1> QED
  BY <1>0, <1>2, <1>3 DEF Boundaries, i

(* The match that exec() finds is the blank line that ends first.          *)
LEMMA LeftmostIs ==
  ASSUME NEW A, NEW t \in Seq(A), Boundaries(t) # {}
  PROVE  LET b == Leftmost(t)
             k == b[1] + b[2] - 1
         IN /\ b \in Boundaries(t) /\ b[1] \in 1..Len(t) /\ b[2] \in 2..4 /\ k \in 2..Len(t)
            /\ EndsAt(t, k) /\ b[1] = StartOf(t, k)
            /\ \A j \in 1..(k - 1) : ~EndsAt(t, j)
<1> DEFINE b == Leftmost(t)
           k == b[1] + b[2] - 1
<1>1. b \in Boundaries(t) /\ \A c \in Boundaries(t) : b[1] <= c[1]
  <2> DEFINE S == {c[1] : c \in Boundaries(t)}
  <2>1. S \in SUBSET Nat /\ S # {}
    BY DEF Boundaries
  <2>2. PICK i \in S : \A j \in S : i <= j
    BY <2>1, LeastOfAny
  <2>3. PICK c \in Boundaries(t) : c[1] = i
    BY <2>2
  <2>4. \A d \in Boundaries(t) : c[1] <= d[1]
    BY <2>2, <2>3
  <2> QED
    BY <2>4 DEF Leftmost
<1> HIDE DEF b
<1>2. b[1] \in 1..Len(t) /\ b[2] \in 2..4 /\ EndsAt(t, k) /\ b[1] \in StartOf(t, k)..Core(t, k)
  BY <1>1, BoundaryEnds
<1>3. b[1] = StartOf(t, k)
  <2>1. /\ StartOf(t, k) \in 1..(k - 1)
        /\ <<StartOf(t, k), k - StartOf(t, k) + 1>> \in Boundaries(t)
    BY <1>2, EndIsBoundary
  <2>2. b[1] <= <<StartOf(t, k), k - StartOf(t, k) + 1>>[1]
    BY <1>1, <2>1
  <2> QED
    BY <1>2, <2>1, <2>2
<1>4. k \in 2..Len(t)
  BY <1>2 DEF EndsAt
<1>5. ASSUME NEW j \in 1..(k - 1), EndsAt(t, j) PROVE FALSE
  <2> DEFINE a == StartOf(t, j)
  <2>1. a \in 1..(j - 1) /\ <<a, j - a + 1>> \in Boundaries(t) /\ j \in 2..Len(t)
    BY <1>5, EndIsBoundary
  <2>2. b[1] <= <<a, j - a + 1>>[1]
    BY <1>1, <2>1
  <2>3. b[1] <= a /\ a < j /\ j < k
    BY <1>4, <2>1, <2>2
  <2> HIDE DEF a
  <2>4. b[1] >= k - 3 /\ b[1] \in Nat /\ k \in Nat /\ j \in Nat
    BY <1>2, <1>4
  <2>5. j = k - 1 \/ j = k - 2
    BY <2>1, <2>3, <2>4
  <2>6. CASE j = k - 2
    <3>1. b[1] = k - 3
      BY <2>1, <2>3, <2>4, <2>6, SMTT(30)
    <3>2. Core(t, k) = k - 2 /\ t[k - 3] = "r"
      BY <1>3, <1>4, <3>1 DEF Core, StartOf
    <3>3. (k - 2) - 1 = k - 3 /\ (k - 2) - 2 = k - 4
      BY <1>4
    <3>4. k - 2 > 2 /\ t[k - 4] = "n" /\ t[k - 2] = "n"
      BY <1>5, <2>6, <3>2, <3>3 DEF EndsAt
    <3>5. a <= k - 4
      <4>1. Core(t, j) = k - 4
        BY <1>4, <2>6, <3>2, <3>3 DEF Core
      <4> QED
        BY <1>4, <4>1 DEF a, StartOf
    <3> QED
      BY <1>4, <2>1, <2>3, <3>1, <3>5
  <2>7. CASE j = k - 1
    <3>1. t[k - 1] = "n" /\ t[k] = "n"
      BY <1>2, <1>5, <2>7 DEF EndsAt
    <3>2. Core(t, k) = k - 1 /\ b[1] >= k - 2
      BY <1>3, <1>4, <3>1 DEF Core, StartOf
    <3>3. (k - 1) - 1 = k - 2 /\ (k - 1) - 2 = k - 3
      BY <1>4
    <3>4. a = k - 2 /\ b[1] = k - 2
      <4>1. a \in Nat /\ b[1] \in Nat /\ k \in Nat /\ b[1] <= a /\ a < j /\ j = k - 1 /\ b[1] >= k - 2
        BY <2>1, <2>3, <2>4, <2>7, <3>2
      <4> QED
        BY <4>1
    <3>5. t[k - 2] = "r"
      BY <1>3, <1>4, <3>2, <3>3, <3>4 DEF StartOf
    <3>6. Core(t, j) = k - 3
      BY <2>7, <3>3, <3>5 DEF Core
    <3> QED
      BY <1>4, <3>4, <3>6 DEF a, StartOf
  <2> QED
    BY <2>5, <2>6, <2>7
<1> QED
  BY <1>1, <1>2, <1>3, <1>4, <1>5 DEF b

Clean(t) == \A k \in 1..Len(t) : ~EndsAt(t, k)

LEMMA EndsInPrefix ==
  ASSUME NEW A, NEW t \in Seq(A), NEW m \in 0..Len(t), NEW k \in 1..m
  PROVE  /\ EndsAt(SubSeq(t, 1, m), k) <=> EndsAt(t, k)
         /\ EndsAt(t, k) => StartOf(SubSeq(t, 1, m), k) = StartOf(t, k)
<1> DEFINE p == SubSeq(t, 1, m)
<1>1. p \in Seq(A) /\ Len(p) = m /\ \A i \in 1..m : p[i] = t[i]
  BY SubSeqProperties
<1> HIDE DEF p
<1>2. m \in Nat /\ k \in Nat /\ m <= Len(t) /\ Len(t) \in Nat
  OBVIOUS
<1>3. EndsAt(p, k) <=> EndsAt(t, k)
  BY <1>1, <1>2 DEF EndsAt
<1>4. ASSUME EndsAt(t, k) PROVE StartOf(p, k) = StartOf(t, k)
  <2>1. p[k - 1] = t[k - 1] /\ Core(t, k) \in 1..m
    BY <1>1, <1>2, <1>4 DEF EndsAt, Core
  <2>2. Core(p, k) = Core(t, k)
    BY <2>1 DEF Core
  <2>3. Core(t, k) > 1 => p[Core(t, k) - 1] = t[Core(t, k) - 1]
    BY <1>1, <1>2, <2>1
  <2> QED
    BY <2>2, <2>3 DEF StartOf
<1> QED
  BY <1>3, <1>4 DEF p

LEMMA NoBoundaryIsClean ==
  ASSUME NEW A, NEW t \in Seq(A)
  PROVE  Boundaries(t) = {} <=> Clean(t)
<1>1. ASSUME Boundaries(t) = {} PROVE Clean(t)
  BY <1>1, EndIsBoundary DEF Clean
<1>2. ASSUME Clean(t), NEW b \in Boundaries(t) PROVE FALSE
  <2>1. EndsAt(t, b[1] + b[2] - 1)
    BY BoundaryEnds
  <2>2. b[1] + b[2] - 1 \in 1..Len(t)
    BY <2>1 DEF EndsAt
  <2> QED
    BY <1>2, <2>1, <2>2 DEF Clean
<1> QED
  BY <1>1, <1>2

=============================================================================
