--------------------------- MODULE ObserverProofs ---------------------------
(***************************************************************************)
(* Proofs about the stream observer, for every body, every way it is cut   *)
(* into chunks and every limit of an event.                                *)
(***************************************************************************)
EXTENDS Observer, DataProofs

-----------------------------------------------------------------------------
(* The reader of a whole text, one character after the other.              *)

Readers == [rest : Seq(Chars), events : Seq(Seq(Chars))]

LEMMA LinesAre ==
  /\ <<"n", "n">> \in Seq(Chars) /\ <<"r", "n", "n">> \in Seq(Chars)
  /\ <<"n", "r", "n">> \in Seq(Chars) /\ <<"r", "n", "r", "n">> \in Seq(Chars)
  /\ Len(<<"n", "n">>) = 2 /\ Len(<<"r", "n", "n">>) = 3
  /\ Len(<<"n", "r", "n">>) = 3 /\ Len(<<"r", "n", "r", "n">>) = 4
BY DEF Chars

LEMMA LinesInOrder ==
  ASSUME NEW l \in BlankLines
  PROVE  /\ Len(l) <= 4
         /\ l # <<"r", "n", "r", "n">> => Len(l) <= 3
         /\ l \notin {<<"r", "n", "r", "n">>, <<"r", "n", "n">>, <<"n", "r", "n">>} => Len(l) <= 2
<1>1. \/ l = <<"n", "n">> \/ l = <<"r", "n", "n">> \/ l = <<"n", "r", "n">>
      \/ l = <<"r", "n", "r", "n">>
  BY DEF BlankLines
<1>2. /\ Len(<<"n", "n">>) <= 2 /\ Len(<<"r", "n", "n">>) <= 3
      /\ Len(<<"n", "r", "n">>) <= 3 /\ Len(<<"r", "n", "r", "n">>) <= 4
  OBVIOUS
<1>3. \A k : (k = 2 => k <= 3) /\ (k = 2 \/ k = 3 => k <= 4)
  OBVIOUS
<1> QED
  BY <1>1, <1>2, <1>3, LinesAre, Zenon

(* What the reader looks for is where the pattern ends.                    *)
LEMMA EndsEventIs ==
  ASSUME NEW t \in Seq(Chars)
  PROVE  /\ EndsEvent(t) <=> EndsAt(t, Len(t))
         /\ EndsEvent(t) => WithoutBlankLine(t) = SubSeq(t, 1, StartOf(t, Len(t)) - 1)
<1> DEFINE n == Len(t)
<1>0. n \in Nat
  OBVIOUS
<1>1. IsSuffix(<<"n", "n">>, t) <=> n >= 2 /\ t[n - 1] = "n" /\ t[n] = "n"
  <2> DEFINE l == <<"n", "n">>
  <2>1. l \in Seq(Chars) /\ Len(l) = 2 /\ l[1] = "n" /\ l[2] = "n"
    BY LinesAre
  <2> HIDE DEF l
  <2>2. n - 2 + 1 = n - 1 /\ n - 2 + 2 = n /\ \A i \in 1..2 : i = 1 \/ i = 2
    OBVIOUS
  <2>3. IsSuffix(l, t) <=> 2 <= n /\ \A i \in 1..2 : l[i] = t[n - 2 + i]
    <3>1. IsSuffix(l, t) <=> Len(l) <= Len(t) /\ \A i \in 1..Len(l) : l[i] = t[Len(t) - Len(l) + i]
      BY <2>1, SuffixIs
    <3> QED
      BY <2>1, <3>1
  <2> HIDE DEF n
  <2> QED
    BY <1>0, <2>1, <2>2, <2>3 DEF l
<1>2. IsSuffix(<<"r", "n", "n">>, t) <=> n >= 3 /\ t[n - 2] = "r" /\ t[n - 1] = "n" /\ t[n] = "n"
  <2> DEFINE l == <<"r", "n", "n">>
  <2>1. l \in Seq(Chars) /\ Len(l) = 3 /\ l[1] = "r" /\ l[2] = "n" /\ l[3] = "n"
    BY LinesAre
  <2> HIDE DEF l
  <2>2. n - 3 + 1 = n - 2 /\ n - 3 + 2 = n - 1 /\ n - 3 + 3 = n /\ \A i \in 1..3 : i = 1 \/ i = 2 \/ i = 3
    OBVIOUS
  <2>3. IsSuffix(l, t) <=> 3 <= n /\ \A i \in 1..3 : l[i] = t[n - 3 + i]
    <3>1. IsSuffix(l, t) <=> Len(l) <= Len(t) /\ \A i \in 1..Len(l) : l[i] = t[Len(t) - Len(l) + i]
      BY <2>1, SuffixIs
    <3> QED
      BY <2>1, <3>1
  <2> HIDE DEF n
  <2> QED
    BY <1>0, <2>1, <2>2, <2>3 DEF l
<1>3. IsSuffix(<<"n", "r", "n">>, t) <=> n >= 3 /\ t[n - 2] = "n" /\ t[n - 1] = "r" /\ t[n] = "n"
  <2> DEFINE l == <<"n", "r", "n">>
  <2>1. l \in Seq(Chars) /\ Len(l) = 3 /\ l[1] = "n" /\ l[2] = "r" /\ l[3] = "n"
    BY LinesAre
  <2> HIDE DEF l
  <2>2. n - 3 + 1 = n - 2 /\ n - 3 + 2 = n - 1 /\ n - 3 + 3 = n /\ \A i \in 1..3 : i = 1 \/ i = 2 \/ i = 3
    OBVIOUS
  <2>3. IsSuffix(l, t) <=> 3 <= n /\ \A i \in 1..3 : l[i] = t[n - 3 + i]
    <3>1. IsSuffix(l, t) <=> Len(l) <= Len(t) /\ \A i \in 1..Len(l) : l[i] = t[Len(t) - Len(l) + i]
      BY <2>1, SuffixIs
    <3> QED
      BY <2>1, <3>1
  <2> HIDE DEF n
  <2> QED
    BY <1>0, <2>1, <2>2, <2>3 DEF l
<1>4. IsSuffix(<<"r", "n", "r", "n">>, t) <=>
        n >= 4 /\ t[n - 3] = "r" /\ t[n - 2] = "n" /\ t[n - 1] = "r" /\ t[n] = "n"
  <2> DEFINE l == <<"r", "n", "r", "n">>
  <2>1. l \in Seq(Chars) /\ Len(l) = 4 /\ l[1] = "r" /\ l[2] = "n" /\ l[3] = "r" /\ l[4] = "n"
    BY LinesAre
  <2> HIDE DEF l
  <2>2. /\ n - 4 + 1 = n - 3 /\ n - 4 + 2 = n - 2 /\ n - 4 + 3 = n - 1 /\ n - 4 + 4 = n
        /\ \A i \in 1..4 : i = 1 \/ i = 2 \/ i = 3 \/ i = 4
    OBVIOUS
  <2>3. IsSuffix(l, t) <=> 4 <= n /\ \A i \in 1..4 : l[i] = t[n - 4 + i]
    <3>1. IsSuffix(l, t) <=> Len(l) <= Len(t) /\ \A i \in 1..Len(l) : l[i] = t[Len(t) - Len(l) + i]
      BY <2>1, SuffixIs
    <3> QED
      BY <2>1, <3>1
  <2> HIDE DEF n
  <2> QED
    BY <1>0, <2>1, <2>2, <2>3 DEF l
<1> DEFINE S == {l \in BlankLines : IsSuffix(l, t)}
           k == n - StartOf(t, n) + 1
           Longest(l) == IsSuffix(l, t) /\ \A m \in BlankLines : IsSuffix(m, t) => Len(m) <= Len(l)
<1>5. EndsEvent(t) <=> EndsAt(t, n)
  <2>1. EndsEvent(t) <=> \/ IsSuffix(<<"n", "n">>, t) \/ IsSuffix(<<"r", "n", "n">>, t)
                         \/ IsSuffix(<<"n", "r", "n">>, t) \/ IsSuffix(<<"r", "n", "r", "n">>, t)
    BY DEF EndsEvent, BlankLines
  <2>2. EndsAt(t, n) <=> /\ n >= 2 /\ t[n] = "n"
                         /\ t[n - 1] = "n" \/ (n >= 3 /\ t[n - 1] = "r" /\ t[n - 2] = "n")
    BY <1>0 DEF EndsAt
  <2> HIDE DEF n
  <2> QED
    BY <1>0, <1>1, <1>2, <1>3, <1>4, <2>1, <2>2
<1>6. ASSUME EndsEvent(t) PROVE \E l \in BlankLines : Longest(l) /\ Len(l) = k
  <2>1. EndsAt(t, n)
    BY <1>5, <1>6
  <2>2. n >= 2 /\ t[n] = "n" /\ (n - 1) - 1 = n - 2 /\ (n - 2) - 1 = n - 3
    BY <1>0, <2>1 DEF EndsAt
  <2> HIDE DEF n
  <2>3. CASE t[n - 1] = "n" /\ n >= 3 /\ t[n - 2] = "r"
    <3>1. k = 3
      BY <1>0, <2>2, <2>3 DEF StartOf, Core
    <3>2. ~IsSuffix(<<"r", "n", "r", "n">>, t) /\ IsSuffix(<<"r", "n", "n">>, t)
      BY <1>2, <1>4, <2>2, <2>3
    <3>3. \A m \in BlankLines : IsSuffix(m, t) => Len(m) <= 3
      BY <3>2, LinesInOrder
    <3> QED
      BY <3>1, <3>2, <3>3 DEF BlankLines
  <2>4. CASE t[n - 1] = "n" /\ ~(n >= 3 /\ t[n - 2] = "r")
    <3>1. k = 2
      BY <1>0, <2>2, <2>4 DEF StartOf, Core
    <3>2. /\ ~IsSuffix(<<"r", "n", "r", "n">>, t) /\ ~IsSuffix(<<"r", "n", "n">>, t)
          /\ ~IsSuffix(<<"n", "r", "n">>, t) /\ IsSuffix(<<"n", "n">>, t)
      BY <1>1, <1>2, <1>3, <1>4, <2>2, <2>4
    <3>3. \A m \in BlankLines : IsSuffix(m, t) => Len(m) <= 2
      BY <3>2, LinesInOrder
    <3> QED
      BY <3>1, <3>2, <3>3 DEF BlankLines
  <2>5. CASE t[n - 1] # "n"
    <3>1. t[n - 1] = "r" /\ n >= 3 /\ t[n - 2] = "n"
      BY <1>0, <2>1, <2>5 DEF EndsAt
    <3>2. CASE n >= 4 /\ t[n - 3] = "r"
      <4>1. k = 4
        BY <1>0, <2>2, <2>5, <3>2 DEF StartOf, Core
      <4>2. IsSuffix(<<"r", "n", "r", "n">>, t)
        BY <1>4, <2>2, <3>1, <3>2
      <4>3. \A m \in BlankLines : Len(m) <= 4
        BY LinesInOrder
      <4> QED
        BY <4>1, <4>2, <4>3 DEF BlankLines
    <3>3. CASE ~(n >= 4 /\ t[n - 3] = "r")
      <4>1. k = 3
        BY <1>0, <2>2, <2>5, <3>1, <3>3 DEF StartOf, Core
      <4>2. ~IsSuffix(<<"r", "n", "r", "n">>, t) /\ IsSuffix(<<"n", "r", "n">>, t)
        BY <1>3, <1>4, <2>2, <3>1, <3>3
      <4>3. \A m \in BlankLines : IsSuffix(m, t) => Len(m) <= 3
        BY <4>2, LinesInOrder
      <4> QED
        BY <4>1, <4>2, <4>3 DEF BlankLines
    <3> QED
      BY <3>2, <3>3
  <2> QED
    BY <2>3, <2>4, <2>5
<1>7. ASSUME EndsEvent(t) PROVE WithoutBlankLine(t) = SubSeq(t, 1, StartOf(t, n) - 1)
  <2> DEFINE line == CHOOSE l \in BlankLines : Longest(l)
  <2>1. PICK l \in BlankLines : Longest(l) /\ Len(l) = k
    BY <1>6, <1>7
  <2>2. line \in BlankLines /\ Longest(line)
    BY <2>1
  <2>3. Len(line) \in Nat /\ Len(l) \in Nat
    <3>1. \A m \in BlankLines : Len(m) \in Nat
      BY DEF BlankLines
    <3> HIDE DEF line
    <3> QED
      BY <2>2, <3>1
  <2>4. Len(line) = k
    <3>1. Len(line) <= Len(l) /\ Len(l) <= Len(line)
      BY <2>1, <2>2
    <3> HIDE DEF line
    <3> QED
      BY <2>1, <2>3, <3>1
  <2>5. WithoutBlankLine(t) = SubSeq(t, 1, n - Len(line))
    BY DEF WithoutBlankLine
  <2>6. StartOf(t, n) \in Nat
    <3>1. EndsAt(t, n)
      BY <1>5, <1>7
    <3>2. StartOf(t, n) \in 1..(n - 1)
      BY <3>1, EndIsBoundary
    <3> HIDE DEF n
    <3> QED
      BY <1>0, <3>2
  <2>7. n - k = StartOf(t, n) - 1
    BY <1>0, <2>6
  <2> HIDE DEF line, n, k
  <2> QED
    BY <2>4, <2>5, <2>7
<1> QED
  BY <1>5, <1>7

LEMMA ReadIs ==
  ASSUME NEW r \in Readers, NEW c \in Chars
  PROVE  LET t == Append(r.rest, c)
         IN /\ Read(r, c) \in Readers /\ t \in Seq(Chars) /\ Len(t) = Len(r.rest) + 1
            /\ ~EndsAt(t, Len(t)) => Read(r, c) = [rest |-> t, events |-> r.events]
            /\ EndsAt(t, Len(t)) =>
                 Read(r, c) = [rest |-> <<>>,
                               events |-> Append(r.events, SubSeq(t, 1, StartOf(t, Len(t)) - 1))]
<1> DEFINE t == Append(r.rest, c)
           e == SubSeq(t, 1, StartOf(t, Len(t)) - 1)
<1>1. r.rest \in Seq(Chars) /\ r.events \in Seq(Seq(Chars))
  BY DEF Readers
<1>2. t \in Seq(Chars) /\ Len(t) = Len(r.rest) + 1
  BY <1>1, AppendProperties
<1>3. Read(r, c) = IF EndsEvent(t)
                     THEN [rest |-> <<>>, events |-> Append(r.events, WithoutBlankLine(t))]
                   ELSE [rest |-> t, events |-> r.events]
  BY DEF Read
<1> HIDE DEF t
<1>4. /\ EndsEvent(t) <=> EndsAt(t, Len(t))
      /\ EndsEvent(t) => WithoutBlankLine(t) = e
  BY <1>2, EndsEventIs
<1>5. ASSUME EndsAt(t, Len(t)) PROVE e \in Seq(Chars)
  <2>1. StartOf(t, Len(t)) \in 1..(Len(t) - 1)
    BY <1>2, <1>5, EndIsBoundary
  <2> QED
    BY <1>2, <2>1, SubSeqProperties
<1>6. ASSUME EndsAt(t, Len(t)) PROVE Append(r.events, e) \in Seq(Seq(Chars))
  BY <1>1, <1>5, <1>6, AppendProperties
<1> HIDE DEF e
<1>7. Read(r, c) \in Readers
  <2>1. CASE EndsEvent(t)
    <3>1. Read(r, c) = [rest |-> <<>>, events |-> Append(r.events, e)]
      BY <1>3, <1>4, <2>1
    <3>2. <<>> \in Seq(Chars)
      OBVIOUS
    <3> QED
      BY <1>4, <1>6, <2>1, <3>1, <3>2 DEF Readers
  <2>2. CASE ~EndsEvent(t)
    BY <1>1, <1>2, <1>3, <2>2 DEF Readers
  <2> QED
    BY <2>1, <2>2
<1> QED
  BY <1>2, <1>3, <1>4, <1>7 DEF t, e

LEMMA ReadingsAre ==
  ASSUME NEW whole \in Seq(Chars)
  PROVE  /\ Readings(whole) \in [0..Len(whole) -> Readers]
         /\ Readings(whole)[0] = Unread
         /\ \A n \in 1..Len(whole) :
              Readings(whole)[n] = Read(Readings(whole)[n - 1], whole[n])
<1> DEFINE N == Len(whole)
           step == [p \in (1..N) \X Readers |-> Read(p[2], whole[p[1]])]
           Good(f) == f = [n \in 0..N |-> IF n = 0 THEN Unread ELSE Read(f[n - 1], whole[n])]
           R == Readings(whole)
<1>1. N \in Nat /\ Unread \in Readers
  BY DEF Unread, Readers
<1>2. \A n \in 1..N : whole[n] \in Chars
  OBVIOUS
<1>3. step \in [(1..N) \X Readers -> Readers]
  BY <1>2, ReadIs
<1>4. PICK f \in [0..N -> Readers] : Recursion(f, N, Unread, step)
  <2> HIDE DEF N, step
  <2> QED
    BY <1>1, <1>3, RecursionExists
<1>5. Good(f)
  <2>1. ASSUME NEW n \in 0..N PROVE f[n] = IF n = 0 THEN Unread ELSE Read(f[n - 1], whole[n])
    <3>1. f[n] = IF n = 0 THEN Unread ELSE step[<<n, f[n - 1]>>]
      BY <1>4 DEF Recursion
    <3>2. n # 0 => <<n, f[n - 1]>> \in (1..N) \X Readers
      <4>1. n # 0 => n \in 1..N /\ n - 1 \in 0..N
        BY <1>1
      <4> QED
        BY <1>4, <4>1
    <3> QED
      BY <3>1, <3>2
  <2> QED
    BY <1>4, <2>1
<1>6. Good(R)
  <2>1. R = CHOOSE g : Good(g)
    BY DEF Readings
  <2> QED
    BY <1>5, <2>1
<1> HIDE DEF R
<1>7. \A n \in 0..N : R[n] = IF n = 0 THEN Unread ELSE Read(R[n - 1], whole[n])
  BY <1>6
<1>8. 0 \in 0..N /\ \A n \in 1..N : n \in 0..N /\ n # 0 /\ n - 1 \in 0..N /\ n - 1 + 1 = n
  BY <1>1
<1>9. R[0] = Unread /\ \A n \in 1..N : R[n] = Read(R[n - 1], whole[n])
  BY <1>7, <1>8
<1>10. R \in [0..N -> Readers]
  <2> DEFINE S == {n \in 0..N : R[n] \in Readers}
  <2>1. 0 \in S
    BY <1>1, <1>8, <1>9
  <2>2. ASSUME NEW n \in 0..(N - 1), n \in S PROVE n + 1 \in S
    <3>1. n + 1 \in 1..N /\ (n + 1) - 1 = n
      BY <1>1
    <3>2. R[n + 1] = Read(R[n], whole[n + 1])
      BY <1>9, <3>1
    <3>3. R[n + 1] \in Readers
      BY <1>2, <2>2, <3>1, <3>2, ReadIs
    <3> QED
      BY <1>8, <3>1, <3>3
  <2> HIDE DEF S, N
  <2>3. \A n \in 0..N : n \in S
    BY <1>1, <2>1, <2>2, Induction
  <2>4. \A n \in 0..N : R[n] \in Readers
    BY <2>3 DEF S
  <2> QED
    BY <1>6, <2>4
<1> QED
  BY <1>9, <1>10 DEF R

LEMMA ReadingsExtend ==
  ASSUME NEW s \in Seq(Chars), NEW chunk \in Seq(Chars)
  PROVE  \A n \in 0..Len(s) : Readings(s \o chunk)[n] = Readings(s)[n]
<1> DEFINE t == s \o chunk
           S == {n \in 0..Len(s) : Readings(t)[n] = Readings(s)[n]}
<1>1. t \in Seq(Chars) /\ Len(t) = Len(s) + Len(chunk) /\ \A i \in 1..Len(s) : t[i] = s[i]
  <2>1. t \in Seq(Chars) /\ Len(t) = Len(s) + Len(chunk)
    BY ConcatProperties
  <2>2. \A i \in 1..Len(s) : t[i] = s[i]
    BY ConcatProperties
  <2> QED
    BY <2>1, <2>2
<1>2. Len(s) \in Nat /\ Len(chunk) \in Nat
  OBVIOUS
<1> HIDE DEF t
<1>3. 0 \in S
  BY <1>1, <1>2, ReadingsAre
<1>4. ASSUME NEW k \in 0..(Len(s) - 1), k \in S PROVE k + 1 \in S
  <2>1. k + 1 \in 1..Len(s) /\ k + 1 \in 1..Len(t) /\ (k + 1) - 1 = k /\ k + 1 \in 0..Len(s)
    BY <1>1, <1>2
  <2>2. /\ Readings(t)[k + 1] = Read(Readings(t)[k], t[k + 1])
        /\ Readings(s)[k + 1] = Read(Readings(s)[k], s[k + 1])
    BY <1>1, <2>1, ReadingsAre
  <2> QED
    BY <1>1, <1>4, <2>1, <2>2
<1> HIDE DEF S
<1>5. \A n \in 0..Len(s) : n \in S
  BY <1>2, <1>3, <1>4, Induction
<1> QED
  BY <1>5 DEF S, t

(* A text that has, after a characters, what another one has after n.      *)
Ahead(t, a, whole, n) ==
  Len(t) = a + (Len(whole) - n) /\ \A i \in 1..(Len(whole) - n) : t[a + i] = whole[n + i]

Follows(R, whole) == \A i \in 1..Len(whole) : R[i] = Read(R[i - 1], whole[i])

(* No blank line ends at the next k places.                                *)
Quiet(t, a, k) == \A i \in 1..k : ~EndsAt(t, a + i)

Holds(R, n, t, a, es) == R[n] = [rest |-> SubSeq(t, 1, a), events |-> es]

(* While no blank line ends, a reader keeps what it reads.                 *)
LEMMA ReadersKeep ==
  ASSUME NEW whole \in Seq(Chars), NEW n \in Nat, NEW k \in Nat, n + k <= Len(whole),
         NEW a \in Nat, NEW t \in Seq(Chars), Ahead(t, a, whole, n),
         NEW R \in [0..Len(whole) -> Readers], Follows(R, whole),
         NEW es \in Seq(Seq(Chars)), Holds(R, n, t, a, es), Quiet(t, a, k)
  PROVE  Holds(R, n + k, t, a + k, es)
<1> DEFINE Grown(j) == [rest |-> SubSeq(t, 1, a + j), events |-> es]
           S == {j \in 0..k : R[n + j] = Grown(j)}
<1>0. Len(whole) \in Nat /\ Len(t) \in Nat /\ Len(t) = a + (Len(whole) - n)
  BY DEF Ahead
<1>1. 0 \in S
  <2>1. n + 0 = n /\ a + 0 = a /\ 0 \in 0..k
    OBVIOUS
  <2>2. R[n] = [rest |-> SubSeq(t, 1, a), events |-> es]
    BY DEF Holds
  <2> QED
    BY <2>1, <2>2
<1>2. ASSUME NEW j \in 0..(k - 1), j \in S PROVE j + 1 \in S
  <2>1. /\ j + 1 \in 0..k /\ j + 1 \in 1..k /\ j + 1 \in 1..(Len(whole) - n)
        /\ n + (j + 1) \in 1..Len(whole) /\ n + (j + 1) - 1 = n + j
        /\ a + j \in Nat /\ a + j < Len(t) /\ (a + j) + 1 = a + (j + 1)
    <3>1. j \in Nat /\ j + 1 <= k
      OBVIOUS
    <3>2. /\ j + 1 \in 0..k /\ j + 1 \in 1..k
          /\ n + (j + 1) - 1 = n + j
          /\ a + j \in Nat /\ (a + j) + 1 = a + (j + 1)
      BY <3>1
    <3>3. n + (j + 1) \in 1..Len(whole) /\ j + 1 \in 1..(Len(whole) - n) /\ a + j < Len(t)
      BY <1>0, <3>1
    <3> QED
      BY <3>2, <3>3
  <2> DEFINE p == SubSeq(t, 1, a + j)
             q == SubSeq(t, 1, a + (j + 1))
             ch == t[a + (j + 1)]
  <2>2. R[n + (j + 1)] = Read([rest |-> p, events |-> es], ch)
    <3>1. R[n + j] = Grown(j)
      BY <1>2
    <3>2. R[n + (j + 1)] = Read(R[n + j], whole[n + (j + 1)])
      BY <2>1 DEF Follows
    <3>3. whole[n + (j + 1)] = t[a + (j + 1)]
      BY <2>1 DEF Ahead
    <3> QED
      BY <3>1, <3>2, <3>3
  <2>3. p \in Seq(Chars) /\ Len(p) = a + j
    <3> DEFINE x == a + j
    <3>1. x \in Nat /\ x < Len(t)
      BY <2>1
    <3> HIDE DEF x
    <3>2. x - 1 + 1 = x /\ x <= Len(t) /\ 1 <= x + 1 /\ 1 \in Nat /\ 1 >= 1
      BY <1>0, <3>1
    <3>3. SubSeq(t, 1, x) \in Seq(Chars) /\ Len(SubSeq(t, 1, x)) = x - 1 + 1
      BY <3>1, <3>2, SubSeqIs
    <3> QED
      BY <3>2, <3>3 DEF x
  <2>4. Append(p, ch) = q
    BY <2>1, PrefixGrows
  <2>5. ch \in Chars
    <3>1. a + (j + 1) \in 1..Len(t)
      BY <1>0, <2>1
    <3> QED
      BY <3>1
  <2>6. ~EndsAt(q, a + (j + 1))
    <3>1. a + (j + 1) \in 0..Len(t) /\ a + (j + 1) \in 1..(a + (j + 1))
      BY <1>0, <2>1
    <3>2. ~EndsAt(t, a + (j + 1))
      BY <2>1 DEF Quiet
    <3> QED
      BY <3>1, <3>2, EndsInPrefix
  <2>7. [rest |-> p, events |-> es] \in Readers
    BY <2>3 DEF Readers
  <2> HIDE DEF p, q, ch
  <2>8. Len(q) = a + (j + 1)
    <3>1. Len(Append(p, ch)) = Len(p) + 1
      BY <2>3, <2>5, AppendProperties
    <3> QED
      BY <2>1, <2>3, <2>4, <3>1
  <2>9. Read([rest |-> p, events |-> es], ch) = [rest |-> q, events |-> es]
    <3> DEFINE r == [rest |-> p, events |-> es]
    <3>1. r \in Readers /\ r.rest = p /\ r.events = es
      BY <2>7
    <3> HIDE DEF r
    <3>2. Read(r, ch) = [rest |-> q, events |-> es]
      BY <2>4, <2>5, <2>6, <2>8, <3>1, ReadIs
    <3> QED
      BY <3>2 DEF r
  <2>10. R[n + (j + 1)] = Grown(j + 1)
    BY <2>2, <2>9 DEF q
  <2> QED
    BY <2>1, <2>10
<1>3. k \in S
  <2> HIDE DEF S
  <2>1. \A j \in 0..k : j \in S
    BY <1>1, <1>2, Induction
  <2> QED
    BY <2>1
<1> QED
  BY <1>3 DEF Holds

-----------------------------------------------------------------------------
(* What was seen of the events.                                            *)

Sees(seen, events) ==
  \E places \in SUBSET DOMAIN events :
    /\ seen = At(events, places)
    /\ \A i \in places : Len(events[i]) <= MaxFrame
    /\ \A i \in DOMAIN events \ places : Len(events[i]) > MaxFrame - 3

LEMMA SeesNone == Sees(<<>>, <<>>)
<1>1. At(<<>>, {}) = <<>> /\ DOMAIN <<>> = {}
  BY DEF At
<1> QED
  BY <1>1 DEF Sees

LEMMA SeesNext ==
  ASSUME NEW seen, NEW events \in Seq(Seq(Chars)), NEW e \in Seq(Chars), Sees(seen, events)
  PROVE  /\ Len(e) <= MaxFrame => Sees(Append(seen, e), Append(events, e))
         /\ Len(e) > MaxFrame - 3 => Sees(seen, Append(events, e))
<1> DEFINE more == Append(events, e)
           n == Len(events) + 1
<1>1. PICK places \in SUBSET DOMAIN events :
        /\ seen = At(events, places)
        /\ \A i \in places : Len(events[i]) <= MaxFrame
        /\ \A i \in DOMAIN events \ places : Len(events[i]) > MaxFrame - 3
  BY DEF Sees
<1>2. DOMAIN events = 1..Len(events) /\ Len(events) \in Nat
  OBVIOUS
<1>3. /\ more \in Seq(Seq(Chars)) /\ DOMAIN more = 1..n /\ more[n] = e
      /\ \A i \in 1..Len(events) : more[i] = events[i]
  BY AppendProperties
<1>4. \A i \in 1..n : i \in 1..Len(events) \/ i = n
  BY <1>2
<1>5. \A i \in 1..Len(events) : i \in 1..n /\ i # n
  BY <1>2
<1>6. n \in 1..n
  BY <1>2
<1>7. places \in SUBSET (1..Len(events))
  BY <1>2
<1>8. /\ At(more, places) = seen
      /\ At(more, places \union {n}) = Append(seen, e)
  <2>1. At(more, places) = At(events, places)
    BY <1>7, AtMissed
  <2>2. At(more, places \union {n}) = Append(At(events, places), e)
    BY <1>7, AtSeen
  <2> QED
    BY <1>1, <2>1, <2>2
<1> HIDE DEF more, n
<1>9. ASSUME Len(e) <= MaxFrame PROVE Sees(Append(seen, e), more)
  <2>1. places \union {n} \in SUBSET DOMAIN more
    BY <1>2, <1>3, <1>5, <1>6
  <2>2. \A i \in places \union {n} : Len(more[i]) <= MaxFrame
    BY <1>1, <1>3, <1>7, <1>9
  <2>3. \A i \in DOMAIN more \ (places \union {n}) : Len(more[i]) > MaxFrame - 3
    BY <1>1, <1>2, <1>3, <1>4
  <2> QED
    BY <1>8, <2>1, <2>2, <2>3 DEF Sees
<1>10. ASSUME Len(e) > MaxFrame - 3 PROVE Sees(seen, more)
  <2>1. places \in SUBSET DOMAIN more
    BY <1>2, <1>3, <1>5
  <2>2. \A i \in places : Len(more[i]) <= MaxFrame
    BY <1>1, <1>3, <1>7
  <2>3. \A i \in DOMAIN more \ places : Len(more[i]) > MaxFrame - 3
    BY <1>1, <1>2, <1>3, <1>4, <1>10
  <2> QED
    BY <1>8, <2>1, <2>2, <2>3 DEF Sees
<1> QED
  BY <1>9, <1>10 DEF more

-----------------------------------------------------------------------------
(* The observer next to the reader.                                        *)

(* The loop of #consumeText, one event after the other.                    *)
Pending == [rest : Seq(Chars), dropping : BOOLEAN, events : Seq(Seq(Chars))]

AfterEvent(s) ==
  LET b == Leftmost(s.rest)
      event == SubSeq(s.rest, 1, b[1] - 1)
  IN [rest |-> SubSeq(s.rest, b[1] + b[2], Len(s.rest)),
      dropping |-> FALSE,
      events |-> IF s.dropping \/ Len(event) > MaxFrame THEN s.events ELSE Append(s.events, event)]

LEMMA AfterEventIs ==
  ASSUME NEW s \in Pending, Boundaries(s.rest) # {}
  PROVE  /\ AfterEvent(s) \in Pending
         /\ Len(AfterEvent(s).rest) < Len(s.rest)
<1> DEFINE b == Leftmost(s.rest)
           p == s.rest
           event == SubSeq(p, 1, b[1] - 1)
           tail == SubSeq(p, b[1] + b[2], Len(p))
<1>1. p \in Seq(Chars) /\ s.dropping \in BOOLEAN /\ s.events \in Seq(Seq(Chars)) /\ Len(p) \in Nat
  BY DEF Pending
<1>2. b[1] \in 1..Len(p) /\ b[2] \in 2..4 /\ b[1] + b[2] - 1 \in 2..Len(p)
  BY <1>1, LeftmostIs
<1> HIDE DEF b, p
<1>3. tail \in Seq(Chars) /\ Len(tail) < Len(p)
  <2>1. /\ b[1] + b[2] \in Nat /\ b[1] + b[2] >= 1 /\ b[1] + b[2] <= Len(p) + 1
        /\ Len(p) - (b[1] + b[2]) + 1 < Len(p)
    BY <1>1, <1>2, SMTT(30)
  <2> QED
    BY <1>1, <2>1, SubSeqIs
<1>4. event \in Seq(Chars)
  <2>1. b[1] - 1 \in Nat /\ 1 <= (b[1] - 1) + 1 /\ b[1] - 1 <= Len(p) /\ 1 \in Nat /\ 1 >= 1
    BY <1>1, <1>2
  <2> QED
    BY <1>1, <2>1, SubSeqIs
<1> HIDE DEF event, tail
<1>5. (IF s.dropping \/ Len(event) > MaxFrame THEN s.events ELSE Append(s.events, event))
        \in Seq(Seq(Chars))
  BY <1>1, <1>4
<1> QED
  BY <1>3, <1>5 DEF AfterEvent, Pending, b, p, event, tail

LEMMA SplitIs ==
  ASSUME NEW pending \in Pending
  PROVE  /\ Boundaries(pending.rest) = {} => Split[pending] = pending
         /\ Boundaries(pending.rest) # {} => Split[pending] = Split[AfterEvent(pending)]
<1> DEFINE Ended == {s \in Pending : Boundaries(s.rest) = {}}
           step == [s \in Pending |-> IF s \in Ended THEN s ELSE AfterEvent(s)]
           size == [s \in Pending |-> Len(s.rest)]
           Body(f) == [s \in Pending |-> IF Boundaries(s.rest) = {} THEN s ELSE f[AfterEvent(s)]]
<1>1. step \in [Pending -> Pending]
  BY AfterEventIs
<1>2. size \in [Pending -> Nat]
  BY DEF Pending
<1>3. \A s \in Pending \ Ended : size[step[s]] < size[s]
  BY AfterEventIs
<1>4. \E f : Loop(f, Pending, Ended, step)
  <2> HIDE DEF Ended, step, size
  <2>1. Ended \in SUBSET Pending
    BY DEF Ended
  <2> QED
    BY ONLY <1>1, <1>2, <1>3, <2>1, LoopExists
<1>5. \E f : f = Body(f)
  <2>1. PICK f : f = [s \in Pending |-> IF s \in Ended THEN s ELSE f[step[s]]]
    BY <1>4 DEF Loop
  <2>2. \A s \in Pending : (IF s \in Ended THEN s ELSE f[step[s]])
                         = (IF Boundaries(s.rest) = {} THEN s ELSE f[AfterEvent(s)])
    OBVIOUS
  <2>3. f = Body(f)
    <3> HIDE DEF Ended, step
    <3> QED
      BY <2>1, <2>2
  <2> QED
    BY <2>3
<1>6. Split = CHOOSE f : f = Body(f)
  BY DEF Split, AfterEvent, Pending
<1>7. Split = Body(Split)
  <2> HIDE DEF Body
  <2> QED
    BY <1>5, <1>6
<1> QED
  BY <1>7

(* The buffer of the observer is the end of what the reader holds: a text  *)
(* and its end have the same blank lines, but for one that starts before.  *)
EndOf(p, t, off) ==
  Len(t) = off + Len(p) /\ \A i \in 1..Len(p) : p[i] = t[off + i]

LEMMA EndsInEnd ==
  ASSUME NEW p \in Seq(Chars), NEW t \in Seq(Chars), NEW off \in Nat, EndOf(p, t, off),
         NEW k \in 1..Len(p)
  PROVE  /\ EndsAt(p, k) => EndsAt(t, off + k)
         /\ k > 2 /\ EndsAt(t, off + k) => EndsAt(p, k)
<1>0. Len(p) \in Nat /\ Len(t) \in Nat /\ k \in Nat /\ k >= 1 /\ k <= Len(p)
  OBVIOUS
<1>1. Len(t) = off + Len(p) /\ \A i \in 1..Len(p) : p[i] = t[off + i]
  BY DEF EndOf
<1>2. p[k] = t[off + k]
  BY <1>1
<1>3. k > 1 => p[k - 1] = t[(off + k) - 1]
  <2>1. k > 1 => k - 1 \in 1..Len(p) /\ off + (k - 1) = (off + k) - 1
    BY <1>0
  <2> QED
    BY <1>1, <2>1
<1>4. k > 2 => p[k - 2] = t[(off + k) - 2]
  <2>1. k > 2 => k - 2 \in 1..Len(p) /\ off + (k - 2) = (off + k) - 2
    BY <1>0
  <2> QED
    BY <1>1, <2>1
<1>5. ASSUME EndsAt(p, k) PROVE EndsAt(t, off + k)
  <2>1. k \in 2..Len(p) /\ p[k] = "n" /\ (p[k - 1] = "n" \/ (k > 2 /\ p[k - 1] = "r" /\ p[k - 2] = "n"))
    BY <1>5 DEF EndsAt
  <2>2. off + k \in 2..Len(t) /\ (k > 2 => off + k > 2) /\ k > 1
    BY <1>0, <1>1, <2>1
  <2> QED
    BY <1>2, <1>3, <1>4, <2>1, <2>2 DEF EndsAt
<1>6. ASSUME k > 2, EndsAt(t, off + k) PROVE EndsAt(p, k)
  <2>1. t[off + k] = "n" /\ (t[(off + k) - 1] = "n" \/ (t[(off + k) - 1] = "r" /\ t[(off + k) - 2] = "n"))
    BY <1>6 DEF EndsAt
  <2>2. k \in 2..Len(p) /\ k > 1
    BY <1>0, <1>6
  <2> QED
    BY <1>2, <1>3, <1>4, <1>6, <2>1, <2>2 DEF EndsAt
<1> QED
  BY <1>5, <1>6

(* What the observer keeps for a reader: all it holds, or of an event that *)
(* is too large the last three characters.                                 *)
Keeps(buf, drops, held) ==
  \/ ~drops /\ buf = held
  \/ /\ drops /\ Len(held) > MaxFrame
     /\ Len(buf) >= 3 /\ Len(buf) <= Len(held) /\ EndOf(buf, held, Len(held) - Len(buf))

LEMMA EndGrows ==
  ASSUME NEW buf \in Seq(Chars), NEW held \in Seq(Chars), NEW drops \in BOOLEAN,
         Keeps(buf, drops, held), NEW c \in Seq(Chars)
  PROVE  LET off == Len(held) - Len(buf)
         IN /\ off \in Nat
            /\ drops => Len(buf) >= 3 /\ Len(held) > MaxFrame
            /\ ~drops => off = 0 /\ buf \o c = held \o c
            /\ buf \o c \in Seq(Chars) /\ held \o c \in Seq(Chars)
            /\ Len(buf \o c) = Len(buf) + Len(c) /\ Len(held \o c) = Len(held) + Len(c)
            /\ EndOf(buf \o c, held \o c, off)
<1> DEFINE off == Len(held) - Len(buf)
           p == buf \o c
           t == held \o c
           b == Len(buf)
           a == Len(held)
           n == Len(c)
<1>0. b \in Nat /\ a \in Nat /\ n \in Nat
  OBVIOUS
<1>1. /\ p \in Seq(Chars) /\ Len(p) = b + n
      /\ \A i \in 1..(b + n) : p[i] = IF i <= b THEN buf[i] ELSE c[i - b]
  BY ConcatProperties
<1>2. /\ t \in Seq(Chars) /\ Len(t) = a + n
      /\ \A i \in 1..(a + n) : t[i] = IF i <= a THEN held[i] ELSE c[i - a]
  BY ConcatProperties
<1>3. /\ off \in Nat /\ (drops => b >= 3 /\ a > MaxFrame) /\ (~drops => off = 0 /\ p = t)
      /\ EndOf(buf, held, off) /\ a = off + b
  <2>1. CASE ~drops
    <3>1. buf = held
      BY <2>1 DEF Keeps
    <3>2. off = 0
      BY <1>0, <3>1
    <3>3. EndOf(buf, held, off)
      BY <1>0, <3>1, <3>2 DEF EndOf
    <3> QED
      BY <1>0, <2>1, <3>1, <3>2, <3>3
  <2>2. CASE drops
    <3>1. a > MaxFrame /\ b >= 3 /\ b <= a /\ EndOf(buf, held, a - b)
      BY <2>2 DEF Keeps
    <3> QED
      BY <1>0, <2>2, <3>1
  <2> QED
    BY <2>1, <2>2
<1> HIDE DEF off, p, t, b, a, n
<1>4. Len(t) = off + Len(p)
  BY <1>0, <1>1, <1>2, <1>3
<1>5. ASSUME NEW i \in 1..Len(p) PROVE p[i] = t[off + i]
  <2>1. i \in 1..(b + n) /\ off + i \in 1..(a + n)
    BY <1>0, <1>1, <1>3
  <2>2. CASE i <= b
    <3>1. off + i <= a /\ i \in 1..Len(buf)
      BY <1>0, <1>3, <2>1, <2>2 DEF b
    <3>2. p[i] = buf[i] /\ t[off + i] = held[off + i]
      BY <1>1, <1>2, <2>1, <2>2, <3>1
    <3> QED
      BY <1>3, <3>1, <3>2 DEF EndOf
  <2>3. CASE ~(i <= b)
    <3>1. ~(off + i <= a) /\ (off + i) - a = i - b
      BY <1>0, <1>3, <2>1, <2>3
    <3> QED
      BY <1>1, <1>2, <2>1, <2>3, <3>1
  <2> QED
    BY <2>2, <2>3
<1>6. EndOf(p, t, off)
  BY <1>4, <1>5 DEF EndOf
<1> QED
  BY <1>0, <1>1, <1>2, <1>3, <1>6 DEF off, p, t, b, a, n

(* Where a blank line ends in the buffer it ends in the whole text, and no *)
(* other one ends in what was added.                                       *)
LEMMA SameEnds ==
  ASSUME NEW buf \in Seq(Chars), NEW held \in Seq(Chars), NEW drops \in BOOLEAN,
         Keeps(buf, drops, held), NEW c \in Seq(Chars), NEW i \in 1..Len(c)
  PROVE  EndsAt(held \o c, Len(held) + i) <=> EndsAt(buf \o c, Len(buf) + i)
<1> DEFINE off == Len(held) - Len(buf)
           p == buf \o c
           t == held \o c
<1>1. /\ off \in Nat
      /\ drops => Len(buf) >= 3
      /\ ~drops => off = 0 /\ p = t
      /\ p \in Seq(Chars) /\ t \in Seq(Chars)
      /\ Len(p) = Len(buf) + Len(c) /\ Len(t) = Len(held) + Len(c)
      /\ EndOf(p, t, off)
  BY EndGrows
<1>2. /\ Len(buf) \in Nat /\ Len(held) \in Nat /\ Len(c) \in Nat
      /\ off + (Len(buf) + i) = Len(held) + i
      /\ off = 0 => Len(buf) = Len(held)
  OBVIOUS
<1> HIDE DEF off, p, t
<1>3. Len(buf) + i \in 1..Len(p) /\ (drops => Len(buf) + i > 2)
  BY <1>1, <1>2
<1>4. CASE drops
  BY <1>1, <1>2, <1>3, <1>4, EndsInEnd DEF p, t
<1>5. CASE ~drops
  BY <1>1, <1>2, <1>5 DEF p, t
<1> QED
  BY <1>4, <1>5

LEMMA HeldIsPrefix ==
  ASSUME NEW held \in Seq(Chars), NEW c \in Seq(Chars)
  PROVE  held = SubSeq(held \o c, 1, Len(held))
<1> DEFINE t == held \o c
           a == Len(held)
           w == SubSeq(t, 1, a)
<1>1. /\ t \in Seq(Chars) /\ Len(t) = a + Len(c) /\ a \in Nat /\ Len(c) \in Nat
      /\ \A i \in 1..(a + Len(c)) : t[i] = IF i <= a THEN held[i] ELSE c[i - a]
  BY ConcatProperties
<1> HIDE DEF t
<1>2. w \in Seq(Chars) /\ Len(w) = a /\ \A i \in 1..a : w[i] = t[i]
  <2>1. a - 1 + 1 = a /\ 1 <= a + 1 /\ a <= Len(t) /\ 1 \in Nat /\ 1 >= 1 /\ \A i \in 1..a : i + 1 - 1 = i
    BY <1>1
  <2> QED
    BY <1>1, <2>1, SubSeqIs
<1>3. \A i \in 1..a : t[i] = held[i]
  BY <1>1
<1> HIDE DEF w
<1>4. w = held
  BY <1>2, <1>3, SeqEqual
<1> QED
  BY <1>4 DEF w, t

(* The observer that has read n characters of a text, and the reader.      *)
Rel(buf, drops, seen, r) ==
  r \in Readers /\ Clean(r.rest) /\ Keeps(buf, drops, r.rest) /\ Sees(seen, r.events)

Later(whole, n) == SubSeq(whole, n + 1, Len(whole))

LEMMA LaterIs ==
  ASSUME NEW whole \in Seq(Chars), NEW n \in 0..Len(whole)
  PROVE  /\ Later(whole, n) \in Seq(Chars)
         /\ Len(Later(whole, n)) = Len(whole) - n
         /\ \A i \in 1..(Len(whole) - n) : Later(whole, n)[i] = whole[n + i]
<1> DEFINE N == Len(whole)
           x == n + 1
           w == SubSeq(whole, x, N)
<1>1. /\ x \in Nat /\ N \in Nat /\ x >= 1 /\ x <= N + 1 /\ N - x + 1 = N - n /\ N <= N
      /\ \A i \in 1..(N - n) : i + x - 1 = n + i
  OBVIOUS
<1>2. N <= Len(whole)
  BY <1>1
<1> HIDE DEF N, x
<1>3. w \in Seq(Chars) /\ Len(w) = N - x + 1 /\ \A i \in 1..(N - x + 1) : w[i] = whole[i + x - 1]
  BY <1>1, <1>2, SubSeqIs
<1> HIDE DEF w
<1>4. w \in Seq(Chars) /\ Len(w) = N - n /\ \A i \in 1..(N - n) : w[i] = whole[n + i]
  BY <1>1, <1>3
<1> QED
  BY <1>4 DEF Later, w, N, x

(* After n characters the reader holds that much and took those events.    *)
Reads(whole, n, held, es) == Readings(whole)[n] = [rest |-> held, events |-> es]

(* What the reader holds when the rest of the text was read up to place m  *)
(* and no blank line has ended.                                            *)
LEMMA ReaderHolds ==
  ASSUME NEW whole \in Seq(Chars), NEW n \in 0..Len(whole), NEW k \in 0..(Len(whole) - n),
         NEW held \in Seq(Chars), NEW es \in Seq(Seq(Chars)),
         Reads(whole, n, held, es),
         Quiet(held \o Later(whole, n), Len(held), k)
  PROVE  Reads(whole, n + k, SubSeq(held \o Later(whole, n), 1, Len(held) + k), es)
<1> DEFINE R == Readings(whole)
           c == Later(whole, n)
           t == held \o c
           a == Len(held)
<1>1. R \in [0..Len(whole) -> Readers] /\ Follows(R, whole)
  BY ReadingsAre DEF Follows
<1> HIDE DEF R
<1>2. R[n] = [rest |-> held, events |-> es]
  BY DEF R, Reads
<1>3. held \in Seq(Chars) /\ a \in Nat
  OBVIOUS
<1>4. Len(whole) \in Nat /\ n \in Nat /\ k \in Nat /\ n + k <= Len(whole)
  OBVIOUS
<1>5. /\ c \in Seq(Chars) /\ Len(c) = Len(whole) - n
      /\ \A i \in 1..(Len(whole) - n) : c[i] = whole[n + i]
  BY LaterIs
<1> HIDE DEF c
<1>6. /\ t \in Seq(Chars) /\ Len(t) = a + Len(c)
      /\ \A i \in 1..(a + Len(c)) : t[i] = IF i <= a THEN held[i] ELSE c[i - a]
  BY <1>3, <1>5, ConcatProperties
<1> HIDE DEF t, a
<1>7. Ahead(t, a, whole, n)
  <2> SUFFICES ASSUME NEW i \in 1..(Len(whole) - n) PROVE t[a + i] = whole[n + i]
    BY <1>5, <1>6 DEF Ahead
  <2>1. a + i \in 1..(a + Len(c)) /\ ~(a + i <= a) /\ (a + i) - a = i
    BY <1>3, <1>4, <1>5
  <2> QED
    BY <1>5, <1>6, <2>1
<1>8. R[n] = [rest |-> SubSeq(t, 1, a), events |-> es]
  <2>1. held = SubSeq(t, 1, a)
    BY <1>3, <1>5, HeldIsPrefix DEF t, a
  <2> QED
    BY <1>2, <1>3, <2>1
<1>9. Quiet(t, a, k)
  BY DEF t, a, c
<1>10. Holds(R, n + k, t, a + k, es)
  <2>1. Holds(R, n, t, a, es)
    BY <1>8 DEF Holds
  <2> QED
    BY <1>1, <1>3, <1>4, <1>6, <1>7, <1>9, <2>1, ReadersKeep
<1> QED
  BY <1>10 DEF R, t, c, a, Holds, Reads

(* No blank line ends in what is left: the reader holds all of it.         *)
LEMMA NothingEnds ==
  ASSUME NEW whole \in Seq(Chars), NEW n \in 0..Len(whole), NEW buf \in Seq(Chars),
         NEW drops \in BOOLEAN, NEW seen, NEW r, r = Readings(whole)[n],
         Rel(buf, drops, seen, r), Boundaries(buf \o Later(whole, n)) = {}
  PROVE  Rel(buf \o Later(whole, n), drops, seen, Readings(whole)[Len(whole)])
<1> DEFINE held == r.rest
           c == Later(whole, n)
           p == buf \o c
           t == held \o c
           a == Len(held)
           off == a - Len(buf)
           last == Readings(whole)[Len(whole)]
<1>1. c \in Seq(Chars) /\ Len(c) = Len(whole) - n
  BY LaterIs
<1>2. /\ held \in Seq(Chars) /\ r.events \in Seq(Seq(Chars)) /\ Len(buf) \in Nat /\ a \in Nat
      /\ Clean(held) /\ Keeps(buf, drops, held) /\ Sees(seen, r.events)
  BY DEF Rel, Readers
<1> HIDE DEF held, c
<1>3. /\ off \in Nat
      /\ drops => Len(buf) >= 3 /\ a > MaxFrame
      /\ ~drops => off = 0 /\ p = t
      /\ p \in Seq(Chars) /\ t \in Seq(Chars)
      /\ Len(p) = Len(buf) + Len(c) /\ Len(t) = a + Len(c)
      /\ EndOf(p, t, off)
  <2>1. held \in Seq(Chars) /\ c \in Seq(Chars) /\ Keeps(buf, drops, held)
    BY <1>1, <1>2
  <2> QED
    BY ONLY <2>1, EndGrows, buf \in Seq(Chars), drops \in BOOLEAN, SMTT(30)
<1>4. Clean(p)
  <2>1. Boundaries(p) = {}
    BY DEF p, c
  <2> HIDE DEF p
  <2> QED
    BY <1>3, <2>1, NoBoundaryIsClean
<1>5. ASSUME NEW i \in 1..Len(c) PROVE ~EndsAt(t, a + i)
  <2>1. EndsAt(t, a + i) <=> EndsAt(p, Len(buf) + i)
    BY <1>1, <1>2, SameEnds
  <2> HIDE DEF p
  <2>2. Len(buf) + i \in 1..Len(p)
    BY <1>1, <1>2, <1>3
  <2> QED
    BY <1>4, <2>1, <2>2 DEF Clean
<1>6. Len(whole) - n \in 0..(Len(whole) - n) /\ n + (Len(whole) - n) = Len(whole)
      /\ Len(c) \in Nat /\ Len(whole) \in Nat /\ n \in Nat
  BY <1>1
<1>7. last = [rest |-> SubSeq(t, 1, a + Len(c)), events |-> r.events]
  <2>1. \A i \in 1..(Len(whole) - n) : ~EndsAt(t, a + i)
    BY <1>1, <1>5
  <2> QED
    <3> DEFINE k == Len(whole) - n
    <3>1. k \in 0..(Len(whole) - n) /\ n + k = Len(whole) /\ Len(c) = k
      BY <1>1, <1>6
    <3>2. Quiet(held \o Later(whole, n), Len(held), k)
      BY <2>1, <3>1 DEF c, Quiet
    <3> DEFINE es == r.events
    <3>3. es \in Seq(Seq(Chars)) /\ Reads(whole, n, held, es)
      BY <1>2 DEF Rel, Readers, held, Reads
    <3> HIDE DEF k, es
    <3>4. Reads(whole, n + k, SubSeq(held \o Later(whole, n), 1, Len(held) + k), es)
      BY <1>2, <3>1, <3>2, <3>3, ReaderHolds
    <3> QED
      BY <3>1, <3>4 DEF c, es, Reads
<1> HIDE DEF p, off, last
<1>8. SubSeq(t, 1, a + Len(c)) = t
  <2> HIDE DEF t, a
  <2> DEFINE w == SubSeq(t, 1, a + Len(c))
             z == a + Len(c)
  <2>1. z \in Nat /\ z - 1 + 1 = z /\ 1 <= z + 1 /\ z <= Len(t) /\ 1 \in Nat /\ 1 >= 1
        /\ (\A i \in 1..z : i + 1 - 1 = i) /\ z = Len(t)
    BY <1>2, <1>3, <1>6
  <2>2. w \in Seq(Chars) /\ Len(w) = z /\ \A i \in 1..z : w[i] = t[i]
    BY <1>3, <2>1, SubSeqIs
  <2> HIDE DEF w, z
  <2>3. w = t
    BY <1>3, <2>1, <2>2, SeqEqual
  <2> QED
    BY <2>3 DEF w
<1>9. last.rest = t /\ last.events = r.events /\ last \in Readers
  BY <1>2, <1>3, <1>7, <1>8 DEF Readers
<1>10. Clean(t)
  <2> SUFFICES ASSUME NEW k \in 1..Len(t) PROVE ~EndsAt(t, k)
    BY DEF Clean
  <2>1. CASE k <= a
    <3>1. held = SubSeq(t, 1, a)
      BY <1>1, <1>2, HeldIsPrefix
    <3>2. k \in 1..a /\ a \in 0..Len(t)
      BY <1>2, <1>3, <1>6, <2>1
    <3>3. ~EndsAt(held, k)
      BY <1>2, <3>2 DEF Clean
    <3> HIDE DEF t, a
    <3> QED
      BY <1>3, <3>1, <3>2, <3>3, EndsInPrefix
  <2>2. CASE k > a
    <3> HIDE DEF t, a
    <3>1. k - a \in 1..Len(c) /\ a + (k - a) = k
      BY <1>2, <1>3, <1>6, <2>2
    <3> QED
      BY <1>5, <3>1
  <2> QED
    BY <1>2, <2>1, <2>2
<1>11. Keeps(p, drops, t)
  <2>1. CASE drops
    <3> HIDE DEF t, a
    <3>1. Len(t) > MaxFrame /\ Len(p) >= 3 /\ Len(p) <= Len(t) /\ off = Len(t) - Len(p)
      BY <1>2, <1>3, <1>6, <2>1, LimitAssumption DEF off
    <3> QED
      BY <1>3, <2>1, <3>1 DEF Keeps
  <2> QED
    BY <1>3, <2>1 DEF Keeps
<1> QED
  BY <1>2, <1>9, <1>10, <1>11 DEF Rel, p, c, t, held, last

(* The first blank line of the buffer is the first that ends after what    *)
(* the reader holds.                                                       *)
FirstEnd(buf, held, c, j) ==
  LET b == Leftmost(buf \o c)
  IN /\ b[1] + b[2] = Len(buf) + j + 1
     /\ b[1] = StartOf(buf \o c, Len(buf) + j)
     /\ b[1] \in 1..Len(buf \o c) /\ b[2] \in 2..4
     /\ EndsAt(held \o c, Len(held) + j)
     /\ Quiet(held \o c, Len(held), j - 1)

LEMMA WhereItEnds ==
  ASSUME NEW buf \in Seq(Chars), NEW drops \in BOOLEAN, NEW held \in Seq(Chars), Clean(held),
         Keeps(buf, drops, held), NEW c \in Seq(Chars), Boundaries(buf \o c) # {}
  PROVE  \E j \in 1..Len(c) : FirstEnd(buf, held, c, j)
<1> DEFINE off == Len(held) - Len(buf)
           p == buf \o c
           t == held \o c
           b == Leftmost(p)
           e == b[1] + b[2] - 1
           j == e - Len(buf)
<1>1. /\ off \in Nat
      /\ p \in Seq(Chars) /\ t \in Seq(Chars)
      /\ Len(p) = Len(buf) + Len(c) /\ Len(t) = Len(held) + Len(c)
      /\ EndOf(p, t, off)
  BY EndGrows
<1>2. Len(buf) \in Nat /\ Len(held) \in Nat /\ Len(c) \in Nat /\ Len(held) = off + Len(buf)
  OBVIOUS
<1>3. /\ b[1] \in 1..Len(p) /\ b[2] \in 2..4 /\ e \in 2..Len(p)
      /\ EndsAt(p, e) /\ b[1] = StartOf(p, e)
      /\ \A i \in 1..(e - 1) : ~EndsAt(p, i)
  BY <1>1, LeftmostIs
<1>4. b[1] + b[2] = e + 1
  <2> HIDE DEF b
  <2> QED
    BY <1>3
<1>5. e \in 1..Len(p) /\ e \in Nat
  <2> HIDE DEF e
  <2> QED
    BY <1>1, <1>2, <1>3
<1> HIDE DEF off, p, t, b, e
<1>6. EndsAt(t, off + e)
  BY <1>1, <1>3, <1>5, EndsInEnd
<1>7. off + e > Len(held)
  <2> SUFFICES ASSUME off + e <= Len(held) PROVE FALSE
    BY <1>1, <1>2, <1>5
  <2>1. held = SubSeq(t, 1, Len(held))
    BY HeldIsPrefix DEF t
  <2>2. off + e \in 1..Len(held) /\ Len(held) \in 0..Len(t)
    BY <1>1, <1>2, <1>3, <1>5
  <2>3. EndsAt(held, off + e)
    BY <1>1, <1>6, <2>1, <2>2, EndsInPrefix
  <2> QED
    BY <2>2, <2>3 DEF Clean
<1>8. j \in 1..Len(c) /\ Len(buf) + j = e /\ Len(held) + j = off + e
  BY <1>1, <1>2, <1>3, <1>5, <1>7
<1>9. ASSUME NEW i \in 1..(j - 1) PROVE ~EndsAt(t, Len(held) + i)
  <2> HIDE DEF j
  <2>1. i \in 1..Len(c) /\ Len(buf) + i \in 1..(e - 1)
    BY <1>2, <1>5, <1>8
  <2>2. EndsAt(t, Len(held) + i) <=> EndsAt(p, Len(buf) + i)
    BY <2>1, SameEnds DEF t, p
  <2> QED
    BY <1>3, <2>1, <2>2
<1> HIDE DEF j
<1>10. b[1] + b[2] = Len(buf) + j + 1 /\ b[1] = StartOf(p, Len(buf) + j) /\ EndsAt(t, Len(held) + j)
  BY <1>3, <1>4, <1>6, <1>8
<1> QED
  BY <1>3, <1>8, <1>9, <1>10 DEF FirstEnd, Quiet, p, t, b

LEMMA ReadEnds ==
  ASSUME NEW p \in Seq(Chars), NEW es \in Seq(Seq(Chars)), NEW ch \in Chars,
         EndsAt(Append(p, ch), Len(Append(p, ch)))
  PROVE  LET q == Append(p, ch)
         IN Read([rest |-> p, events |-> es], ch) =
              [rest |-> <<>>, events |-> Append(es, SubSeq(q, 1, StartOf(q, Len(q)) - 1))]
<1> DEFINE r == [rest |-> p, events |-> es]
<1>1. r \in Readers /\ r.rest = p /\ r.events = es
  BY DEF Readers
<1> HIDE DEF r
<1>2. EndsAt(Append(r.rest, ch), Len(Append(r.rest, ch)))
  BY <1>1
<1>3. Read(r, ch) = [rest |-> <<>>,
                     events |-> Append(r.events, SubSeq(Append(r.rest, ch), 1,
                       StartOf(Append(r.rest, ch), Len(Append(r.rest, ch))) - 1))]
  BY <1>1, <1>2, ReadIs
<1> QED
  BY <1>1, <1>3 DEF r

(* The reader takes the event where that blank line ends.                  *)
LEMMA ReaderTakes ==
  ASSUME NEW whole \in Seq(Chars), NEW n \in 0..Len(whole), NEW j \in 1..(Len(whole) - n),
         NEW held \in Seq(Chars), NEW es \in Seq(Seq(Chars)),
         Reads(whole, n, held, es),
         EndsAt(held \o Later(whole, n), Len(held) + j),
         Quiet(held \o Later(whole, n), Len(held), j - 1)
  PROVE  LET t == held \o Later(whole, n)
             start == StartOf(t, Len(held) + j)
         IN /\ Readings(whole)[n + j] =
                 [rest |-> <<>>, events |-> Append(es, SubSeq(t, 1, start - 1))]
            /\ SubSeq(t, 1, start - 1) \in Seq(Chars)
            /\ Len(SubSeq(t, 1, start - 1)) >= Len(held) + j - 4
<1> DEFINE R == Readings(whole)
           c == Later(whole, n)
           t == held \o c
           K == Len(held) + j
           x == StartOf(t, K)
           p == SubSeq(t, 1, K - 1)
           q == SubSeq(t, 1, K)
           ch == whole[n + j]
           before == [rest |-> p, events |-> es]
<1>1. /\ Len(whole) \in Nat /\ n \in Nat /\ j \in Nat /\ Len(held) \in Nat /\ K \in Nat
      /\ j - 1 \in 0..(Len(whole) - n) /\ n + j \in 1..Len(whole) /\ (n + j) - 1 = n + (j - 1)
      /\ Len(held) + (j - 1) = K - 1 /\ K >= 1 /\ K - Len(held) = j
  OBVIOUS
<1>2. /\ R \in [0..Len(whole) -> Readers]
      /\ \A i \in 1..Len(whole) : R[i] = Read(R[i - 1], whole[i])
  BY ReadingsAre
<1>3. R[n + (j - 1)] = before
  <2> DEFINE k == j - 1
  <2>1. k \in 0..(Len(whole) - n) /\ Quiet(held \o Later(whole, n), Len(held), k)
    BY <1>1
  <2>2. Len(held) + k = K - 1
    BY <1>1
  <2> HIDE DEF k, K, c
  <2>3. Reads(whole, n + k, SubSeq(held \o Later(whole, n), 1, Len(held) + k), es)
    BY <2>1, ReaderHolds
  <2> QED
    BY <2>2, <2>3 DEF k, c, Reads
<1> HIDE DEF R
<1>4. R[n + j] = Read(before, ch)
  BY <1>1, <1>2, <1>3
<1>5. /\ c \in Seq(Chars) /\ Len(c) = Len(whole) - n
      /\ \A i \in 1..(Len(whole) - n) : c[i] = whole[n + i]
  BY LaterIs
<1>6. EndsAt(t, K)
  OBVIOUS
<1> HIDE DEF c, K
<1>7. /\ t \in Seq(Chars) /\ Len(t) = Len(held) + Len(c)
      /\ \A i \in 1..(Len(held) + Len(c)) : t[i] = IF i <= Len(held) THEN held[i] ELSE c[i - Len(held)]
  BY <1>5, ConcatProperties
<1> HIDE DEF t
<1>8. K \in 1..Len(t) /\ K \in 0..Len(t) /\ K - 1 \in 0..K /\ K \in 1..K /\ K - 1 < Len(t)
      /\ (K - 1) + 1 = K /\ K - 1 \in Nat
  <2> DEFINE m == Len(t)
  <2>1. m = Len(held) + Len(c) /\ m \in Nat
    BY <1>7
  <2>2. K <= m
    BY <1>1, <1>5, <2>1 DEF K
  <2>3. K \in Nat /\ K >= 1
    BY <1>1 DEF K
  <2> HIDE DEF m
  <2>4. K \in 1..m /\ K \in 0..m /\ K - 1 \in 0..K /\ K \in 1..K /\ K - 1 < m
        /\ (K - 1) + 1 = K /\ K - 1 \in Nat
    BY ONLY <2>1, <2>2, <2>3
  <2> QED
    BY <2>4 DEF m
<1>9. ch \in Chars /\ ch = t[K]
  <2>1. ch \in Chars
    BY <1>1, ElementOfSeq
  <2>2. c[j] = ch
    BY <1>5
  <2>3. K \in 1..(Len(held) + Len(c)) /\ ~(K <= Len(held)) /\ K - Len(held) = j
    BY <1>1, <1>7, <1>8 DEF K
  <2>4. t[K] = c[j]
    BY <1>7, <2>3
  <2> QED
    BY <2>1, <2>2, <2>4
<1>10. p \in Seq(Chars) /\ q \in Seq(Chars) /\ Len(q) = K
  BY <1>7, <1>8, PrefixOfPrefix, SMTT(30)
<1>11. Append(p, ch) = q
  BY <1>7, <1>8, <1>9, PrefixGrows
<1>12. EndsAt(q, K) /\ StartOf(q, K) = x
  BY <1>6, <1>7, <1>8, EndsInPrefix
<1>13. x \in 1..(K - 1) /\ K - x + 1 \in 2..4
  BY <1>6, <1>7, EndIsBoundary
<1> HIDE DEF p, q, x, ch
<1>14. Read(before, ch) = [rest |-> <<>>, events |-> Append(es, SubSeq(q, 1, x - 1))]
  <2>1. EndsAt(Append(p, ch), Len(Append(p, ch)))
    BY <1>10, <1>11, <1>12
  <2>2. Read(before, ch) = [rest |-> <<>>,
                            events |-> Append(es, SubSeq(Append(p, ch), 1,
                              StartOf(Append(p, ch), Len(Append(p, ch))) - 1))]
    BY <1>9, <1>10, <2>1, ReadEnds DEF before
  <2> HIDE DEF before
  <2> QED
    BY <1>10, <1>11, <1>12, <2>2
<1> HIDE DEF before
<1>16. x - 1 \in 0..K /\ x - 1 >= K - 4 /\ x - 1 \in Nat
  BY <1>1, <1>13
<1>17. /\ SubSeq(q, 1, x - 1) = SubSeq(t, 1, x - 1) /\ SubSeq(t, 1, x - 1) \in Seq(Chars)
       /\ Len(SubSeq(t, 1, x - 1)) = x - 1
  <2> DEFINE k == x - 1
  <2>1. k \in 0..K /\ K \in 0..Len(t)
    BY <1>8, <1>16
  <2> HIDE DEF k
  <2>2. /\ SubSeq(SubSeq(t, 1, K), 1, k) = SubSeq(t, 1, k)
        /\ SubSeq(t, 1, k) \in Seq(Chars) /\ Len(SubSeq(t, 1, k)) = k
    BY <1>7, <2>1, PrefixOfPrefix, SMTT(30)
  <2> QED
    BY <2>2 DEF q, k
<1>18. Len(SubSeq(t, 1, x - 1)) >= K - 4
  BY <1>16, <1>17
<1>19. R[n + j] = [rest |-> <<>>, events |-> Append(es, SubSeq(t, 1, x - 1))]
  BY <1>4, <1>14, <1>17
<1>20. SubSeq(t, 1, x - 1) \in Seq(Chars)
  BY <1>17
<1> DEFINE start == StartOf(t, Len(held) + j)
<1>21. x = start
  BY DEF x, K
<1> HIDE DEF start
<1>22. /\ Readings(whole)[n + j] = [rest |-> <<>>, events |-> Append(es, SubSeq(t, 1, start - 1))]
       /\ SubSeq(t, 1, start - 1) \in Seq(Chars)
       /\ Len(SubSeq(t, 1, start - 1)) >= Len(held) + j - 4
  BY ONLY <1>18, <1>19, <1>20, <1>21 DEF R, K
<1> QED
  BY <1>22 DEF start, t, c

(* What the loop goes on with is the rest of the text.                     *)
LEMMA LeftIsLater ==
  ASSUME NEW whole \in Seq(Chars), NEW n \in 0..Len(whole), NEW j \in 0..(Len(whole) - n),
         NEW buf \in Seq(Chars)
  PROVE  LET p == buf \o Later(whole, n)
         IN SubSeq(p, Len(buf) + j + 1, Len(p)) = Later(whole, n + j)
<1> DEFINE c == Later(whole, n)
           p == buf \o c
           b == Len(buf)
           x == b + j + 1
           d == Later(whole, n + j)
           w == SubSeq(p, x, Len(p))
           N == Len(whole) - (n + j)
<1>1. /\ Len(whole) \in Nat /\ n \in Nat /\ j \in Nat /\ b \in Nat /\ n + j \in 0..Len(whole)
      /\ x \in Nat /\ x >= 1 /\ N \in Nat
  OBVIOUS
<1>2. /\ c \in Seq(Chars) /\ Len(c) = Len(whole) - n
      /\ \A i \in 1..(Len(whole) - n) : c[i] = whole[n + i]
  BY LaterIs
<1>3. d \in Seq(Chars) /\ Len(d) = N /\ \A i \in 1..N : d[i] = whole[(n + j) + i]
  BY <1>1, LaterIs
<1> HIDE DEF c, d
<1>4. /\ p \in Seq(Chars) /\ Len(p) = b + Len(c)
      /\ \A i \in 1..(b + Len(c)) : p[i] = IF i <= b THEN buf[i] ELSE c[i - b]
  BY <1>2, ConcatProperties
<1> HIDE DEF p, b
<1>5. Len(p) \in Nat /\ x <= Len(p) + 1 /\ Len(p) - x + 1 = N /\ Len(p) <= Len(p)
  BY <1>1, <1>2, <1>4
<1> HIDE DEF x
<1>6. w \in Seq(Chars) /\ Len(w) = N /\ \A i \in 1..N : w[i] = p[i + x - 1]
  BY <1>1, <1>4, <1>5, SubSeqIs
<1> HIDE DEF w
<1>7. ASSUME NEW i \in 1..N PROVE w[i] = d[i]
  <2>1. /\ i + x - 1 = b + (j + i) /\ b + (j + i) \in 1..(b + Len(c)) /\ ~(b + (j + i) <= b)
        /\ (b + (j + i)) - b = j + i
        /\ j + i \in 1..(Len(whole) - n) /\ n + (j + i) = (n + j) + i
    BY <1>1, <1>2 DEF x
  <2>2. p[b + (j + i)] = c[j + i]
    BY <1>4, <2>1
  <2> HIDE DEF N
  <2> QED
    BY <1>2, <1>3, <1>6, <2>1, <2>2
<1> HIDE DEF N
<1>8. w = d
  BY <1>3, <1>6, <1>7, SeqEqual
<1> QED
  BY <1>8 DEF w, d, x, p, b, c

(* One round of the loop: the observer and the reader both go on after the *)
(* blank line.                                                             *)
LEMMA OneRound ==
  ASSUME NEW whole \in Seq(Chars), NEW n \in 0..Len(whole), NEW s \in Pending, NEW buf \in Seq(Chars),
         s.rest = buf \o Later(whole, n), Boundaries(s.rest) # {},
         Rel(buf, s.dropping, s.events, Readings(whole)[n])
  PROVE  \E m \in (n + 1)..Len(whole) :
           /\ AfterEvent(s).rest = <<>> \o Later(whole, m)
           /\ Rel(<<>>, AfterEvent(s).dropping, AfterEvent(s).events, Readings(whole)[m])
<1> DEFINE r == Readings(whole)[n]
           held == r.rest
           es == r.events
           drops == s.dropping
           c == Later(whole, n)
           p == buf \o c
           t == held \o c
           b == Leftmost(p)
           event == SubSeq(p, 1, b[1] - 1)
           after == AfterEvent(s)
<1>1. /\ held \in Seq(Chars) /\ es \in Seq(Seq(Chars)) /\ r = [rest |-> held, events |-> es]
      /\ Clean(held) /\ Keeps(buf, drops, held) /\ Sees(s.events, es)
  BY DEF Rel, Readers
<1>2. drops \in BOOLEAN /\ s.events \in Seq(Seq(Chars)) /\ s.rest = p
  BY DEF Pending
<1>3. Readings(whole)[n] = [rest |-> held, events |-> es]
  BY <1>1
<1>4. c \in Seq(Chars) /\ Len(c) = Len(whole) - n
  BY LaterIs
<1>5. after = [rest |-> SubSeq(p, b[1] + b[2], Len(p)), dropping |-> FALSE,
               events |-> IF drops \/ Len(event) > MaxFrame THEN s.events ELSE Append(s.events, event)]
  BY <1>2 DEF AfterEvent
<1> HIDE DEF r, held, es, drops, c, after
<1>6. PICK j \in 1..Len(c) :
        /\ b[1] + b[2] = Len(buf) + j + 1
        /\ b[1] = StartOf(p, Len(buf) + j)
        /\ b[1] \in 1..Len(p) /\ b[2] \in 2..4
        /\ EndsAt(t, Len(held) + j)
        /\ Quiet(t, Len(held), j - 1)
  <2>1. Boundaries(p) # {}
    BY <1>2
  <2>2. \E j \in 1..Len(c) : FirstEnd(buf, held, c, j)
    BY <1>1, <1>2, <1>4, <2>1, WhereItEnds
  <2> QED
    BY <2>2 DEF FirstEnd
<1> DEFINE m == n + j
           start == StartOf(t, Len(held) + j)
           ev == SubSeq(t, 1, start - 1)
<1>7. /\ Len(buf) \in Nat /\ Len(held) \in Nat /\ j \in Nat /\ n \in Nat /\ Len(whole) \in Nat
      /\ j \in 1..(Len(whole) - n) /\ j \in 0..(Len(whole) - n) /\ m \in (n + 1)..Len(whole) /\ j >= 1
  BY <1>4
<1>8. /\ Readings(whole)[m] = [rest |-> <<>>, events |-> Append(es, ev)]
      /\ ev \in Seq(Chars)
      /\ Len(ev) >= Len(held) + j - 4
  <2>1. Reads(whole, n, held, es)
    BY <1>3 DEF Reads
  <2> QED
    BY <1>1, <1>3, <1>6, <1>7, <2>1, ReaderTakes DEF c
<1>9. after.rest = Later(whole, m)
  <2>1. SubSeq(p, Len(buf) + j + 1, Len(p)) = Later(whole, m)
    BY <1>7, LeftIsLater DEF c
  <2> HIDE DEF p, b, m
  <2> QED
    BY <1>5, <1>6, <2>1
<1>10. <<>> \o Later(whole, m) = Later(whole, m)
  <2>1. Later(whole, m) \in Seq(Chars)
    BY <1>7, LaterIs
  <2> HIDE DEF m
  <2> QED
    BY <2>1, ConcatEmptySeq
<1> HIDE DEF ev
<1>11. Sees(after.events, Append(es, ev))
  <2>1. CASE drops
    <3>1. Len(held) > MaxFrame
      BY <1>1, <2>1 DEF Keeps
    <3>2. Len(ev) > MaxFrame - 3
      <4>1. Len(ev) \in Nat
        BY <1>8
      <4> QED
        BY <1>7, <1>8, <3>1, <4>1, LimitAssumption
    <3>3. after.events = s.events
      BY <1>5, <2>1
    <3> QED
      BY <1>1, <1>8, <3>2, <3>3, SeesNext
  <2>2. CASE ~drops
    <3>1. buf = held
      BY <1>1, <2>2 DEF Keeps
    <3>2. event = ev
      BY <1>6, <3>1 DEF ev
    <3>3. after.events = IF Len(ev) > MaxFrame THEN s.events ELSE Append(s.events, ev)
      BY <1>5, <2>2, <3>2
    <3>4. CASE Len(ev) > MaxFrame
      <4>1. Len(ev) \in Nat /\ Len(ev) > MaxFrame - 3
        BY <1>8, <3>4, LimitAssumption
      <4> QED
        BY <1>1, <1>8, <3>3, <3>4, <4>1, SeesNext
    <3>5. CASE ~(Len(ev) > MaxFrame)
      <4>1. Len(ev) <= MaxFrame
        BY <1>8, <3>5, LimitAssumption
      <4> QED
        BY <1>1, <1>8, <3>3, <3>5, <4>1, SeesNext
    <3> QED
      BY <3>4, <3>5
  <2> QED
    BY <2>1, <2>2
<1>12. Readings(whole)[m] \in Readers
  <2>1. m \in 0..Len(whole)
    BY <1>7
  <2> HIDE DEF m
  <2> QED
    BY <2>1, ReadingsAre
<1> HIDE DEF m
<1>13. Rel(<<>>, after.dropping, after.events, Readings(whole)[m])
  <2>1. Clean(<<>>)
    BY DEF Clean
  <2>2. after.dropping = FALSE
    BY <1>5
  <2>3. Keeps(<<>>, after.dropping, <<>>)
    BY <2>2 DEF Keeps
  <2> QED
    BY <1>8, <1>11, <1>12, <2>1, <2>3 DEF Rel
<1> QED
  BY <1>7, <1>9, <1>10, <1>13 DEF after

(* The whole loop.                                                         *)
LEMMA LoopReads ==
  ASSUME NEW whole \in Seq(Chars)
  PROVE  \A n \in 0..Len(whole), s \in Pending, buf \in Seq(Chars) :
           s.rest = buf \o Later(whole, n) /\ Rel(buf, s.dropping, s.events, Readings(whole)[n])
             => /\ Split[s] \in Pending
                /\ Rel(Split[s].rest, Split[s].dropping, Split[s].events, Readings(whole)[Len(whole)])
<1> DEFINE Start(n, s, buf) ==
             s.rest = buf \o Later(whole, n) /\ Rel(buf, s.dropping, s.events, Readings(whole)[n])
           Done(s) ==
             /\ Split[s] \in Pending
             /\ Rel(Split[s].rest, Split[s].dropping, Split[s].events, Readings(whole)[Len(whole)])
           S == {k \in Nat : \A n \in 0..Len(whole), s \in Pending, buf \in Seq(Chars) :
                   Len(whole) - n = k /\ Start(n, s, buf) => Done(s)}
<1>0. Len(whole) \in Nat
  OBVIOUS
<1>1. ASSUME NEW k \in Nat, \A i \in 0..(k - 1) : i \in S PROVE k \in S
  <2> SUFFICES ASSUME NEW n \in 0..Len(whole), NEW s \in Pending, NEW buf \in Seq(Chars),
                      Len(whole) - n = k, Start(n, s, buf)
               PROVE  Done(s)
    OBVIOUS
  <2>1. CASE Boundaries(s.rest) = {}
    <3>1. s.dropping \in BOOLEAN
      BY DEF Pending
    <3>2. Rel(s.rest, s.dropping, s.events, Readings(whole)[Len(whole)])
      BY <2>1, <3>1, NothingEnds
    <3>3. Split[s] = s
      BY <2>1, SplitIs
    <3> QED
      BY <3>2, <3>3
  <2>2. CASE Boundaries(s.rest) # {}
    <3>1. PICK m \in (n + 1)..Len(whole) :
            /\ AfterEvent(s).rest = <<>> \o Later(whole, m)
            /\ Rel(<<>>, AfterEvent(s).dropping, AfterEvent(s).events, Readings(whole)[m])
      BY <2>2, OneRound
    <3>2. AfterEvent(s) \in Pending /\ Split[s] = Split[AfterEvent(s)]
      BY <2>2, AfterEventIs, SplitIs
    <3>3. Len(whole) - m \in 0..(k - 1) /\ m \in 0..Len(whole) /\ <<>> \in Seq(Chars)
      BY <1>0
    <3>4. Len(whole) - m \in S
      BY <1>1, <3>3
    <3>5. Start(m, AfterEvent(s), <<>>)
      BY <3>1
    <3> HIDE DEF Start, Done
    <3>6. Done(AfterEvent(s))
      BY <3>2, <3>3, <3>4, <3>5
    <3> QED
      BY <3>2, <3>6 DEF Done
  <2> QED
    BY <2>1, <2>2
<1> HIDE DEF S
<1>2. \A k \in Nat : k \in S
  BY <1>1, StrongInduction
<1> SUFFICES ASSUME NEW n \in 0..Len(whole), NEW s \in Pending, NEW buf \in Seq(Chars), Start(n, s, buf)
             PROVE  Done(s)
  OBVIOUS
<1>3. Len(whole) - n \in Nat
  BY <1>0
<1>4. Len(whole) - n \in S
  BY <1>2, <1>3
<1> QED
  BY <1>4 DEF S

-----------------------------------------------------------------------------
(* The steps.                                                              *)

LEMMA SuffixEnds ==
  ASSUME NEW held \in Seq(Chars), NEW rest \in Seq(Chars), NEW d \in BOOLEAN, Keeps(rest, d, held),
         d \/ Len(rest) > MaxFrame
  PROVE  Suffix(rest) \in Seq(Chars) /\ Len(Suffix(rest)) = 3 /\ Keeps(Suffix(rest), TRUE, held)
<1> DEFINE n == Len(rest)
           a == Len(held)
           w == Suffix(rest)
<1>0. n \in Nat /\ a \in Nat /\ MaxFrame \in Nat /\ MaxFrame > 3
  BY LimitAssumption
<1>1. n >= 3 /\ n <= a /\ a > MaxFrame /\ EndOf(rest, held, a - n)
  <2>1. CASE d
    BY <2>1 DEF Keeps
  <2>2. CASE ~d
    <3>1. rest = held /\ n > MaxFrame
      BY <2>2 DEF Keeps
    <3>2. EndOf(rest, held, 0) /\ a - n = 0 /\ n >= 3
      BY <1>0, <3>1 DEF EndOf
    <3> QED
      BY <1>0, <3>1, <3>2
  <2> QED
    BY <2>1, <2>2
<1>2. w \in Seq(Chars) /\ Len(w) = 3 /\ \A i \in 1..3 : w[i] = rest[(n - 3) + i]
  <2>1. CASE n <= 3
    <3>1. w = rest /\ n = 3
      <4>1. n >= 3
        BY <1>1
      <4>2. n = 3
        <5>1. n \in Nat /\ n <= 3
          BY <1>0, <2>1
        <5> HIDE DEF n
        <5> QED
          BY ONLY <4>1, <5>1
      <4> QED
        BY <2>1, <4>2 DEF Suffix
    <3>2. \A i \in 1..3 : (n - 3) + i = i
      BY <3>1
    <3> QED
      BY <3>1, <3>2
  <2>2. CASE ~(n <= 3)
    <3> DEFINE x == n - 2
    <3>1. /\ x \in Nat /\ x >= 1 /\ x <= n + 1 /\ n - x + 1 = 3 /\ n <= Len(rest)
          /\ \A i \in 1..3 : i + x - 1 = (n - 3) + i
      BY <1>0, <2>2
    <3>2. w = SubSeq(rest, x, n)
      BY <2>2 DEF Suffix
    <3> HIDE DEF x, n, w
    <3>3. w \in Seq(Chars) /\ Len(w) = n - x + 1 /\ \A i \in 1..(n - x + 1) : w[i] = rest[i + x - 1]
      BY <1>0, <3>1, <3>2, SubSeqIs
    <3> QED
      BY <3>1, <3>3
  <2> QED
    BY <2>1, <2>2
<1>3. Len(held) = (a - 3) + Len(w) /\ a - 3 = Len(held) - Len(w) /\ Len(w) >= 3 /\ Len(w) <= Len(held)
  BY <1>0, <1>1, <1>2
<1> HIDE DEF w
<1>4. ASSUME NEW i \in 1..Len(w) PROVE w[i] = held[(a - 3) + i]
  <2>1. i \in 1..3 /\ (n - 3) + i \in 1..n /\ (a - n) + ((n - 3) + i) = (a - 3) + i
    BY <1>0, <1>1, <1>2
  <2>2. rest[(n - 3) + i] = held[(a - n) + ((n - 3) + i)]
    BY <1>1, <2>1 DEF EndOf
  <2> QED
    BY <1>2, <2>1, <2>2
<1>5. EndOf(w, held, a - 3)
  BY <1>3, <1>4 DEF EndOf
<1>6. Keeps(w, TRUE, held)
  BY <1>1, <1>3, <1>5 DEF Keeps
<1> QED
  BY <1>2, <1>6 DEF w

Bounded(buf, drops) == Len(buf) <= IF drops THEN 3 ELSE MaxFrame

WholeRead(whole) == Readings(whole)[Len(whole)]

Observing == Rel(buffer, dropping, consumed, WholeRead(text))

Types ==
  /\ buffer \in Seq(Chars) /\ dropping \in BOOLEAN /\ finished \in BOOLEAN
  /\ text \in Seq(Chars) /\ consumed \in Seq(Seq(Chars))

(* What #consumeText leaves when the text t has arrived.                   *)
LEMMA ConsumedIs ==
  ASSUME Types, Observing, NEW t \in Seq(Chars)
  PROVE  LET u == Consumed(t)
         IN /\ u \in Pending /\ Bounded(u.rest, u.dropping)
            /\ text \o t \in Seq(Chars)
            /\ Rel(u.rest, u.dropping, u.events, WholeRead(text \o t))
<1> DEFINE whole == text \o t
           n == Len(text)
           start == [rest |-> buffer \o t, dropping |-> dropping, events |-> consumed]
           s == Split[start]
           last == Readings(whole)[Len(whole)]
           u == Consumed(t)
<1>1. buffer \in Seq(Chars) /\ dropping \in BOOLEAN /\ text \in Seq(Chars) /\ consumed \in Seq(Seq(Chars))
  BY DEF Types
<1>2. /\ whole \in Seq(Chars) /\ Len(whole) = n + Len(t)
      /\ \A i \in 1..(n + Len(t)) : whole[i] = IF i <= n THEN text[i] ELSE t[i - n]
  BY <1>1, ConcatProperties
<1>3. n \in Nat /\ Len(t) \in Nat
  BY <1>1
<1>4. start \in Pending
  <2>1. buffer \o t \in Seq(Chars)
    BY <1>1, ConcatProperties
  <2> QED
    BY <1>1, <2>1 DEF Pending
<1>5. Readings(whole)[n] = WholeRead(text)
  <2>1. n \in 0..Len(text)
    BY <1>3
  <2> QED
    BY <1>1, <2>1, ReadingsExtend DEF WholeRead
<1> HIDE DEF whole, n
<1>6. n \in 0..Len(whole) /\ Len(whole) - n = Len(t)
  BY <1>2, <1>3
<1>7. Later(whole, n) = t
  <2>1. /\ Later(whole, n) \in Seq(Chars) /\ Len(Later(whole, n)) = Len(t)
        /\ \A i \in 1..Len(t) : Later(whole, n)[i] = whole[n + i]
    BY <1>2, <1>6, LaterIs
  <2>2. ASSUME NEW i \in 1..Len(t) PROVE whole[n + i] = t[i]
    <3>1. n + i \in 1..(n + Len(t)) /\ ~(n + i <= n) /\ (n + i) - n = i
      BY <1>3
    <3> QED
      BY <1>2, <3>1
  <2>3. \A i \in 1..Len(t) : Later(whole, n)[i] = t[i]
    BY <2>1, <2>2
  <2> QED
    BY <2>1, <2>3, SeqEqual
<1>8. start.rest = buffer \o Later(whole, n) /\ Rel(buffer, start.dropping, start.events, Readings(whole)[n])
  BY <1>5, <1>7 DEF Observing
<1> HIDE DEF start, last
<1>9. s \in Pending /\ Rel(s.rest, s.dropping, s.events, last)
  BY <1>1, <1>2, <1>4, <1>6, <1>8, LoopReads DEF last
<1>10. u = [rest |-> IF s.dropping \/ Len(s.rest) > MaxFrame THEN Suffix(s.rest) ELSE s.rest,
            dropping |-> s.dropping \/ Len(s.rest) > MaxFrame, events |-> s.events]
  BY DEF Consumed, Oversized, start
<1> HIDE DEF s, u
<1>11. /\ s.rest \in Seq(Chars) /\ s.dropping \in BOOLEAN /\ s.events \in Seq(Seq(Chars))
       /\ last \in Readers /\ last.rest \in Seq(Chars) /\ Clean(last.rest)
       /\ Keeps(s.rest, s.dropping, last.rest) /\ Sees(s.events, last.events)
  BY <1>9 DEF Pending, Rel, Readers
<1>12. CASE s.dropping \/ Len(s.rest) > MaxFrame
  <2>1. u.rest = Suffix(s.rest) /\ u.dropping = TRUE /\ u.events = s.events
        /\ u = [rest |-> Suffix(s.rest), dropping |-> TRUE, events |-> s.events]
    BY <1>10, <1>12
  <2>2. Suffix(s.rest) \in Seq(Chars) /\ Len(Suffix(s.rest)) = 3 /\ Keeps(Suffix(s.rest), TRUE, last.rest)
    BY <1>11, <1>12, SuffixEnds
  <2>3. u \in Pending
    BY <1>11, <2>1, <2>2 DEF Pending
  <2>4. Bounded(u.rest, u.dropping)
    BY <2>1, <2>2 DEF Bounded
  <2>5. Rel(u.rest, u.dropping, u.events, last)
    BY <1>11, <2>1, <2>2 DEF Rel
  <2> QED
    BY <1>2, <2>3, <2>4, <2>5 DEF u, last, whole, WholeRead
<1>13. CASE ~(s.dropping \/ Len(s.rest) > MaxFrame)
  <2>1. u.rest = s.rest /\ u.dropping = FALSE /\ u.events = s.events /\ s.dropping = FALSE
        /\ u = [rest |-> s.rest, dropping |-> FALSE, events |-> s.events]
    BY <1>10, <1>11, <1>13
  <2>2. u \in Pending
    BY <1>11, <2>1 DEF Pending
  <2>3. Len(s.rest) <= MaxFrame
    BY <1>11, <1>13, LimitAssumption
  <2>4. Bounded(u.rest, u.dropping)
    BY <2>1, <2>3 DEF Bounded
  <2>5. Rel(u.rest, u.dropping, u.events, last)
    BY <1>9, <2>1
  <2> QED
    BY <1>2, <2>2, <2>4, <2>5 DEF u, last, whole, WholeRead
<1> QED
  BY <1>12, <1>13

FramesInv ==
  /\ Types /\ Bounded(buffer, dropping)
  /\ ~finished => Observing
  /\ finished => Sees(consumed, EventsOf(text))

LEMMA InvGives == FramesInv => EventsIndependentOfChunks
<1> SUFFICES ASSUME FramesInv PROVE EventsIndependentOfChunks
  OBVIOUS
<1>1. Types /\ Bounded(buffer, dropping)
  BY DEF FramesInv
<1>2. TypeOK
  BY <1>1 DEF Types, Bounded, TypeOK
<1>3. Sees(consumed, EventsOf(text))
  <2>1. CASE finished
    BY <2>1 DEF FramesInv
  <2>2. CASE ~finished
    BY <2>2 DEF FramesInv, Observing, Rel, EventsOf, WholeRead
  <2> QED
    BY <2>1, <2>2
<1> HIDE DEF FramesInv
<1> QED
  BY <1>2, <1>3 DEF EventsIndependentOfChunks, Sees

LEMMA FramesStart == Init => FramesInv
<1> SUFFICES ASSUME Init PROVE FramesInv
  OBVIOUS
<1>1. buffer = <<>> /\ dropping = FALSE /\ consumed = <<>> /\ text = <<>> /\ finished = FALSE
  BY DEF Init
<1>2. Types /\ Bounded(buffer, dropping)
  <2>1. Len(<<>>) = 0 /\ 0 <= MaxFrame
    BY LimitAssumption
  <2>2. Types
    <3>1. <<>> \in Seq(Chars) /\ <<>> \in Seq(Seq(Chars))
      OBVIOUS
    <3> QED
      BY <1>1, <3>1 DEF Types
  <2> QED
    BY <1>1, <2>1, <2>2 DEF Bounded
<1>3. WholeRead(text) = Unread
  <2>1. <<>> \in Seq(Chars) /\ Len(<<>>) = 0
    OBVIOUS
  <2> QED
    BY <1>1, <2>1, ReadingsAre DEF WholeRead
<1>4. Rel(<<>>, FALSE, <<>>, Unread)
  <2>1. Unread \in Readers /\ Unread.rest = <<>> /\ Unread.events = <<>>
    BY DEF Unread, Readers
  <2>2. Clean(<<>>) /\ Keeps(<<>>, FALSE, <<>>)
    BY DEF Clean, Keeps
  <2> QED
    BY <2>1, <2>2, SeesNone DEF Rel
<1> QED
  BY <1>1, <1>2, <1>3, <1>4 DEF FramesInv, Observing

LEMMA FramesObserve ==
  ASSUME FramesInv, NEW chunk \in Seq(Chars), Observe(chunk)
  PROVE  FramesInv'
<1> DEFINE u == Consumed(chunk)
<1>1. /\ ~finished /\ ~finished' /\ text' = text \o chunk
      /\ buffer' = u.rest /\ dropping' = u.dropping /\ consumed' = u.events
  BY DEF Observe
<1>2. Types /\ Observing
  BY <1>1 DEF FramesInv
<1>3. /\ u \in Pending /\ Bounded(u.rest, u.dropping) /\ text \o chunk \in Seq(Chars)
      /\ Rel(u.rest, u.dropping, u.events, WholeRead(text \o chunk))
  BY <1>2, ConsumedIs
<1> HIDE DEF u
<1>4. Types'
  BY <1>1, <1>2, <1>3 DEF Types, Pending, Observe
<1>5. Bounded(buffer, dropping)'
  BY <1>1, <1>3 DEF Bounded
<1>6. Observing'
  BY <1>1, <1>3 DEF Observing, WholeRead
<1> QED
  BY <1>1, <1>4, <1>5, <1>6 DEF FramesInv

LEMMA FramesFinish ==
  ASSUME FramesInv, Finish
  PROVE  FramesInv'
<1> DEFINE u == Consumed(<<>>)
           r == WholeRead(text)
<1>1. /\ ~finished /\ finished' = TRUE /\ text' = text
      /\ buffer' = <<>> /\ dropping' = u.dropping /\ consumed' = Leftover(u)
  BY DEF Finish
<1>2. Types /\ Observing
  BY <1>1 DEF FramesInv
<1>3. text \in Seq(Chars) /\ text \o <<>> = text
  BY <1>2, ConcatEmptySeq DEF Types
<1>4. /\ u \in Pending /\ Bounded(u.rest, u.dropping)
      /\ Rel(u.rest, u.dropping, u.events, r)
  <2>1. <<>> \in Seq(Chars)
    OBVIOUS
  <2> QED
    BY <1>2, <1>3, <2>1, ConsumedIs
<1> HIDE DEF u, r
<1>5. /\ u.rest \in Seq(Chars) /\ u.dropping \in BOOLEAN /\ u.events \in Seq(Seq(Chars))
      /\ r.rest \in Seq(Chars) /\ r.events \in Seq(Seq(Chars))
      /\ Keeps(u.rest, u.dropping, r.rest) /\ Sees(u.events, r.events)
  BY <1>4 DEF Pending, Rel, Readers
<1>6. Types'
  BY <1>1, <1>2, <1>5 DEF Types, Leftover
<1>7. Bounded(buffer, dropping)'
  BY <1>1, LimitAssumption DEF Bounded
<1>8. Sees(consumed', IF r.rest # <<>> THEN Append(r.events, r.rest) ELSE r.events)
  <2>1. CASE u.dropping
    <3>1. consumed' = u.events /\ Len(r.rest) > MaxFrame
      BY <1>1, <1>5, <2>1 DEF Leftover, Keeps
    <3>2. Len(r.rest) \in Nat /\ Len(r.rest) > MaxFrame - 3 /\ Len(r.rest) # 0
      BY <1>5, <3>1, LimitAssumption
    <3>3. r.rest # <<>>
      BY <3>2
    <3> QED
      BY <1>5, <3>1, <3>2, <3>3, SeesNext
  <2>2. CASE ~u.dropping
    <3>1. u.rest = r.rest
      BY <1>5, <2>2 DEF Keeps
    <3>2. Len(r.rest) <= MaxFrame
      BY <1>4, <2>2, <3>1 DEF Bounded
    <3>3. CASE r.rest # <<>>
      <4>1. consumed' = Append(u.events, r.rest)
        BY <1>1, <2>2, <3>1, <3>3 DEF Leftover
      <4>2. Sees(consumed', Append(r.events, r.rest))
        BY <1>5, <3>2, <4>1, SeesNext
      <4> QED
        BY <3>3, <4>2
    <3>4. CASE r.rest = <<>>
      BY <1>1, <1>5, <2>2, <3>1, <3>4 DEF Leftover
    <3> QED
      BY <3>3, <3>4
  <2> QED
    BY <2>1, <2>2
<1>9. Sees(consumed, EventsOf(text))'
  BY <1>1, <1>8 DEF EventsOf, r, WholeRead
<1> QED
  BY <1>1, <1>6, <1>7, <1>9 DEF FramesInv

LEMMA ChunksAreTexts ==
  ASSUME NEW chunk \in UNION {[1..n -> Chars] : n \in 1..MaxChunk}
  PROVE  chunk \in Seq(Chars)
<1>1. PICK n \in 1..MaxChunk : chunk \in [1..n -> Chars]
  OBVIOUS
<1>2. n \in Nat
  BY BoundsAssumption
<1> QED
  BY <1>1, <1>2

LEMMA FramesNext == FramesInv /\ [Next]_vars => FramesInv'
<1> SUFFICES ASSUME FramesInv, [Next]_vars PROVE FramesInv'
  OBVIOUS
<1>1. CASE \E chunk \in UNION {[1..n -> Chars] : n \in 1..MaxChunk} : Observe(chunk)
  BY <1>1, ChunksAreTexts, FramesObserve
<1>2. CASE Finish
  BY <1>2, FramesFinish
<1>3. CASE UNCHANGED vars
  BY <1>3 DEF vars, FramesInv, Types, Bounded, Observing, WholeRead, EventsOf
<1> QED
  BY <1>1, <1>2, <1>3 DEF Next

(* However the body is cut into chunks, the observer takes the events of   *)
(* the whole text: the loop of #consumeText and finish(), alone.           *)
THEOREM EventsFound == Spec => []EventsIndependentOfChunks
<1> QED
  BY FramesStart, FramesNext, InvGives, PTL DEF Spec

(* The same of the whole observer, which reads the payloads as well.       *)
THEOREM EventsObserved == ObserverSpec => []EventsIndependentOfChunks
<1>1. ObserverInit => FramesInv
  BY FramesStart DEF ObserverInit
<1>2. FramesInv /\ [ObserverNext]_observerVars => FramesInv'
  <2>1. [ObserverNext]_observerVars => [Next]_vars
    BY DEF ObserverNext, Next, ObserveChunk, FinishStream, observerVars
  <2> QED
    BY <2>1, FramesNext
<1> QED
  BY <1>1, <1>2, InvGives, PTL DEF ObserverSpec

-----------------------------------------------------------------------------
(* What one payload does to the metrics.                                   *)

MetricFields == {"ttftMs", "inputTokens", "outputTokens", "totalTokens", "cachedTokens",
                 "promptTokensPerSecond", "generationTokensPerSecond"}

Metrics == [ttftMs : SUBSET Nat, inputTokens : SUBSET Nat, outputTokens : SUBSET Nat,
            totalTokens : SUBSET Nat, cachedTokens : SUBSET Nat,
            promptTokensPerSecond : SUBSET Nat, generationTokensPerSecond : SUBSET Nat]

(* The payloads that tell the prompt.                                      *)
Opens(b, n) == n \in b.kinds["first"] \/ (n \in b.kinds["final"] /\ b.kinds["first"] = {})

(* The numbers are those of the backend, as far as they are known; of an   *)
(* Anthropic stream the output may be one that was anticipated.            *)
Sound(b, md) ==
  /\ md \in Metrics
  /\ md.inputTokens \in {Missing, {b.truth.input}}
  /\ md.cachedTokens \in {Missing, {b.truth.cached}}
  /\ md.totalTokens \in {Missing, {b.truth.input + b.truth.output}}
  /\ md.cachedTokens # Missing => md.inputTokens # Missing
  /\ md.totalTokens # Missing => md.inputTokens # Missing /\ md.outputTokens = {b.truth.output}
  /\ b.protocol = "openai" => md.outputTokens \in {Missing, {b.truth.output}}
  /\ b.protocol = "anthropic" => md.totalTokens = Missing

(* The step of the metrics by the n-th payload.                            *)
Moves(b, n, elapsed, md, then) ==
  /\ Sound(b, then)
  /\ then.ttftMs = IF md.ttftMs = Missing /\ n \in b.kinds["visible"] THEN {elapsed} ELSE md.ttftMs
  /\ md.inputTokens # Missing => then.inputTokens # Missing
  /\ md.cachedTokens # Missing => then.cachedTokens # Missing
  /\ Opens(b, n) => then.inputTokens # Missing /\ then.cachedTokens # Missing
  /\ n \in b.kinds["final"] => then.outputTokens = {b.truth.output}
  /\ n \notin b.kinds["first"] \union b.kinds["final"] /\ md.outputTokens = {b.truth.output}
       => then.outputTokens = {b.truth.output}

LEMMA WithTtftIs ==
  ASSUME NEW md \in Metrics, NEW visible \in BOOLEAN, NEW t \in Nat
  PROVE  LET u == WithTtft(md, visible, t)
         IN /\ u \in Metrics
            /\ u.ttftMs = IF md.ttftMs = Missing /\ visible THEN {t} ELSE md.ttftMs
            /\ u.inputTokens = md.inputTokens /\ u.outputTokens = md.outputTokens
            /\ u.totalTokens = md.totalTokens /\ u.cachedTokens = md.cachedTokens
  BY DEF WithTtft, Metrics, Missing

LEMMA WithUsageIs ==
  ASSUME NEW md \in Metrics,
         NEW usage \in [{"prompt_tokens", "completion_tokens", "total_tokens", "cached_tokens"}
                          -> SUBSET Nat]
  PROVE  LET u == WithUsage(md, usage)
         IN /\ u \in Metrics /\ u.ttftMs = md.ttftMs
            /\ u.inputTokens = NumberOrCurrent(usage.prompt_tokens, md.inputTokens)
            /\ u.outputTokens = NumberOrCurrent(usage.completion_tokens, md.outputTokens)
            /\ u.totalTokens = NumberOrCurrent(usage.total_tokens, md.totalTokens)
            /\ u.cachedTokens = NumberOrCurrent(usage.cached_tokens, md.cachedTokens)
<1> DEFINE input == NumberOrCurrent(usage.prompt_tokens, md.inputTokens)
           output == NumberOrCurrent(usage.completion_tokens, md.outputTokens)
           total == NumberOrCurrent(usage.total_tokens, md.totalTokens)
           cached == NumberOrCurrent(usage.cached_tokens, md.cachedTokens)
<1>1. /\ input \in SUBSET Nat /\ output \in SUBSET Nat
      /\ total \in SUBSET Nat /\ cached \in SUBSET Nat
  BY DEF Metrics, NumberOrCurrent
<1>2. WithUsage(md, usage) = [md EXCEPT !.inputTokens = input, !.outputTokens = output,
                                        !.totalTokens = total, !.cachedTokens = cached]
  BY DEF WithUsage
<1> HIDE DEF input, output, total, cached
<1>3. LET u == [md EXCEPT !.inputTokens = input, !.outputTokens = output,
                          !.totalTokens = total, !.cachedTokens = cached]
      IN /\ u \in Metrics /\ u.ttftMs = md.ttftMs /\ u.inputTokens = input
         /\ u.outputTokens = output /\ u.totalTokens = total /\ u.cachedTokens = cached
  BY <1>1 DEF Metrics
<1> QED
  BY <1>2, <1>3 DEF input, output, total, cached

LEMMA WithTimingsIs ==
  ASSUME NEW md \in Metrics,
         NEW timings \in [{"cache_n", "prompt_n", "predicted_n", "prompt_per_second",
                           "predicted_per_second"} -> SUBSET Nat],
         PromptTokens(timings) \in SUBSET Nat
  PROVE  LET u == WithTimings(md, timings)
         IN /\ u \in Metrics /\ u.ttftMs = md.ttftMs
            /\ u.inputTokens = NumberOrCurrent(md.inputTokens, PromptTokens(timings))
            /\ u.outputTokens = NumberOrCurrent(md.outputTokens, timings.predicted_n)
            /\ u.totalTokens = md.totalTokens
            /\ u.cachedTokens = NumberOrCurrent(timings.cache_n, md.cachedTokens)
<1> DEFINE c == NumberOrCurrent(timings.cache_n, md.cachedTokens)
           i == NumberOrCurrent(md.inputTokens, PromptTokens(timings))
           o == NumberOrCurrent(md.outputTokens, timings.predicted_n)
           p == NumberOrCurrent(timings.prompt_per_second, md.promptTokensPerSecond)
           g == NumberOrCurrent(timings.predicted_per_second, md.generationTokensPerSecond)
           u == WithTimings(md, timings)
<1>1. c \in SUBSET Nat
  BY DEF NumberOrCurrent, Metrics
<1>2. i \in SUBSET Nat /\ o \in SUBSET Nat
  BY DEF NumberOrCurrent, Metrics
<1>3. p \in SUBSET Nat /\ g \in SUBSET Nat
  BY DEF NumberOrCurrent, Metrics
<1>4. u = [md EXCEPT !.cachedTokens = c, !.inputTokens = i, !.outputTokens = o,
                     !.promptTokensPerSecond = p, !.generationTokensPerSecond = g]
  BY DEF WithTimings
<1> HIDE DEF c, i, o, p, g, u
<1>5. /\ u \in Metrics /\ u.ttftMs = md.ttftMs /\ u.totalTokens = md.totalTokens
      /\ u.inputTokens = i /\ u.outputTokens = o /\ u.cachedTokens = c
  BY <1>1, <1>2, <1>3, <1>4 DEF Metrics
<1> QED
  BY <1>5 DEF u, i, o, c

LEMMA ApplyAnthropicUsageIs ==
  ASSUME NEW md \in Metrics,
         NEW usage \in [{"input_tokens", "cache_creation_input_tokens", "cache_read_input_tokens",
                         "output_tokens"} -> SUBSET Nat],
         AnthropicInput(usage) \in SUBSET Nat
  PROVE  LET u == ApplyAnthropicUsage(usage, md)
         IN /\ u \in Metrics /\ u.ttftMs = md.ttftMs
            /\ u.inputTokens = NumberOrCurrent(AnthropicInput(usage), md.inputTokens)
            /\ u.outputTokens = NumberOrCurrent(usage.output_tokens, md.outputTokens)
            /\ u.totalTokens = md.totalTokens
            /\ u.cachedTokens = NumberOrCurrent(usage.cache_read_input_tokens, md.cachedTokens)
  BY DEF ApplyAnthropicUsage, Metrics, NumberOrCurrent

LEMMA CachedIsOfInput ==
  ASSUME NEW usage, usage.cache_read_input_tokens # Missing
  PROVE  AnthropicInput(usage) # Missing
  BY DEF AnthropicInput, Missing

LEMMA OpenAiMoves ==
  ASSUME NEW b, Truthful(b), b.protocol = "openai", NEW n \in DOMAIN b.payloads,
         NEW t \in Nat, NEW md, Sound(b, md)
  PROVE  Moves(b, n, t, md, ObserveOpenAiPayload(b.payloads[n], t, md))
<1> DEFINE payload == b.payloads[n]
           usage == payload.usage
           timings == payload.timings
           final == n \in b.kinds["final"]
           visible == HasOpenAiGeneratedDelta(payload)
           timed == WithTtft(md, visible, t)
           used == WithUsage(timed, usage)
           then == WithTimings(used, timings)
           prompt == PromptTokens(timings)
           input == b.truth.input
           cached == b.truth.cached
           output == b.truth.output
<1>1. /\ b.kinds["first"] = {}
      /\ usage \in [{"prompt_tokens", "completion_tokens", "total_tokens", "cached_tokens"}
                      -> SUBSET Nat]
      /\ timings \in [{"cache_n", "prompt_n", "predicted_n", "prompt_per_second",
                       "predicted_per_second"} -> SUBSET Nat]
      /\ Given({usage.prompt_tokens, prompt}, input, final)
      /\ Given({usage.cached_tokens, timings.cache_n}, cached, final)
      /\ Given({usage.completion_tokens, timings.predicted_n}, output, final)
      /\ Given({usage.total_tokens}, input + output, FALSE)
      /\ ~final => {usage.cached_tokens, timings.cache_n, usage.total_tokens} = {Missing}
      /\ n \in b.kinds["visible"] <=> visible
  BY DEF Truthful, TrueOpenAi
<1>2. input \in Nat /\ cached \in Nat /\ output \in Nat
  BY DEF Truthful
<1>3. visible \in BOOLEAN /\ md \in Metrics
  BY DEF HasOpenAiGeneratedDelta, Sound
<1> HIDE DEF payload, usage, timings, visible, prompt, input, cached, output
<1>4. prompt \in SUBSET Nat
  BY <1>1, <1>2 DEF Given, Missing
<1>5. /\ timed \in Metrics
      /\ timed.ttftMs = IF md.ttftMs = Missing /\ visible THEN {t} ELSE md.ttftMs
      /\ timed.inputTokens = md.inputTokens /\ timed.outputTokens = md.outputTokens
      /\ timed.totalTokens = md.totalTokens /\ timed.cachedTokens = md.cachedTokens
  BY <1>3, WithTtftIs
<1> HIDE DEF timed
<1>6. /\ used \in Metrics /\ used.ttftMs = timed.ttftMs
      /\ used.inputTokens = NumberOrCurrent(usage.prompt_tokens, md.inputTokens)
      /\ used.outputTokens = NumberOrCurrent(usage.completion_tokens, md.outputTokens)
      /\ used.totalTokens = NumberOrCurrent(usage.total_tokens, md.totalTokens)
      /\ used.cachedTokens = NumberOrCurrent(usage.cached_tokens, md.cachedTokens)
  BY <1>1, <1>5, WithUsageIs
<1> HIDE DEF used
<1>7. /\ then \in Metrics /\ then.ttftMs = timed.ttftMs
      /\ then.inputTokens = NumberOrCurrent(used.inputTokens, prompt)
      /\ then.outputTokens = NumberOrCurrent(used.outputTokens, timings.predicted_n)
      /\ then.totalTokens = used.totalTokens
      /\ then.cachedTokens = NumberOrCurrent(timings.cache_n, used.cachedTokens)
  BY <1>1, <1>4, <1>6, WithTimingsIs DEF prompt
<1> HIDE DEF then
<1>8. /\ md.inputTokens \in {Missing, {input}}
      /\ md.cachedTokens \in {Missing, {cached}}
      /\ md.totalTokens \in {Missing, {input + output}}
      /\ md.outputTokens \in {Missing, {output}}
      /\ md.cachedTokens # Missing => md.inputTokens # Missing
      /\ md.totalTokens # Missing => md.inputTokens # Missing /\ md.outputTokens = {output}
  BY DEF Sound, input, cached, output
<1>9. /\ then.inputTokens \in {Missing, {input}}
      /\ md.inputTokens # Missing \/ final => then.inputTokens = {input}
  BY <1>1, <1>6, <1>7, <1>8 DEF Given, NumberOrCurrent, Missing
<1>10. /\ then.outputTokens \in {Missing, {output}}
       /\ md.outputTokens # Missing \/ final => then.outputTokens = {output}
  BY <1>1, <1>6, <1>7, <1>8 DEF Given, NumberOrCurrent, Missing
<1>11. /\ then.cachedTokens \in {Missing, {cached}}
       /\ md.cachedTokens # Missing \/ final => then.cachedTokens = {cached}
       /\ ~final => then.cachedTokens = md.cachedTokens
  BY <1>1, <1>6, <1>7, <1>8 DEF Given, NumberOrCurrent, Missing
<1>12. /\ then.totalTokens \in {Missing, {input + output}}
       /\ ~final => then.totalTokens = md.totalTokens
  BY <1>1, <1>6, <1>7, <1>8 DEF Given, NumberOrCurrent, Missing
<1>13. {input} # Missing /\ {output} # Missing /\ {cached} # Missing
  BY DEF Missing
<1>14. Sound(b, then)
  <2>1. then.cachedTokens # Missing => then.inputTokens # Missing
    BY <1>8, <1>9, <1>11, <1>13
  <2>2. then.totalTokens # Missing => then.inputTokens # Missing /\ then.outputTokens = {output}
    BY <1>8, <1>9, <1>10, <1>12, <1>13
  <2> QED
    BY <1>7, <1>9, <1>10, <1>11, <1>12, <2>1, <2>2 DEF Sound, input, cached, output
<1>15. Opens(b, n) <=> final
  BY <1>1 DEF Opens
<1>16. Moves(b, n, t, md, then)
  BY <1>1, <1>5, <1>7, <1>8, <1>9, <1>10, <1>11, <1>13, <1>14, <1>15 DEF Moves, output
<1> QED
  BY <1>16 DEF ObserveOpenAiPayload, then, used, timed, visible, usage, timings, payload

LEMMA AnthropicMoves ==
  ASSUME NEW b, Truthful(b), b.protocol = "anthropic", NEW n \in DOMAIN b.payloads,
         NEW t \in Nat, NEW md, Sound(b, md)
  PROVE  Moves(b, n, t, md, ObserveAnthropicPayload(b.payloads[n], t, md))
<1> DEFINE payload == b.payloads[n]
           usage == payload.usage
           first == n \in b.kinds["first"]
           final == n \in b.kinds["final"]
           reports == payload.type \in ReportTypes
           visible == payload.type = "content_block_delta" /\ HasAnthropicGeneratedDelta(payload)
           reported == IF reports THEN ApplyAnthropicUsage(usage, md) ELSE md
           then == WithTtft(reported, visible, t)
           prompt == AnthropicInput(usage)
           input == b.truth.input
           cached == b.truth.cached
           output == b.truth.output
<1>1. /\ usage \in [{"input_tokens", "cache_creation_input_tokens", "cache_read_input_tokens",
                     "output_tokens"} -> SUBSET Nat]
      /\ first \/ final => reports
      /\ reports => /\ Given({prompt}, input, Opens(b, n))
                    /\ Given({usage.cache_read_input_tokens}, cached, Opens(b, n))
                    /\ final => usage.output_tokens = {output}
                    /\ ~(first \/ final) => usage.output_tokens = Missing
      /\ n \in b.kinds["visible"] <=> visible
  BY DEF Truthful, TrueAnthropic, Opens
<1>2. input \in Nat /\ cached \in Nat /\ output \in Nat
  BY DEF Truthful
<1>3. visible \in BOOLEAN /\ md \in Metrics
  BY DEF HasAnthropicGeneratedDelta, Sound
<1>4. usage.cache_read_input_tokens # Missing => prompt # Missing
  BY CachedIsOfInput
<1> HIDE DEF payload, usage, reports, visible, prompt, input, cached, output
<1>5. reports => prompt \in SUBSET Nat
  BY <1>1, <1>2 DEF Given, Missing
<1>6. /\ reported \in Metrics /\ reported.ttftMs = md.ttftMs
      /\ reported.inputTokens = IF reports THEN NumberOrCurrent(prompt, md.inputTokens)
                                ELSE md.inputTokens
      /\ reported.outputTokens = IF reports THEN NumberOrCurrent(usage.output_tokens, md.outputTokens)
                                 ELSE md.outputTokens
      /\ reported.totalTokens = md.totalTokens
      /\ reported.cachedTokens = IF reports
                                   THEN NumberOrCurrent(usage.cache_read_input_tokens, md.cachedTokens)
                                 ELSE md.cachedTokens
  <2>1. CASE reports
    BY <1>1, <1>3, <1>5, <2>1, ApplyAnthropicUsageIs DEF prompt
  <2>2. CASE ~reports
    BY <1>3, <2>2
  <2> QED
    BY <2>1, <2>2
<1> HIDE DEF reported
<1>7. /\ then \in Metrics
      /\ then.ttftMs = IF md.ttftMs = Missing /\ visible THEN {t} ELSE md.ttftMs
      /\ then.inputTokens = reported.inputTokens /\ then.outputTokens = reported.outputTokens
      /\ then.totalTokens = md.totalTokens /\ then.cachedTokens = reported.cachedTokens
  BY <1>3, <1>6, WithTtftIs
<1> HIDE DEF then
<1>8. /\ md.inputTokens \in {Missing, {input}}
      /\ md.cachedTokens \in {Missing, {cached}}
      /\ md.totalTokens = Missing
      /\ md.cachedTokens # Missing => md.inputTokens # Missing
  BY DEF Sound, input, cached, output
<1>9. /\ then.inputTokens \in {Missing, {input}}
      /\ md.inputTokens # Missing \/ Opens(b, n) => then.inputTokens = {input}
      /\ reports /\ prompt # Missing => then.inputTokens = {input}
  <2>1. Opens(b, n) => reports
    BY <1>1 DEF Opens
  <2> QED
    BY <1>1, <1>6, <1>7, <1>8, <2>1 DEF Given, NumberOrCurrent, Missing
<1>10. /\ then.cachedTokens \in {Missing, {cached}}
       /\ md.cachedTokens # Missing \/ Opens(b, n) => then.cachedTokens = {cached}
       /\ then.cachedTokens = md.cachedTokens \/ (reports /\ usage.cache_read_input_tokens # Missing)
  <2>1. Opens(b, n) => reports
    BY <1>1 DEF Opens
  <2> QED
    BY <1>1, <1>6, <1>7, <1>8, <2>1 DEF Given, NumberOrCurrent, Missing
<1>11. /\ final => then.outputTokens = {output}
       /\ ~(first \/ final) => then.outputTokens = md.outputTokens
  BY <1>1, <1>6, <1>7 DEF NumberOrCurrent, Missing
<1>12. {input} # Missing /\ {cached} # Missing
  BY DEF Missing
<1>13. Sound(b, then)
  <2>1. then.cachedTokens # Missing => then.inputTokens # Missing
    BY <1>4, <1>8, <1>9, <1>10, <1>12
  <2> QED
    BY <1>7, <1>8, <1>9, <1>10, <2>1 DEF Sound, input, cached, output
<1>14. Moves(b, n, t, md, then)
  BY <1>1, <1>7, <1>8, <1>9, <1>10, <1>11, <1>12, <1>13 DEF Moves, output
<1> QED
  BY <1>14 DEF ObserveAnthropicPayload, then, reported, reports, visible, usage, payload

LEMMA PayloadMoves ==
  ASSUME NEW b, Truthful(b), NEW n \in DOMAIN b.payloads,
         NEW t \in Nat, NEW md, Sound(b, md)
  PROVE  Moves(b, n, t, md, Observed(b.protocol, b.payloads[n], t, md))
<1>1. CASE b.protocol = "openai"
  BY <1>1, OpenAiMoves DEF Observed
<1>2. CASE b.protocol = "anthropic"
  BY <1>2, AnthropicMoves DEF Observed
<1>3. CASE b.protocol = "none"
  <2>1. Observed(b.protocol, b.payloads[n], t, md) = md
    BY <1>3 DEF Observed
  <2>2. b.kinds["first"] = {} /\ b.kinds["final"] = {} /\ b.kinds["visible"] = {}
    BY <1>3 DEF Truthful
  <2> QED
    BY <2>1, <2>2 DEF Moves, Opens
<1> QED
  BY <1>1, <1>2, <1>3 DEF Truthful

-----------------------------------------------------------------------------
(* The metrics and the events they were read from.                         *)

(* IsPayload, of a backend b.                                              *)
Names(b, event) == Len(event) \in DOMAIN b.payloads /\ event = [i \in DOMAIN event |-> "x"]

Told(b, list, kind) == {i \in DOMAIN list : Names(b, list[i]) /\ Len(list[i]) \in b.kinds[kind]}

Opened(b, list) == \E i \in DOMAIN list : Names(b, list[i]) /\ Opens(b, Len(list[i]))

Concluded(b, list) ==
  \E i \in Told(b, list, "final") :
    \A kind \in {"first", "final"} : \A j \in Told(b, list, kind) : j <= i

Kept(b, list, md) ==
  /\ Sound(b, md)
  /\ md.ttftMs = Missing <=> Told(b, list, "visible") = {}
  /\ Opened(b, list) => md.inputTokens # Missing /\ md.cachedTokens # Missing
  /\ Concluded(b, list) => md.outputTokens = {b.truth.output}

AfterOne(b, e, t, md) ==
  IF Names(b, e) THEN Observed(b.protocol, b.payloads[Len(e)], t, md) ELSE md

LEMMA ToldNext ==
  ASSUME NEW b, NEW list \in Seq(Seq(Chars)), NEW e \in Seq(Chars), NEW kind
  PROVE  Told(b, Append(list, e), kind) =
           Told(b, list, kind) \union
             (IF Names(b, e) /\ Len(e) \in b.kinds[kind] THEN {Len(list) + 1} ELSE {})
<1> DEFINE more == Append(list, e)
           n == Len(list) + 1
<1>1. /\ more \in Seq(Seq(Chars)) /\ DOMAIN more = 1..n /\ more[n] = e /\ DOMAIN list = 1..Len(list)
      /\ \A i \in 1..Len(list) : more[i] = list[i]
  BY AppendProperties
<1>2. /\ \A i \in 1..n : i \in 1..Len(list) \/ i = n
      /\ \A i \in 1..Len(list) : i \in 1..n /\ i # n
      /\ n \in 1..n
  OBVIOUS
<1> HIDE DEF more, n
<1> QED
  BY <1>1, <1>2 DEF Told, more, n

LEMMA OpenedNext ==
  ASSUME NEW b, NEW list \in Seq(Seq(Chars)), NEW e \in Seq(Chars)
  PROVE  Opened(b, Append(list, e)) <=> Opened(b, list) \/ (Names(b, e) /\ Opens(b, Len(e)))
<1> DEFINE more == Append(list, e)
           n == Len(list) + 1
<1>1. /\ more \in Seq(Seq(Chars)) /\ DOMAIN more = 1..n /\ more[n] = e /\ DOMAIN list = 1..Len(list)
      /\ \A i \in 1..Len(list) : more[i] = list[i]
  BY AppendProperties
<1>2. /\ \A i \in 1..n : i \in 1..Len(list) \/ i = n
      /\ \A i \in 1..Len(list) : i \in 1..n /\ i # n
      /\ n \in 1..n
  OBVIOUS
<1> HIDE DEF more, n
<1> QED
  BY <1>1, <1>2 DEF Opened, more

LEMMA ConcludedNext ==
  ASSUME NEW b, NEW list \in Seq(Seq(Chars)), NEW e \in Seq(Chars), Concluded(b, Append(list, e))
  PROVE  \/ Names(b, e) /\ Len(e) \in b.kinds["final"]
         \/ /\ Concluded(b, list)
            /\ ~(Names(b, e) /\ Len(e) \in b.kinds["first"] \union b.kinds["final"])
<1> DEFINE n == Len(list) + 1
           new(kind) == Names(b, e) /\ Len(e) \in b.kinds[kind]
<1>1. \A kind : Told(b, Append(list, e), kind) =
                  Told(b, list, kind) \union (IF new(kind) THEN {n} ELSE {})
  BY ToldNext
<1>2. \A kind : Told(b, list, kind) \subseteq 1..Len(list)
  BY DEF Told
<1> SUFFICES ASSUME ~new("final")
             PROVE  Concluded(b, list) /\ ~new("first")
  OBVIOUS
<1> HIDE DEF new
<1>3. PICK i \in Told(b, Append(list, e), "final") :
        \A kind \in {"first", "final"} : \A j \in Told(b, Append(list, e), kind) : j <= i
  BY DEF Concluded
<1>4. i \in Told(b, list, "final") /\ i \in 1..Len(list)
  BY <1>1, <1>2, <1>3
<1>5. ~(n <= i)
  BY <1>4
<1> HIDE DEF n
<1>6. ~new("first")
  BY <1>1, <1>3, <1>5
<1>7. \A kind \in {"first", "final"} : \A j \in Told(b, list, kind) : j <= i
  BY <1>1, <1>3
<1> QED
  BY <1>4, <1>6, <1>7 DEF Concluded

LEMMA EventKeeps ==
  ASSUME NEW b, Truthful(b), NEW list \in Seq(Seq(Chars)), NEW e \in Seq(Chars), NEW t \in Nat,
         NEW md, Kept(b, list, md)
  PROVE  /\ Kept(b, Append(list, e), AfterOne(b, e, t, md))
         /\ AfterOne(b, e, t, md).ttftMs \in {md.ttftMs, {t}}
         /\ md.ttftMs # Missing => AfterOne(b, e, t, md).ttftMs = md.ttftMs
<1> DEFINE then == AfterOne(b, e, t, md)
           more == Append(list, e)
           k == Len(e)
           n == Len(list) + 1
<1>1. /\ Sound(b, md)
      /\ md.ttftMs = Missing <=> Told(b, list, "visible") = {}
      /\ Opened(b, list) => md.inputTokens # Missing /\ md.cachedTokens # Missing
      /\ Concluded(b, list) => md.outputTokens = {b.truth.output}
  BY DEF Kept
<1>2. CASE Names(b, e)
  <2>1. k \in DOMAIN b.payloads /\ then = Observed(b.protocol, b.payloads[k], t, md)
    BY <1>2 DEF Names, AfterOne
  <2> HIDE DEF then, k
  <2>2. Moves(b, k, t, md, then)
    BY <1>1, <2>1, PayloadMoves
  <2>3. /\ Sound(b, then)
        /\ then.ttftMs = IF md.ttftMs = Missing /\ k \in b.kinds["visible"] THEN {t} ELSE md.ttftMs
        /\ md.inputTokens # Missing => then.inputTokens # Missing
        /\ md.cachedTokens # Missing => then.cachedTokens # Missing
        /\ Opens(b, k) => then.inputTokens # Missing /\ then.cachedTokens # Missing
        /\ k \in b.kinds["final"] => then.outputTokens = {b.truth.output}
        /\ k \notin b.kinds["first"] \union b.kinds["final"] /\ md.outputTokens = {b.truth.output}
             => then.outputTokens = {b.truth.output}
    BY <2>2 DEF Moves
  <2>4. {t} # Missing
    BY DEF Missing
  <2>5. then.ttftMs = Missing <=> Told(b, more, "visible") = {}
    <3>1. Told(b, more, "visible") =
            Told(b, list, "visible") \union (IF k \in b.kinds["visible"] THEN {n} ELSE {})
      <4>1. Told(b, more, "visible") =
              Told(b, list, "visible")
                \union (IF Names(b, e) /\ Len(e) \in b.kinds["visible"] THEN {Len(list) + 1} ELSE {})
        BY ToldNext
      <4> QED
        BY <1>2, <4>1 DEF k
    <3> QED
      BY <1>1, <2>3, <2>4, <3>1
  <2>6. Opened(b, more) => then.inputTokens # Missing /\ then.cachedTokens # Missing
    BY <1>1, <2>3, OpenedNext DEF k
  <2>7. Concluded(b, more) => then.outputTokens = {b.truth.output}
    BY <1>1, <1>2, <2>3, ConcludedNext DEF k
  <2>8. Kept(b, more, then)
    BY <2>3, <2>5, <2>6, <2>7 DEF Kept
  <2> QED
    BY <2>3, <2>8 DEF then
<1>3. CASE ~Names(b, e)
  <2>1. then = md
    BY <1>3 DEF AfterOne
  <2> HIDE DEF then
  <2>2. Told(b, more, "visible") = Told(b, list, "visible")
    <3>1. Told(b, more, "visible") =
            Told(b, list, "visible") \union
              (IF Names(b, e) /\ Len(e) \in b.kinds["visible"] THEN {n} ELSE {})
      BY ToldNext
    <3> HIDE DEF more, n
    <3> QED
      BY <1>3, <3>1
  <2>3. Opened(b, more) <=> Opened(b, list)
    BY <1>3, OpenedNext
  <2>4. Concluded(b, more) => Concluded(b, list)
    BY <1>3, ConcludedNext
  <2>5. Kept(b, more, md)
    BY <1>1, <2>2, <2>3, <2>4 DEF Kept
  <2> QED
    BY <2>1, <2>5 DEF then
<1> QED
  BY <1>2, <1>3

LEMMA KeptFromStart ==
  ASSUME NEW b, Truthful(b)
  PROVE  Kept(b, <<>>, EmptyMetadata)
<1>1. Sound(b, EmptyMetadata)
  BY DEF Sound, EmptyMetadata, Missing, Metrics
<1>2. DOMAIN <<>> = {} /\ EmptyMetadata.ttftMs = Missing
  BY DEF EmptyMetadata
<1> QED
  BY <1>1, <1>2 DEF Kept, Told, Opened, Concluded

(* What is kept makes the numbers true.                                    *)
LEMMA KeptIsTrue ==
  ASSUME backend \in Backends, Kept(backend, consumed, metadata)
  PROVE  /\ ReportsAreTrue /\ NumbersAgree
         /\ (metadata.ttftMs = Missing) <=> ~HasVisible(consumed)
<1> DEFINE b == backend
           md == metadata
           shown == Snapshot(md)
           input == b.truth.input
           cached == b.truth.cached
           output == b.truth.output
           sums == {i + o : i \in md.inputTokens, o \in md.outputTokens}
<1>1. Truthful(b)
  BY BackendsAssumption
<1>2. /\ md \in Metrics
      /\ md.inputTokens \in {Missing, {input}}
      /\ md.cachedTokens \in {Missing, {cached}}
      /\ md.totalTokens \in {Missing, {input + output}}
      /\ md.cachedTokens # Missing => md.inputTokens # Missing
      /\ md.totalTokens # Missing => md.inputTokens # Missing /\ md.outputTokens = {output}
      /\ md.ttftMs = Missing <=> Told(b, consumed, "visible") = {}
      /\ Opened(b, consumed) => md.inputTokens # Missing /\ md.cachedTokens # Missing
      /\ Concluded(b, consumed) => md.outputTokens = {output}
  BY DEF Kept, Sound
<1>3. input \in Nat /\ cached \in Nat /\ output \in Nat /\ cached <= input
  BY <1>1 DEF Truthful
<1>4. /\ shown.inputTokens = md.inputTokens /\ shown.cachedTokens = md.cachedTokens
      /\ shown.outputTokens = md.outputTokens
      /\ shown.totalTokens = IF md.totalTokens # Missing THEN md.totalTokens ELSE sums
  BY <1>2 DEF Snapshot, NumberOrCurrent, Metrics
<1>5. \A e : IsPayload(e) <=> Names(b, e)
  BY DEF IsPayload, Names
<1>6. \A kind : Consumption(kind) = Told(b, consumed, kind)
  BY <1>5 DEF Consumption, Told
<1>7. HasVisible(consumed) <=> Told(b, consumed, "visible") # {}
  BY <1>5 DEF HasVisible, Told
<1> HIDE DEF shown, sums, input, cached, output, b, md
<1>8. NumbersAgree
  <2>1. ASSUME NEW c \in shown.cachedTokens PROVE \E i \in shown.inputTokens : c <= i
    BY <1>2, <1>3, <1>4 DEF Missing
  <2>2. ASSUME NEW t \in shown.totalTokens
        PROVE  \E i \in shown.inputTokens : \E o \in shown.outputTokens : t = i + o
    <3>1. CASE md.totalTokens # Missing
      <4>1. t = input + output /\ md.inputTokens = {input} /\ md.outputTokens = {output}
        BY <1>2, <1>4, <3>1 DEF Missing
      <4> QED
        BY <1>4, <4>1
    <3>2. CASE md.totalTokens = Missing
      BY <1>4, <3>2 DEF sums
    <3> QED
      BY <3>1, <3>2
  <2> QED
    BY <2>1, <2>2 DEF NumbersAgree, shown, md
<1>9. ReportsAreTrue
  <2> SUFFICES ASSUME b.kinds["first"] # {} => Consumption("first") # {},
                      NEW i \in Consumption("final"), Latest(i, {"first", "final"})
               PROVE  /\ shown.inputTokens = {input} /\ shown.cachedTokens = {cached}
                      /\ shown.outputTokens = {output} /\ shown.totalTokens = {input + output}
    BY DEF ReportsAreTrue, shown, input, cached, output, b, md
  <2>1. Concluded(b, consumed)
    BY <1>6 DEF Concluded, Latest
  <2>2. Opened(b, consumed)
    <3>1. CASE b.kinds["first"] = {}
      BY <1>6, <3>1 DEF Opened, Opens, Told
    <3>2. CASE b.kinds["first"] # {}
      BY <1>6, <3>2 DEF Opened, Opens, Told
    <3> QED
      BY <3>1, <3>2
  <2>3. md.inputTokens = {input} /\ md.cachedTokens = {cached} /\ md.outputTokens = {output}
    BY <1>2, <2>1, <2>2
  <2>4. shown.totalTokens = {input + output}
    <3>1. CASE md.totalTokens # Missing
      BY <1>2, <1>4, <3>1
    <3>2. CASE md.totalTokens = Missing
      <4>1. sums = {input + output}
        BY <2>3 DEF sums
      <4> QED
        BY <1>4, <3>2, <4>1
    <3> QED
      BY <3>1, <3>2
  <2> QED
    BY <1>4, <2>3, <2>4
<1> QED
  BY <1>2, <1>7, <1>8, <1>9 DEF md

-----------------------------------------------------------------------------
(* The calls of #consumeEvent of one step.                                 *)

Grows(list, more) ==
  Len(list) <= Len(more) /\ \A i \in 1..Len(list) : more[i] = list[i]

Folded(b, list, more, t, md) ==
  LET new == Len(more) - Len(list)
      seen[k \in 0..new] ==
        IF k = 0 THEN md ELSE AfterOne(b, more[Len(list) + k], t, seen[k - 1])
  IN seen[new]

LEMMA SoundStep ==
  ASSUME NEW b, Truthful(b), NEW e \in Seq(Chars), NEW t \in Nat, NEW md, Sound(b, md)
  PROVE  Sound(b, AfterOne(b, e, t, md))
<1>1. CASE Names(b, e)
  <2> DEFINE n == Len(e)
  <2>1. n \in DOMAIN b.payloads /\ AfterOne(b, e, t, md) = Observed(b.protocol, b.payloads[n], t, md)
    BY <1>1 DEF Names, AfterOne
  <2> HIDE DEF n
  <2>2. Moves(b, n, t, md, Observed(b.protocol, b.payloads[n], t, md))
    BY <2>1, PayloadMoves
  <2> QED
    BY <2>1, <2>2 DEF Moves
<1>2. CASE ~Names(b, e)
  BY <1>2 DEF AfterOne
<1> QED
  BY <1>1, <1>2

IsFold(f, b, list, more, t, md) ==
  /\ f[0] = md
  /\ \A k \in 1..(Len(more) - Len(list)) :
       f[k] = AfterOne(b, more[Len(list) + k], t, f[k - 1])
  /\ Folded(b, list, more, t, md) = f[Len(more) - Len(list)]

LEMMA FoldedIs ==
  ASSUME NEW b, Truthful(b), NEW list \in Seq(Seq(Chars)), NEW more \in Seq(Seq(Chars)),
         Len(list) <= Len(more), NEW t \in Nat, NEW md, Sound(b, md)
  PROVE  \E f : IsFold(f, b, list, more, t, md)
<1> DEFINE new == Len(more) - Len(list)
           V == {m \in Metrics : Sound(b, m)}
           step == [p \in (1..new) \X V |-> AfterOne(b, more[Len(list) + p[1]], t, p[2])]
           Good(f) == f = [k \in 0..new |->
                            IF k = 0 THEN md ELSE AfterOne(b, more[Len(list) + k], t, f[k - 1])]
           R == CHOOSE f : Good(f)
<1>1. new \in Nat /\ Len(list) \in Nat /\ Len(more) \in Nat
  OBVIOUS
<1>2. \A k \in 1..new : Len(list) + k \in 1..Len(more)
  BY <1>1
<1>3. \A k \in 1..new : more[Len(list) + k] \in Seq(Chars)
  BY <1>2
<1>4. md \in V
  BY DEF Sound
<1>5. \A m : Sound(b, m) => m \in V
  BY DEF Sound
<1>6. step \in [(1..new) \X V -> V]
  <2>1. ASSUME NEW k \in 1..new, NEW m \in V
        PROVE  AfterOne(b, more[Len(list) + k], t, m) \in V
    BY <1>3, <1>5, SoundStep
  <2> QED
    BY <2>1
<1>7. PICK f \in [0..new -> V] : Recursion(f, new, md, step)
  <2> HIDE DEF new, step, V
  <2> QED
    BY <1>1, <1>4, <1>6, RecursionExists
<1>8. Good(f)
  <2>1. ASSUME NEW k \in 0..new
        PROVE  f[k] = IF k = 0 THEN md ELSE AfterOne(b, more[Len(list) + k], t, f[k - 1])
    <3>1. f[k] = IF k = 0 THEN md ELSE step[<<k, f[k - 1]>>]
      BY <1>7 DEF Recursion
    <3>2. k # 0 => <<k, f[k - 1]>> \in (1..new) \X V
      <4>1. k # 0 => k \in 1..new /\ k - 1 \in 0..new
        BY <1>1
      <4> HIDE DEF new, V
      <4> QED
        BY <1>7, <4>1
    <3> QED
      BY <3>1, <3>2
  <2> HIDE DEF step, new, V
  <2> QED
    BY <1>7, <2>1
<1>9. Good(R)
  <2> HIDE DEF Good
  <2> QED
    BY <1>8
<1>10. Folded(b, list, more, t, md) = R[new]
  BY DEF Folded
<1> HIDE DEF R
<1>11. /\ R[0] = md
       /\ \A k \in 1..new : R[k] = AfterOne(b, more[Len(list) + k], t, R[k - 1])
  <2>1. 0 \in 0..new /\ \A k \in 1..new : k \in 0..new /\ k # 0
    BY <1>1
  <2> HIDE DEF new
  <2> QED
    BY <1>9, <2>1
<1>12. IsFold(R, b, list, more, t, md)
  BY <1>10, <1>11 DEF IsFold
<1> QED
  BY <1>12

LEMMA FoldedKeeps ==
  ASSUME NEW b, Truthful(b), NEW list \in Seq(Seq(Chars)), NEW more \in Seq(Seq(Chars)),
         Grows(list, more), NEW t \in Nat, NEW md, Kept(b, list, md)
  PROVE  LET then == Folded(b, list, more, t, md)
         IN /\ Kept(b, more, then)
            /\ then.ttftMs \in {md.ttftMs, {t}}
            /\ md.ttftMs # Missing => then.ttftMs = md.ttftMs
<1> DEFINE m == Len(list)
           new == Len(more) - m
           then == Folded(b, list, more, t, md)
           Upto(k) == SubSeq(more, 1, k)
           Good(k, u) == /\ Kept(b, Upto(m + k), u)
                         /\ u.ttftMs \in {md.ttftMs, {t}}
                         /\ md.ttftMs # Missing => u.ttftMs = md.ttftMs
<1>1. m \in Nat /\ new \in Nat /\ Len(more) \in Nat /\ m <= Len(more) /\ m + new = Len(more)
  BY DEF Grows
<1>2. \A k \in 0..Len(more) :
        Upto(k) \in Seq(Seq(Chars)) /\ Len(Upto(k)) = k /\ \A i \in 1..k : Upto(k)[i] = more[i]
  <2> SUFFICES ASSUME NEW k \in 0..Len(more)
               PROVE  Upto(k) \in Seq(Seq(Chars)) /\ Len(Upto(k)) = k /\ \A i \in 1..k : Upto(k)[i] = more[i]
    OBVIOUS
  <2>1. k \in Nat /\ 1 <= k + 1 /\ k <= Len(more) /\ 1 \in Nat /\ 1 >= 1 /\ k - 1 + 1 = k
        /\ \A i \in 1..k : i + 1 - 1 = i
    BY <1>1
  <2> QED
    BY <2>1, SubSeqIs
<1>3. ASSUME NEW k \in 0..(new - 1) PROVE Append(Upto(m + k), more[m + (k + 1)]) = Upto(m + (k + 1))
  <2>1. m + k \in Nat /\ m + k < Len(more) /\ (m + k) + 1 = m + (k + 1)
    BY <1>1
  <2> HIDE DEF m, new
  <2>2. Append(SubSeq(more, 1, m + k), more[(m + k) + 1]) = SubSeq(more, 1, (m + k) + 1)
    BY <2>1, PrefixGrows
  <2> QED
    BY <2>1, <2>2
<1>4. Upto(m + 0) = list
  <2>1. m \in 0..Len(more) /\ m + 0 = m
    BY <1>1
  <2>2. Upto(m) \in Seq(Seq(Chars)) /\ Len(Upto(m)) = m /\ \A i \in 1..m : Upto(m)[i] = list[i]
    BY <1>2, <2>1 DEF Grows
  <2> HIDE DEF Upto
  <2> QED
    BY <2>1, <2>2, SeqEqual
<1>5. Upto(m + new) = more
  <2>1. Len(more) \in 0..Len(more)
    BY <1>1
  <2>2. /\ Upto(Len(more)) \in Seq(Seq(Chars)) /\ Len(Upto(Len(more))) = Len(more)
        /\ \A i \in 1..Len(more) : Upto(Len(more))[i] = more[i]
    BY <1>2, <2>1
  <2> HIDE DEF Upto
  <2> QED
    BY <1>1, <2>2, SeqEqual
<1> HIDE DEF Upto, then
<1>6. PICK f : /\ f[0] = md
               /\ \A k \in 1..new : f[k] = AfterOne(b, more[m + k], t, f[k - 1])
               /\ then = f[new]
  <2>1. Sound(b, md) /\ Len(list) <= Len(more)
    BY <1>1 DEF Kept
  <2>2. \E f : IsFold(f, b, list, more, t, md)
    BY <2>1, FoldedIs
  <2> QED
    BY <2>2 DEF then, IsFold
<1> HIDE DEF m, new
<1> DEFINE S == {k \in 0..new : Good(k, f[k])}
<1>7. 0 \in S
  <2>1. Good(0, md)
    BY <1>4
  <2>2. 0 \in 0..new
    BY <1>1
  <2> HIDE DEF Good
  <2> QED
    BY <1>6, <2>1, <2>2
<1>8. ASSUME NEW k \in 0..(new - 1), k \in S PROVE k + 1 \in S
  <2> DEFINE e == more[m + (k + 1)]
             u == f[k]
             p == Upto(m + k)
  <2>1. /\ k + 1 \in 1..new /\ (k + 1) - 1 = k /\ k + 1 \in 0..new /\ m + k \in 0..Len(more)
        /\ m + (k + 1) \in 1..Len(more)
    BY <1>1
  <2>2. e \in Seq(Chars) /\ p \in Seq(Seq(Chars))
    BY <1>2, <2>1
  <2>3. f[k + 1] = AfterOne(b, e, t, u)
    BY <1>6, <2>1
  <2>4. Kept(b, p, u) /\ u.ttftMs \in {md.ttftMs, {t}} /\ (md.ttftMs # Missing => u.ttftMs = md.ttftMs)
    BY <1>8
  <2>5. Append(p, e) = Upto(m + (k + 1))
    BY <1>3
  <2> HIDE DEF e, u, p
  <2>6. /\ Kept(b, Append(p, e), AfterOne(b, e, t, u))
        /\ AfterOne(b, e, t, u).ttftMs \in {u.ttftMs, {t}}
        /\ u.ttftMs # Missing => AfterOne(b, e, t, u).ttftMs = u.ttftMs
    BY <2>2, <2>4, EventKeeps
  <2>7. Good(k + 1, AfterOne(b, e, t, u))
    BY <2>4, <2>5, <2>6
  <2> HIDE DEF Good
  <2> QED
    BY <2>1, <2>3, <2>7
<1> HIDE DEF S
<1>9. \A k \in 0..new : k \in S
  BY <1>1, <1>7, <1>8, Induction
<1>10. Good(new, f[new])
  <2>1. new \in 0..new
    BY <1>1
  <2> QED
    BY <1>9, <2>1 DEF S
<1> QED
  BY <1>5, <1>6, <1>10 DEF then

(* The loop only appends to the events.                                    *)
LEMMA SplitGrows ==
  \A s \in Pending : Split[s] \in Pending /\ Grows(s.events, Split[s].events)
<1> DEFINE Good(s) == Split[s] \in Pending /\ Grows(s.events, Split[s].events)
           S == {k \in Nat : \A s \in Pending : Len(s.rest) = k => Good(s)}
<1>1. ASSUME NEW k \in Nat, \A i \in 0..(k - 1) : i \in S PROVE k \in S
  <2> SUFFICES ASSUME NEW s \in Pending, Len(s.rest) = k PROVE Good(s)
    OBVIOUS
  <2>1. CASE Boundaries(s.rest) = {}
    <3>1. Split[s] = s /\ s.events \in Seq(Seq(Chars))
      BY <2>1, SplitIs DEF Pending
    <3> QED
      BY <3>1 DEF Grows
  <2>2. CASE Boundaries(s.rest) # {}
    <3> DEFINE a == AfterEvent(s)
    <3>1. a \in Pending /\ Len(a.rest) < k /\ Split[s] = Split[a]
      BY <2>2, AfterEventIs, SplitIs
    <3>2. Grows(s.events, a.events) /\ s.events \in Seq(Seq(Chars))
      <4> DEFINE event == SubSeq(s.rest, 1, Leftmost(s.rest)[1] - 1)
      <4>1. a.events = IF s.dropping \/ Len(event) > MaxFrame THEN s.events ELSE Append(s.events, event)
        BY DEF AfterEvent
      <4>2. s.events \in Seq(Seq(Chars)) /\ a.events \in Seq(Seq(Chars))
        BY <3>1 DEF Pending
      <4> HIDE DEF a, event
      <4>3. CASE a.events = s.events
        BY <4>2, <4>3 DEF Grows
      <4>4. CASE a.events = Append(s.events, event)
        <5>1. Len(a.events) = Len(s.events) + 1 /\ \A i \in 1..Len(s.events) : a.events[i] = s.events[i]
          BY <4>2, <4>4
        <5> QED
          BY <4>2, <5>1 DEF Grows
      <4> QED
        BY <4>1, <4>2, <4>3, <4>4
    <3>3. Len(a.rest) \in 0..(k - 1) /\ a.events \in Seq(Seq(Chars))
      BY <3>1 DEF Pending
    <3> HIDE DEF a
    <3>4. Split[a] \in Pending /\ Grows(a.events, Split[a].events)
      BY <1>1, <3>1, <3>3
    <3> DEFINE z == Split[a].events
    <3>5. z \in Seq(Seq(Chars)) /\ Grows(a.events, z)
      BY <3>4 DEF Pending
    <3> HIDE DEF z
    <3>6. Grows(s.events, z)
      <4>1. /\ Len(s.events) \in Nat /\ Len(a.events) \in Nat /\ Len(z) \in Nat
            /\ \A i \in 1..Len(s.events) : i \in 1..Len(a.events)
        BY <3>2, <3>3, <3>5 DEF Grows
      <4> QED
        BY <3>2, <3>5, <4>1 DEF Grows
    <3> QED
      BY <3>1, <3>4, <3>6 DEF z
  <2> QED
    BY <2>1, <2>2
<1> HIDE DEF S
<1>2. \A k \in Nat : k \in S
  BY <1>1, StrongInduction
<1> SUFFICES ASSUME NEW s \in Pending PROVE Good(s)
  OBVIOUS
<1>3. Len(s.rest) \in Nat
  BY DEF Pending
<1> QED
  BY <1>2, <1>3 DEF S

-----------------------------------------------------------------------------
(* The time of the first visible piece.                                    *)

(* HasVisible, of a backend b.                                             *)
Shows(b, events) ==
  \E i \in DOMAIN events : Names(b, events[i]) /\ Len(events[i]) \in b.kinds["visible"]

Complete(b, whole) == {n \in 1..Len(whole) : Shows(b, Readings(whole)[n].events)}

FirstShown(b, whole) ==
  IF Complete(b, whole) = {} THEN Len(whole)
  ELSE CHOOSE n \in Complete(b, whole) : \A k \in Complete(b, whole) : n <= k

Timed(b, whole, md) ==
  \A t \in md.ttftMs : t \in FirstShown(b, whole)..(FirstShown(b, whole) + MaxChunk - 1)

(* What AtProperties says of the places a reading keeps.                   *)
Picked(S, s, places) ==
  /\ Cardinality(places) \in Nat
  /\ At(s, places) \in Seq(S)
  /\ Len(At(s, places)) = Cardinality(places)
  /\ \A i \in 1..Cardinality(places) :
       /\ Ascending(places)[i] \in places
       /\ At(s, places)[i] = s[Ascending(places)[i]]
  /\ \A p \in places : \E i \in 1..Cardinality(places) : Ascending(places)[i] = p

LEMMA PickedAt ==
  ASSUME NEW S, NEW s \in Seq(S), NEW places \in SUBSET (1..Len(s))
  PROVE  Picked(S, s, places)
BY AtProperties DEF Picked

(* A visible payload is never one of those that were dropped.              *)
LEMMA SeenShows ==
  ASSUME NEW b, Truthful(b), NEW events \in Seq(Seq(Chars)), NEW seen, Sees(seen, events)
  PROVE  Shows(b, seen) <=> Shows(b, events)
<1>1. PICK places \in SUBSET DOMAIN events :
        /\ seen = At(events, places)
        /\ \A i \in places : Len(events[i]) <= MaxFrame
        /\ \A i \in DOMAIN events \ places : Len(events[i]) > MaxFrame - 3
  BY DEF Sees
<1>2. DOMAIN events = 1..Len(events) /\ \A i \in 1..Len(events) : Len(events[i]) \in Nat
  OBVIOUS
<1> DEFINE c == Cardinality(places)
           q == Ascending(places)
<1>3. /\ c \in Nat /\ seen \in Seq(Seq(Chars)) /\ Len(seen) = c
      /\ \A i \in 1..c : q[i] \in places /\ seen[i] = events[q[i]]
      /\ \A p \in places : \E i \in 1..c : q[i] = p
  <2>1. places \in SUBSET (1..Len(events))
    BY <1>2
  <2> DEFINE Words == Seq(Chars)
  <2>2. events \in Seq(Words)
    OBVIOUS
  <2> HIDE DEF Words, c, q
  <2>3. Picked(Words, events, places)
    BY ONLY <2>1, <2>2, PickedAt, ZenonT(30)
  <2> USE DEF Words, c, q
  <2> QED
    BY <1>1, <2>3 DEF Picked
<1> HIDE DEF c, q
<1>4. DOMAIN seen = 1..c
  BY <1>3
<1>5. Shows(b, seen) => Shows(b, events)
  BY <1>3, <1>4 DEF Shows
<1>6. ASSUME Shows(b, events) PROVE Shows(b, seen)
  <2>1. PICK p \in DOMAIN events : Names(b, events[p]) /\ Len(events[p]) \in b.kinds["visible"]
    BY <1>6 DEF Shows
  <2>2. Len(events[p]) <= MaxFrame - 3
    BY <2>1 DEF Truthful
  <2>3. p \in places
    BY <1>1, <1>2, <2>2, LimitAssumption
  <2>4. PICK i \in 1..c : q[i] = p
    BY <1>3, <2>3
  <2> QED
    BY <1>3, <1>4, <2>1, <2>4 DEF Shows
<1> QED
  BY <1>5, <1>6

LEMMA ShowsNext ==
  ASSUME NEW b, NEW r \in Readers, NEW c \in Chars, Shows(b, r.events)
  PROVE  Shows(b, Read(r, c).events)
<1>1. r.events \in Seq(Seq(Chars))
  BY DEF Readers
<1>2. PICK x, w : \/ Read(r, c) = [rest |-> x, events |-> r.events]
                  \/ Read(r, c) = [rest |-> <<>>, events |-> Append(r.events, w)]
  BY DEF Read
<1>3. CASE Read(r, c).events = r.events
  BY <1>3
<1>4. CASE Read(r, c).events = Append(r.events, w)
  <2>1. /\ DOMAIN r.events = 1..Len(r.events) /\ Len(r.events) \in Nat
        /\ DOMAIN Append(r.events, w) = 1..(Len(r.events) + 1)
        /\ \A i \in 1..Len(r.events) : Append(r.events, w)[i] = r.events[i]
    <3> DEFINE T == Seq(Chars) \union {w}
    <3>1. r.events \in Seq(T) /\ w \in T
      BY <1>1
    <3> HIDE DEF T
    <3> QED
      BY <3>1, AppendProperties
  <2>2. \A i \in 1..Len(r.events) : i \in 1..(Len(r.events) + 1)
    BY <2>1
  <2> QED
    BY <1>4, <2>1, <2>2 DEF Shows
<1> QED
  BY <1>2, <1>3, <1>4

LEMMA ShowsOn ==
  ASSUME NEW b, NEW whole \in Seq(Chars), NEW n \in 0..Len(whole),
         Shows(b, Readings(whole)[n].events)
  PROVE  Shows(b, Readings(whole)[Len(whole)].events)
<1> DEFINE R == Readings(whole)
           N == Len(whole)
           S == {k \in 0..(N - n) : Shows(b, R[n + k].events)}
<1>1. N \in Nat /\ n \in Nat /\ N - n \in Nat /\ n + (N - n) = N /\ n + 0 = n
  OBVIOUS
<1>2. R \in [0..N -> Readers] /\ \A k \in 1..N : R[k] = Read(R[k - 1], whole[k])
  BY ReadingsAre
<1>3. \A k \in 1..N : whole[k] \in Chars
  OBVIOUS
<1>4. 0 \in S
  BY <1>1
<1> HIDE DEF R, N
<1>5. ASSUME NEW k \in 0..((N - n) - 1), k \in S PROVE k + 1 \in S
  <2>1. n + (k + 1) \in 1..N /\ (n + (k + 1)) - 1 = n + k /\ n + k \in 0..N /\ k + 1 \in 0..(N - n)
    BY <1>1
  <2>2. R[n + k] \in Readers /\ Shows(b, R[n + k].events)
    BY <1>2, <1>5, <2>1
  <2>3. R[n + (k + 1)] = Read(R[n + k], whole[n + (k + 1)])
    BY <1>2, <2>1
  <2>4. Shows(b, Read(R[n + k], whole[n + (k + 1)]).events)
    BY <1>3, <2>1, <2>2, ShowsNext
  <2> QED
    BY <2>1, <2>3, <2>4
<1> HIDE DEF S
<1>6. \A k \in 0..(N - n) : k \in S
  BY <1>1, <1>4, <1>5, Induction
<1>7. N - n \in S
  BY <1>1, <1>6
<1> QED
  BY <1>1, <1>7 DEF S, R, N

LEMMA FirstShownIs ==
  ASSUME NEW b, NEW whole \in Seq(Chars), Complete(b, whole) # {}
  PROVE  /\ FirstShown(b, whole) \in Complete(b, whole)
         /\ \A k \in Complete(b, whole) : FirstShown(b, whole) <= k
<1>1. Complete(b, whole) \in SUBSET Nat
  BY DEF Complete
<1> HIDE DEF Complete
<1>2. \E n \in Complete(b, whole) : \A k \in Complete(b, whole) : n <= k
  BY <1>1, LeastOfAny
<1> QED
  BY <1>2 DEF FirstShown

LEMMA CompleteEnds ==
  ASSUME NEW b, NEW whole \in Seq(Chars)
  PROVE  Complete(b, whole) # {} <=> Shows(b, Readings(whole)[Len(whole)].events)
<1>1. Len(whole) \in Nat /\ \A n \in 1..Len(whole) : n \in 0..Len(whole)
  OBVIOUS
<1>2. ASSUME Shows(b, Readings(whole)[Len(whole)].events) PROVE Complete(b, whole) # {}
  <2>1. Len(whole) # 0
    <3> SUFFICES ASSUME Len(whole) = 0 PROVE FALSE
      OBVIOUS
    <3>1. Readings(whole)[0] = Unread
      BY ReadingsAre
    <3>2. Unread.events = <<>> /\ DOMAIN <<>> = {}
      BY DEF Unread
    <3> QED
      BY <1>2, <3>1, <3>2 DEF Shows
  <2>2. Len(whole) \in 1..Len(whole)
    BY <1>1, <2>1
  <2> QED
    BY <1>2, <2>2 DEF Complete
<1>3. ASSUME NEW n \in Complete(b, whole) PROVE Shows(b, Readings(whole)[Len(whole)].events)
  BY <1>1, ShowsOn DEF Complete
<1> QED
  BY <1>2, <1>3

LEMMA TimedByChunk ==
  ASSUME NEW b, NEW whole \in Seq(Chars), NEW chunk \in Seq(Chars), Len(chunk) <= MaxChunk,
         NEW md, NEW then, Timed(b, whole, md),
         md.ttftMs = Missing <=> ~Shows(b, Readings(whole)[Len(whole)].events),
         then.ttftMs = Missing <=>
           ~Shows(b, Readings(whole \o chunk)[Len(whole \o chunk)].events),
         then.ttftMs \in {md.ttftMs, {Len(whole \o chunk)}},
         md.ttftMs # Missing => then.ttftMs = md.ttftMs
  PROVE  Timed(b, whole \o chunk, then)
<1> DEFINE more == whole \o chunk
           C == Complete(b, whole)
           D == Complete(b, more)
           f == FirstShown(b, whole)
           g == FirstShown(b, more)
<1>1. more \in Seq(Chars) /\ Len(more) = Len(whole) + Len(chunk)
  BY ConcatProperties
<1>2. Len(whole) \in Nat /\ Len(chunk) \in Nat /\ MaxChunk \in Nat
  BY BoundsAssumption
<1>3. C = {n \in D : n <= Len(whole)}
  <2>1. \A n \in 0..Len(whole) : Readings(more)[n] = Readings(whole)[n]
    BY ReadingsExtend
  <2>2. \A n \in 1..Len(whole) : n \in 0..Len(whole) /\ n \in 1..Len(more) /\ n <= Len(whole)
    BY <1>1, <1>2
  <2>3. \A n \in 1..Len(more) : n <= Len(whole) => n \in 1..Len(whole)
    BY <1>1, <1>2
  <2> HIDE DEF more
  <2> QED
    BY <2>1, <2>2, <2>3 DEF Complete
<1>4. D \subseteq 1..Len(more)
  BY DEF Complete
<1>5. /\ C # {} <=> md.ttftMs # Missing
      /\ D # {} <=> then.ttftMs # Missing
  <2> HIDE DEF more
  <2> QED
    BY <1>1, CompleteEnds DEF more
<1>6. D # {} => g \in D /\ \A k \in D : g <= k
  <2> HIDE DEF more
  <2> QED
    BY <1>1, FirstShownIs
<1>7. C # {} => f \in C /\ \A k \in C : f <= k
  BY FirstShownIs
<1> HIDE DEF more, C, D, f, g
<1>8. CASE md.ttftMs # Missing
  <2>1. f \in C /\ (\A k \in C : f <= k) /\ f \in D
    BY <1>3, <1>5, <1>7, <1>8
  <2>2. g \in D /\ (\A k \in D : g <= k) /\ g <= f
    BY <1>6, <2>1
  <2>3. g \in Nat /\ f \in Nat /\ f <= Len(whole)
    BY <1>3, <1>4, <2>1, <2>2
  <2>4. g \in C
    BY <1>2, <1>3, <2>2, <2>3
  <2>5. f = g
    BY <2>1, <2>2, <2>3, <2>4
  <2>6. then.ttftMs = md.ttftMs
    BY <1>8
  <2> QED
    BY <2>5, <2>6 DEF Timed, f, g, more
<1>9. CASE md.ttftMs = Missing
  <2>1. CASE then.ttftMs = Missing
    BY <2>1 DEF Timed, Missing
  <2>2. CASE then.ttftMs # Missing
    <3>1. then.ttftMs = {Len(more)}
      BY <1>9, <2>2 DEF more
    <3>2. g \in D /\ C = {}
      BY <1>5, <1>6, <1>9, <2>2
    <3>3. g \in Nat /\ g <= Len(more) /\ ~(g <= Len(whole))
      BY <1>3, <1>4, <3>2
    <3>4. Len(more) \in g..(g + MaxChunk - 1)
      BY <1>1, <1>2, <3>3
    <3> QED
      BY <3>1, <3>4 DEF Timed, g, more
  <2> QED
    BY <2>1, <2>2
<1> QED
  BY <1>8, <1>9 DEF more

LEMMA TimedByEnd ==
  ASSUME NEW b, NEW whole \in Seq(Chars), NEW md, NEW then, Timed(b, whole, md),
         md.ttftMs = Missing <=> ~Shows(b, Readings(whole)[Len(whole)].events),
         then.ttftMs \in {md.ttftMs, {Len(whole)}},
         md.ttftMs # Missing => then.ttftMs = md.ttftMs
  PROVE  Timed(b, whole, then)
<1>1. CASE then.ttftMs = md.ttftMs
  BY <1>1 DEF Timed
<1>2. CASE then.ttftMs # md.ttftMs
  <2>1. then.ttftMs = {Len(whole)} /\ Complete(b, whole) = {}
    BY <1>2, CompleteEnds
  <2>2. FirstShown(b, whole) = Len(whole)
    BY <2>1 DEF FirstShown
  <2>3. Len(whole) \in Len(whole)..(Len(whole) + MaxChunk - 1)
    BY BoundsAssumption
  <2> QED
    BY <2>1, <2>2, <2>3 DEF Timed
<1> QED
  BY <1>1, <1>2

-----------------------------------------------------------------------------
(* The steps of the observer as a whole.                                   *)

ObserverInv ==
  /\ FramesInv
  /\ backend \in Backends
  /\ Kept(backend, consumed, metadata)
  /\ Timed(backend, text, metadata)

LEMMA ConsumeNewFolds ==
  ASSUME ConsumeNew
  PROVE  metadata' = Folded(backend, consumed, consumed', Len(text'), metadata)
  BY DEF ConsumeNew, Folded, ConsumeEvent, AfterOne, IsPayload, Names

LEMMA ObserverInvGives == ObserverInv => MetricsAreTrue
<1> SUFFICES ASSUME ObserverInv PROVE MetricsAreTrue
  OBVIOUS
<1>1. /\ ReportsAreTrue /\ NumbersAgree
      /\ (metadata.ttftMs = Missing) <=> ~HasVisible(consumed)
  BY KeptIsTrue DEF ObserverInv
<1>2. \A events : HasVisible(events) <=> Shows(backend, events)
  BY DEF HasVisible, Shows, IsPayload, Names
<1> DEFINE complete == {n \in 1..Len(text) : HasVisible(Readings(text)[n].events)}
<1>3. complete = Complete(backend, text)
  BY <1>2 DEF Complete
<1> HIDE DEF complete
<1> DEFINE first == IF complete = {} THEN Len(text)
                    ELSE CHOOSE n \in complete : \A k \in complete : n <= k
<1>4. first = FirstShown(backend, text)
  BY <1>3 DEF FirstShown
<1> HIDE DEF first
<1>5. FirstTokenIsTimed
  <2>1. \A t \in metadata.ttftMs : t \in first..(first + MaxChunk - 1)
    BY <1>4 DEF ObserverInv, Timed
  <2> QED
    BY <1>1, <2>1 DEF FirstTokenIsTimed, first, complete
<1> QED
  BY <1>1, <1>5 DEF MetricsAreTrue

LEMMA ObserverStarts == ObserverInit => ObserverInv
<1> SUFFICES ASSUME ObserverInit PROVE ObserverInv
  OBVIOUS
<1>1. FramesInv /\ backend \in Backends /\ consumed = <<>> /\ metadata = EmptyMetadata
  BY FramesStart DEF ObserverInit, Init
<1>2. Kept(backend, consumed, metadata)
  BY <1>1, KeptFromStart, BackendsAssumption
<1>3. Timed(backend, text, metadata)
  BY <1>1 DEF Timed, EmptyMetadata, Missing
<1> QED
  BY <1>1, <1>2, <1>3 DEF ObserverInv

(* What a step of the splitter does to the metrics.                        *)
LEMMA MetricsFollow ==
  ASSUME ObserverInv, FramesInv', ConsumeNew, UNCHANGED backend, Grows(consumed, consumed')
  PROVE  /\ Kept(backend, consumed, metadata)'
         /\ metadata'.ttftMs \in {metadata.ttftMs, {Len(text')}}
         /\ metadata.ttftMs # Missing => metadata'.ttftMs = metadata.ttftMs
<1> DEFINE b == backend
           list == consumed
           more == consumed'
           t == Len(text')
           md == metadata
           then == Folded(b, list, more, t, md)
<1>1. list \in Seq(Seq(Chars)) /\ more \in Seq(Seq(Chars)) /\ t \in Nat
  BY DEF ObserverInv, FramesInv, Types
<1>2. Truthful(b) /\ Kept(b, list, md) /\ Grows(list, more)
  BY BackendsAssumption DEF ObserverInv
<1>3. metadata' = then
  BY ConsumeNewFolds
<1> HIDE DEF b, list, more, t, md
<1>4. /\ Kept(b, more, then)
      /\ then.ttftMs \in {md.ttftMs, {t}}
      /\ md.ttftMs # Missing => then.ttftMs = md.ttftMs
  BY <1>1, <1>2, FoldedKeeps
<1> HIDE DEF then
<1> QED
  BY <1>3, <1>4 DEF b, more, t, md

LEMMA ShownIsSeen ==
  ASSUME NEW b, Truthful(b), NEW list, NEW md, Kept(b, list, md),
         NEW events \in Seq(Seq(Chars)), Sees(list, events)
  PROVE  md.ttftMs = Missing <=> ~Shows(b, events)
<1>1. md.ttftMs = Missing <=> ~Shows(b, list)
  BY DEF Kept, Shows, Told
<1> QED
  BY <1>1, SeenShows

LEMMA LastReadIsSeen ==
  ASSUME Types, Observing
  PROVE  /\ WholeRead(text).events \in Seq(Seq(Chars))
         /\ Sees(consumed, WholeRead(text).events)
  BY DEF Observing, Rel, Readers

LEMMA StartGrows ==
  ASSUME Types, NEW t \in Seq(Chars), Consumed(t) \in Pending
  PROVE  Grows(consumed, Consumed(t).events)
<1> DEFINE start == [rest |-> buffer \o t, dropping |-> dropping, events |-> consumed]
<1>1. start \in Pending
  <2>1. buffer \o t \in Seq(Chars)
    BY ConcatProperties DEF Types
  <2> QED
    BY <2>1 DEF Types, Pending
<1>2. Consumed(t).events = Split[start].events
  BY DEF Consumed, start
<1>3. start.events = consumed
  OBVIOUS
<1> HIDE DEF start
<1> QED
  BY <1>1, <1>2, <1>3, SplitGrows

LEMMA LeftoverGrows ==
  ASSUME NEW list \in Seq(Seq(Chars)), NEW u \in Pending, Grows(list, u.events)
  PROVE  Grows(list, Leftover(u))
<1>1. u.events \in Seq(Seq(Chars)) /\ u.rest \in Seq(Chars)
  BY DEF Pending
<1>2. CASE Leftover(u) = u.events
  BY <1>2
<1>3. CASE Leftover(u) = Append(u.events, u.rest)
  <2> DEFINE s == u.events
             z == Append(s, u.rest)
  <2>1. s \in Seq(Seq(Chars)) /\ Len(z) = Len(s) + 1 /\ \A i \in 1..Len(s) : z[i] = s[i]
    BY <1>1, AppendProperties
  <2>2. Grows(list, s)
    OBVIOUS
  <2> HIDE DEF s, z
  <2>3. Grows(list, z)
    <3>1. Len(list) \in Nat /\ Len(s) \in Nat /\ Len(list) <= Len(s)
      BY <2>1, <2>2 DEF Grows
    <3>2. \A i \in 1..Len(list) : i \in 1..Len(s)
      BY <3>1
    <3> QED
      BY <2>1, <2>2, <3>1, <3>2 DEF Grows
  <2> QED
    BY <1>3, <2>3 DEF z, s
<1> QED
  BY <1>2, <1>3 DEF Leftover

LEMMA ObserverObserves ==
  ASSUME ObserverInv, NEW chunk \in UNION {[1..n -> Chars] : n \in 1..MaxChunk}, ObserveChunk(chunk)
  PROVE  ObserverInv'
<1>1. chunk \in Seq(Chars) /\ Len(chunk) <= MaxChunk
  <2>1. PICK n \in 1..MaxChunk : chunk \in [1..n -> Chars]
    OBVIOUS
  <2>2. n \in Nat /\ n <= MaxChunk
    BY BoundsAssumption
  <2>3. chunk \in Seq(Chars) /\ Len(chunk) = n
    BY <2>1, <2>2
  <2> QED
    BY <2>2, <2>3
<1>2. /\ Observe(chunk) /\ ConsumeNew /\ UNCHANGED backend /\ FramesInv
  BY DEF ObserveChunk, ObserverInv
<1>3. FramesInv'
  BY <1>1, <1>2, FramesObserve
<1>4. /\ ~finished /\ ~finished' /\ text' = text \o chunk /\ consumed' = Consumed(chunk).events
  BY <1>2 DEF Observe
<1>5. Types /\ Observing /\ Types' /\ Observing'
  BY <1>2, <1>3, <1>4 DEF FramesInv
<1>6. Grows(consumed, consumed')
  <2>1. Consumed(chunk) \in Pending
    BY <1>1, <1>5, ConsumedIs
  <2> QED
    BY <1>1, <1>4, <1>5, <2>1, StartGrows
<1>7. /\ Kept(backend, consumed, metadata)'
      /\ metadata'.ttftMs \in {metadata.ttftMs, {Len(text')}}
      /\ metadata.ttftMs # Missing => metadata'.ttftMs = metadata.ttftMs
  BY <1>2, <1>3, <1>6, MetricsFollow
<1>8. Truthful(backend) /\ Kept(backend, consumed, metadata) /\ Kept(backend, consumed', metadata')
      /\ Timed(backend, text, metadata) /\ text \in Seq(Chars)
  BY <1>2, <1>5, <1>7, BackendsAssumption DEF ObserverInv, Types
<1>9. metadata.ttftMs = Missing <=> ~Shows(backend, Readings(text)[Len(text)].events)
  BY <1>5, <1>8, LastReadIsSeen, ShownIsSeen DEF WholeRead
<1>10. /\ WholeRead(text \o chunk).events \in Seq(Seq(Chars))
       /\ Sees(consumed', WholeRead(text \o chunk).events)
  BY <1>4, <1>5 DEF Observing, Rel, Readers, WholeRead
<1>11. metadata'.ttftMs = Missing <=> ~Shows(backend, WholeRead(text \o chunk).events)
  BY <1>8, <1>10, ShownIsSeen
<1>12. Timed(backend, text \o chunk, metadata')
  BY <1>1, <1>4, <1>7, <1>8, <1>9, <1>11, TimedByChunk DEF WholeRead
<1>13. Timed(backend, text, metadata)'
  BY <1>2, <1>4, <1>12
<1> QED
  BY <1>2, <1>3, <1>7, <1>13 DEF ObserverInv

LEMMA ObserverFinishes ==
  ASSUME ObserverInv, FinishStream
  PROVE  ObserverInv'
<1>1. /\ Finish /\ ConsumeNew /\ UNCHANGED backend /\ FramesInv
  BY DEF FinishStream, ObserverInv
<1>2. FramesInv'
  BY <1>1, FramesFinish
<1>3. /\ ~finished /\ text' = text /\ consumed' = Leftover(Consumed(<<>>))
  BY <1>1 DEF Finish
<1>4. Types /\ Observing /\ <<>> \in Seq(Chars)
  BY <1>1, <1>3 DEF FramesInv
<1>5. Grows(consumed, consumed')
  <2>1. Consumed(<<>>) \in Pending
    BY <1>4, ConsumedIs
  <2>2. Grows(consumed, Consumed(<<>>).events) /\ consumed \in Seq(Seq(Chars))
    BY <1>4, <2>1, StartGrows DEF Types
  <2> QED
    BY <1>3, <2>1, <2>2, LeftoverGrows
<1>6. /\ Kept(backend, consumed, metadata)'
      /\ metadata'.ttftMs \in {metadata.ttftMs, {Len(text')}}
      /\ metadata.ttftMs # Missing => metadata'.ttftMs = metadata.ttftMs
  BY <1>1, <1>2, <1>5, MetricsFollow
<1>7. Truthful(backend) /\ Kept(backend, consumed, metadata)
      /\ Timed(backend, text, metadata) /\ text \in Seq(Chars)
  BY <1>4, BackendsAssumption DEF ObserverInv, Types
<1>8. metadata.ttftMs = Missing <=> ~Shows(backend, Readings(text)[Len(text)].events)
  BY <1>4, <1>7, LastReadIsSeen, ShownIsSeen DEF WholeRead
<1>9. Timed(backend, text, metadata')
  BY <1>3, <1>6, <1>7, <1>8, TimedByEnd
<1>10. Timed(backend, text, metadata)'
  BY <1>1, <1>3, <1>9
<1> QED
  BY <1>1, <1>2, <1>6, <1>10 DEF ObserverInv

LEMMA ObserverSteps == ObserverInv /\ [ObserverNext]_observerVars => ObserverInv'
<1> SUFFICES ASSUME ObserverInv, [ObserverNext]_observerVars PROVE ObserverInv'
  OBVIOUS
<1>1. CASE \E chunk \in UNION {[1..n -> Chars] : n \in 1..MaxChunk} : ObserveChunk(chunk)
  BY <1>1, ObserverObserves
<1>2. CASE FinishStream
  BY <1>2, ObserverFinishes
<1>3. CASE UNCHANGED observerVars
  <2>1. FramesInv'
    BY <1>3, FramesNext DEF ObserverInv, observerVars, vars
  <2> QED
    BY <1>3, <2>1 DEF ObserverInv, observerVars, vars
<1> QED
  BY <1>1, <1>2, <1>3 DEF ObserverNext

(* For backends of every format that report truly, however the body is cut *)
(* into chunks: the numbers shown after the reports are the true ones,     *)
(* those shown at any time agree, and the first token is timed by the      *)
(* chunk that completed it.                                                *)
THEOREM MetricsStayTrue == ObserverSpec => []MetricsAreTrue
<1> QED
  BY ObserverStarts, ObserverSteps, ObserverInvGives, PTL DEF ObserverSpec

=============================================================================
