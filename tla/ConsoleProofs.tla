---------------------------- MODULE ConsoleProofs ----------------------------
(***************************************************************************)
(* Proofs about the live console: the event streams of the server, for any *)
(* accounts, streams, bounds and intervals, and the page with its sources. *)
(***************************************************************************)
EXTENDS ConsolePage, SequenceTheorems, FiniteSetTheorems, FunctionTheorems, TLAPS

-----------------------------------------------------------------------------
(* Counting the events that a list of items stands for.                    *)

LEMMA WeightType == \A item \in Items : Weight(item) \in 0..MaxEvents
BY BoundAssumption DEF Items, Weight, Event, Gap, KeepAlive

LEMMA WeightsType ==
  ASSUME NEW items \in Seq(Items)
  PROVE  IsFiniteSet(StoodFor(items)) /\ Weights(items) \in Nat
<1> DEFINE Part(i) == {i} \X (1..Weight(items[i]))
           parts == {Part(i) : i \in DOMAIN items}
<1>1. DOMAIN items = 1..Len(items) /\ Len(items) \in Nat
  BY LenProperties
<1>2. ASSUME NEW i \in DOMAIN items
      PROVE  IsFiniteSet(Part(i))
  <2>1. Weight(items[i]) \in Int
    BY <1>1, WeightType, ElementOfSeq
  <2>2. IsFiniteSet({i}) /\ IsFiniteSet(1..Weight(items[i]))
    <3> DEFINE w == Weight(items[i])
    <3>1. w \in Int
      BY <2>1
    <3> HIDE DEF w
    <3>2. 1 \in Int /\ IsFiniteSet(1..w)
      BY <3>1, FS_Interval
    <3>3. IsFiniteSet({i})
      BY FS_Singleton
    <3> QED
      BY <3>2, <3>3 DEF w
  <2> QED
    BY <2>2, FS_Product
<1>3. IsFiniteSet(DOMAIN items)
  BY <1>1, FS_Interval
<1> HIDE DEF Part
<1>4. IsFiniteSet(parts)
  <2> DEFINE f == [i \in DOMAIN items |-> Part(i)]
  <2>1. f \in [DOMAIN items -> parts]
    OBVIOUS
  <2>2. \A part \in parts : \E i \in DOMAIN items : f[i] = part
    OBVIOUS
  <2> HIDE DEF f, parts
  <2>3. f \in Surjection(DOMAIN items, parts)
    BY <2>1, <2>2, Fun_IsSurj
  <2> QED
    BY <1>3, <2>3, FS_Surjection
<1>5. IsFiniteSet(UNION parts)
  BY <1>2, <1>4, FS_UNION
<1>6. StoodFor(items) = UNION parts
  BY DEF StoodFor, Part
<1>7. IsFiniteSet(StoodFor(items))
  BY <1>5, <1>6
<1> QED
  BY <1>7, FS_CardinalityType DEF Weights

LEMMA WeightsEmpty == Weights(<<>>) = 0
<1>1. StoodFor(<<>>) = {}
  BY DEF StoodFor
<1> QED
  BY <1>1, FS_EmptySet DEF Weights

LEMMA StoodForMember ==
  ASSUME NEW items, NEW i, NEW k
  PROVE  <<i, k>> \in StoodFor(items) <=> i \in DOMAIN items /\ k \in 1..Weight(items[i])
BY DEF StoodFor

LEMMA StoodForPairs ==
  ASSUME NEW items, NEW e \in StoodFor(items)
  PROVE  e = <<e[1], e[2]>> /\ e[1] \in DOMAIN items /\ e[2] \in 1..Weight(items[e[1]])
BY DEF StoodFor

(* Two lists, one after the other, stand for what each of them stands for. *)
LEMMA WeightsConcat ==
  ASSUME NEW s \in Seq(Items), NEW t \in Seq(Items)
  PROVE  Weights(s \o t) = Weights(s) + Weights(t)
<1> DEFINE n == Len(s)
           m == Len(t)
           u == s \o t
           Raised == {<<e[1] + n, e[2]>> : e \in StoodFor(t)}
           f == [e \in StoodFor(t) |-> <<e[1] + n, e[2]>>]
<1>1. /\ n \in Nat /\ DOMAIN s = 1..n
      /\ m \in Nat /\ DOMAIN t = 1..m
  BY LenProperties
<1>2. /\ u \in Seq(Items) /\ DOMAIN u = 1..(n + m)
      /\ \A i \in 1..n : u[i] = s[i]
      /\ \A i \in 1..m : u[i + n] = t[i]
  <2>1. /\ u \in Seq(Items) /\ Len(u) = n + m
        /\ \A i \in 1..(n + m) : u[i] = IF i <= n THEN s[i] ELSE t[i - n]
    BY ConcatProperties
  <2>2. DOMAIN u = 1..(n + m)
    BY <2>1, LenProperties
  <2> HIDE DEF u
  <2>3. ASSUME NEW i \in 1..n
        PROVE  u[i] = s[i]
    BY <1>1, <2>1
  <2>4. ASSUME NEW i \in 1..m
        PROVE  u[i + n] = t[i]
    <3>1. i + n \in 1..(n + m) /\ ~(i + n <= n) /\ (i + n) - n = i
      BY <1>1
    <3> QED
      BY <2>1, <3>1
  <2> QED
    BY <2>1, <2>2, <2>3, <2>4
<1> HIDE DEF n, m, u
<1>3. StoodFor(u) = StoodFor(s) \union Raised
  <2>1. ASSUME NEW e \in StoodFor(u)
        PROVE  e \in StoodFor(s) \union Raised
    <3>1. e = <<e[1], e[2]>> /\ e[1] \in 1..(n + m) /\ e[2] \in 1..Weight(u[e[1]])
      BY <1>2, StoodForPairs
    <3>2. CASE e[1] \in 1..n
      <4>1. u[e[1]] = s[e[1]]
        BY <1>2, <3>2
      <4>2. <<e[1], e[2]>> \in StoodFor(s)
        BY <1>1, <3>1, <3>2, <4>1, StoodForMember
      <4> QED
        BY <3>1, <4>2
    <3>3. CASE e[1] \notin 1..n
      <4> DEFINE i == e[1] - n
      <4>1. i \in 1..m /\ i + n = e[1]
        BY <1>1, <3>1, <3>3
      <4>2. u[e[1]] = t[i]
        BY <1>2, <4>1
      <4> HIDE DEF i
      <4>3. <<i, e[2]>> \in StoodFor(t)
        BY <1>1, <3>1, <4>1, <4>2, StoodForMember
      <4> DEFINE d == <<i, e[2]>>
      <4>4. <<d[1] + n, d[2]>> = e
        BY <3>1, <4>1
      <4> HIDE DEF d
      <4> QED
        BY <4>3, <4>4 DEF d
    <3> QED
      BY <3>2, <3>3
  <2>2. ASSUME NEW e \in StoodFor(s)
        PROVE  e \in StoodFor(u)
    <3>1. e = <<e[1], e[2]>> /\ e[1] \in 1..n /\ e[2] \in 1..Weight(s[e[1]])
      BY <1>1, StoodForPairs
    <3>2. e[1] \in 1..(n + m) /\ u[e[1]] = s[e[1]]
      BY <1>1, <1>2, <3>1
    <3>3. <<e[1], e[2]>> \in StoodFor(u)
      BY <1>2, <3>1, <3>2, StoodForMember
    <3> QED
      BY <3>1, <3>3
  <2>3. ASSUME NEW e \in StoodFor(t)
        PROVE  <<e[1] + n, e[2]>> \in StoodFor(u)
    <3>1. e[1] \in 1..m /\ e[2] \in 1..Weight(t[e[1]])
      BY <1>1, StoodForPairs
    <3>2. e[1] + n \in 1..(n + m) /\ u[e[1] + n] = t[e[1]]
      BY <1>1, <1>2, <3>1
    <3> QED
      BY <1>2, <3>1, <3>2, StoodForMember
  <2> QED
    BY <2>1, <2>2, <2>3
<1>4. StoodFor(s) \intersect Raised = {}
  <2> SUFFICES ASSUME NEW e \in StoodFor(t), <<e[1] + n, e[2]>> \in StoodFor(s)
               PROVE  FALSE
    OBVIOUS
  <2>1. e[1] \in 1..m
    BY <1>1, StoodForPairs
  <2>2. e[1] + n \in 1..n
    BY <1>1, StoodForMember
  <2> QED
    BY <1>1, <2>1, <2>2
<1>5. /\ IsFiniteSet(StoodFor(s)) /\ IsFiniteSet(StoodFor(t))
      /\ Weights(s) \in Nat /\ Weights(t) \in Nat
  BY WeightsType
<1>6. IsFiniteSet(Raised) /\ Cardinality(Raised) = Weights(t)
  <2>1. f \in [StoodFor(t) -> Raised]
    OBVIOUS
  <2>2. \A e \in Raised : \E d \in StoodFor(t) : f[d] = e
    OBVIOUS
  <2>3. ASSUME NEW d \in StoodFor(t), NEW e \in StoodFor(t), f[d] = f[e]
        PROVE  d = e
    <3>1. /\ d = <<d[1], d[2]>> /\ e = <<e[1], e[2]>> /\ d[1] \in 1..m /\ e[1] \in 1..m
      BY <1>1, StoodForPairs
    <3>2. <<d[1] + n, d[2]>> = <<e[1] + n, e[2]>>
      BY <2>3
    <3>3. d[1] + n = e[1] + n /\ d[2] = e[2]
      BY <3>2
    <3>4. d[1] = e[1]
      BY <1>1, <3>1, <3>3
    <3> QED
      BY <3>1, <3>3, <3>4
  <2> HIDE DEF f, Raised
  <2>4. f \in Bijection(StoodFor(t), Raised)
    BY <2>1, <2>2, <2>3, Fun_IsBij
  <2>5. ExistsBijection(StoodFor(t), Raised)
    BY <2>4, Fun_ExistsBij
  <2> QED
    BY <1>5, <2>5, FS_Bijection DEF Weights
<1> HIDE DEF Raised
<1>7. Cardinality(StoodFor(s) \union Raised)
        = Cardinality(StoodFor(s)) + Cardinality(Raised) - Cardinality(StoodFor(s) \intersect Raised)
  BY <1>5, <1>6, FS_Union
<1>8. Cardinality(StoodFor(s) \intersect Raised) = 0
  BY <1>4, FS_EmptySet
<1> QED
  BY <1>3, <1>5, <1>6, <1>7, <1>8 DEF Weights, u

LEMMA WeightsOne ==
  ASSUME NEW item \in Items
  PROVE  <<item>> \in Seq(Items) /\ Weights(<<item>>) = Weight(item)
<1> DEFINE w == Weight(item)
<1>1. w \in Nat
  BY WeightType, BoundAssumption
<1>2. StoodFor(<<item>>) = {1} \X (1..w)
  BY DEF StoodFor
<1> HIDE DEF w
<1> DEFINE I == 1..w
           One == {1}
<1>3. IsFiniteSet(One) /\ Cardinality(One) = 1
  BY FS_Singleton
<1>4. IsFiniteSet(I) /\ Cardinality(I) = w
  BY <1>1, FS_Interval
<1> HIDE DEF I, One
<1>5. Cardinality(One \X I) = Cardinality(One) * Cardinality(I)
  BY <1>3, <1>4, FS_Product
<1>6. 1 * w = w
  BY <1>1
<1>7. Cardinality(One \X I) = w
  BY <1>3, <1>4, <1>5, <1>6
<1>8. Weights(<<item>>) = w
  BY <1>2, <1>7 DEF Weights, I, One
<1>9. <<item>> \in Seq(Items)
  OBVIOUS
<1> QED
  BY <1>8, <1>9 DEF w

LEMMA WeightsAppend ==
  ASSUME NEW s \in Seq(Items), NEW item \in Items
  PROVE  Weights(Append(s, item)) = Weights(s) + Weight(item)
<1>1. Append(s, item) = s \o <<item>>
  BY AppendIsConcat
<1> QED
  BY <1>1, WeightsOne, WeightsConcat

(* A list cut in two. *)
LEMMA Cut ==
  ASSUME NEW S, NEW s \in Seq(S), NEW k \in 0..Len(s)
  PROVE  /\ SubSeq(s, 1, k) \in Seq(S) /\ Len(SubSeq(s, 1, k)) = k
         /\ \A i \in 1..k : SubSeq(s, 1, k)[i] = s[i]
         /\ SubSeq(s, k + 1, Len(s)) \in Seq(S)
         /\ Len(SubSeq(s, k + 1, Len(s))) = Len(s) - k
         /\ \A i \in 1..(Len(s) - k) : SubSeq(s, k + 1, Len(s))[i] = s[i + k]
         /\ s = SubSeq(s, 1, k) \o SubSeq(s, k + 1, Len(s))
<1> DEFINE n == Len(s)
           u == SubSeq(s, 1, k)
           v == SubSeq(s, k + 1, n)
<1>1. n \in Nat /\ k \in 0..n /\ \A i \in 1..n : s[i] \in S
  BY LenProperties, ElementOfSeq
<1> HIDE DEF n
<1>2. /\ u \in Seq(S) /\ Len(u) = k
      /\ \A i \in 1..k : u[i] = s[i]
  <2>1. \A i \in 1..k : s[i] \in S
    BY <1>1
  <2>2. /\ u \in Seq(S)
        /\ Len(u) = IF 1 <= k THEN k - 1 + 1 ELSE 0
        /\ \A i \in 1..(k - 1 + 1) : u[i] = s[1 + i - 1]
    BY <1>1, <2>1, SubSeqProperties
  <2> HIDE DEF u
  <2> QED
    BY <1>1, <2>2
<1>3. /\ v \in Seq(S) /\ Len(v) = n - k
      /\ \A i \in 1..(n - k) : v[i] = s[i + k]
  <2>1. \A i \in (k + 1)..n : s[i] \in S
    BY <1>1
  <2>2. /\ v \in Seq(S)
        /\ Len(v) = IF k + 1 <= n THEN n - (k + 1) + 1 ELSE 0
        /\ \A i \in 1..(n - (k + 1) + 1) : v[i] = s[(k + 1) + i - 1]
    BY <1>1, <2>1, SubSeqProperties
  <2> HIDE DEF v
  <2> QED
    BY <1>1, <2>2
<1> HIDE DEF u, v
<1>4. s = u \o v
  <2>0. /\ u \o v \in Seq(S) /\ Len(u \o v) = Len(u) + Len(v)
        /\ \A i \in 1..(Len(u) + Len(v)) : (u \o v)[i] = IF i <= Len(u) THEN u[i] ELSE v[i - Len(u)]
    <3>1. u \in Seq(S) /\ v \in Seq(S)
      BY <1>2, <1>3
    <3> QED
      BY <3>1, ConcatProperties
  <2>9. Len(u) + Len(v) = n /\ Len(u) = k
    BY <1>1, <1>2, <1>3
  <2>1. /\ u \o v \in Seq(S) /\ Len(u \o v) = n
        /\ \A i \in 1..n : (u \o v)[i] = IF i <= k THEN u[i] ELSE v[i - k]
    BY <2>0, <2>9
  <2>2. \A i \in 1..n : (u \o v)[i] = s[i]
    <3> TAKE i \in 1..n
    <3>1. CASE i <= k
      BY <1>1, <1>2, <2>1, <3>1
    <3>2. CASE ~(i <= k)
      <4>1. i - k \in 1..(n - k) /\ (i - k) + k = i
        BY <1>1, <3>2
      <4> QED
        BY <1>3, <2>1, <3>2, <4>1
    <3> QED
      BY <3>1, <3>2
  <2> QED
    BY <2>1, <2>2, SeqEqual DEF n
<1> QED
  BY <1>2, <1>3, <1>4 DEF u, v, n

LEMMA WeightsCut ==
  ASSUME NEW s \in Seq(Items), NEW k \in 0..Len(s)
  PROVE  Weights(s) = Weights(SubSeq(s, 1, k)) + Weights(SubSeq(s, k + 1, Len(s)))
<1> DEFINE u == SubSeq(s, 1, k)
           v == SubSeq(s, k + 1, Len(s))
<1>1. u \in Seq(Items) /\ v \in Seq(Items) /\ s = u \o v
  BY Cut
<1> HIDE DEF u, v
<1>2. Weights(u \o v) = Weights(u) + Weights(v)
  BY <1>1, WeightsConcat
<1> QED
  BY <1>1, <1>2 DEF u, v

(* A list and its last entry. *)
LEMMA WeightsLast ==
  ASSUME NEW s \in Seq(Items), s # <<>>
  PROVE  /\ Front(s) \in Seq(Items) /\ Len(Front(s)) = Len(s) - 1
         /\ \A i \in 1..(Len(s) - 1) : Front(s)[i] = s[i]
         /\ Last(s) \in Items
         /\ s = Append(Front(s), Last(s))
         /\ Weights(s) = Weights(Front(s)) + Weight(Last(s))
<1>1. Len(s) \in Nat \ {0}
  BY EmptySeq
<1> DEFINE k == Len(s) - 1
<1>2. k \in 0..Len(s) /\ k + 1 = Len(s)
  BY <1>1
<1>3. Front(s) = SubSeq(s, 1, k)
  BY DEF Front
<1>4. Last(s) \in Items
  BY <1>1, ElementOfSeq DEF Last
<1> HIDE DEF k
<1>5. /\ Front(s) \in Seq(Items) /\ Len(Front(s)) = k
      /\ \A i \in 1..k : Front(s)[i] = s[i]
  BY <1>2, <1>3, Cut
<1>6. SubSeq(s, k + 1, Len(s)) = <<Last(s)>>
  <2> DEFINE v == SubSeq(s, k + 1, Len(s))
  <2>1. v \in Seq(Items) /\ Len(v) = Len(s) - k /\ \A i \in 1..(Len(s) - k) : v[i] = s[i + k]
    BY <1>2, Cut
  <2> HIDE DEF v
  <2>2. Len(v) = 1 /\ v[1] = Last(s)
    BY <1>1, <1>2, <2>1 DEF Last
  <2>3. <<Last(s)>> \in Seq(Items) /\ Len(<<Last(s)>>) = 1
    BY <1>4
  <2>4. v = <<Last(s)>>
    <3>1. /\ Len(v) = Len(<<Last(s)>>)
          /\ \A i \in 1..Len(v) : v[i] = <<Last(s)>>[i]
      BY <2>2
    <3> QED
      BY <2>1, <2>3, <3>1, SeqEqual
  <2> QED
    BY <2>4 DEF v
<1>7. Weights(s) = Weights(SubSeq(s, 1, k)) + Weights(SubSeq(s, k + 1, Len(s)))
  BY <1>2, WeightsCut
<1>8. s = SubSeq(s, 1, k) \o SubSeq(s, k + 1, Len(s))
  BY <1>2, Cut
<1>9. s = Front(s) \o <<Last(s)>>
  BY <1>3, <1>6, <1>8
<1>10. s = Append(Front(s), Last(s))
  BY <1>4, <1>5, <1>9, AppendIsConcat
<1> QED
  BY <1>3, <1>4, <1>5, <1>6, <1>7, <1>10, WeightsOne DEF k

-----------------------------------------------------------------------------
(* The inductive invariant of the event streams.                           *)

(* The states of a stream, whatever the session it stands on: how long a   *)
(* session may still last is not the stream's concern.                     *)
LooseStates ==
  [open : BOOLEAN, pending : Seq(Items), room : 0..2, due : Nat, expires : Nat,
   revoked : 0..MaxTime, published : 0..MaxEvents, told : 0..MaxEvents]

(* Behind the told events, the items account for the published ones, each  *)
(* event at its place.                                                     *)
Exact(items, told, published) ==
  /\ told + Weights(items) = published
  /\ \A i \in DOMAIN items :
       items[i].kind = "event" => items[i].n = told + Weights(SubSeq(items, 1, i - 1)) + 1

OneKeepAlive(items) ==
  \A i, j \in DOMAIN items : items[i] = KeepAlive /\ items[j] = KeepAlive => i = j

ItemsOK(items, told, published) ==
  /\ Len(items) <= MaxPending
  /\ OneKeepAlive(items)
  /\ Exact(items, told, published)

(* The timer is ahead of the clock, and neither the session's end nor an   *)
(* interval after its revocation is ahead of the timer.                    *)
Timed(q, time) ==
  /\ time <= q.due /\ q.due <= time + Interval
  /\ q.due <= q.expires
  /\ q.revoked # 0 => q.revoked <= time /\ q.due <= q.revoked + Interval

StreamOK(q, time) ==
  IF q.open THEN Timed(q, time) /\ ItemsOK(q.pending, q.told, q.published) ELSE q = Closed

Subscribed ==
  /\ listeners \in [Principals -> SUBSET Streams]
  /\ \A s \in Streams : st[s].open <=> s \in listeners[Owner[s]]
  /\ \A p \in Principals : \A s \in listeners[p] : Owner[s] = p

StreamsInv ==
  /\ now \in 1..MaxTime
  /\ Subscribed
  /\ st \in [Streams -> LooseStates]
  /\ \A s \in Streams : StreamOK(st[s], now)

(* In the specification of the server alone, sessions are bounded too. *)
SessionsBounded == \A s \in Streams : st[s].expires <= MaxTime + Interval + 1

ConsoleInv == StreamsInv /\ SessionsBounded

-----------------------------------------------------------------------------
(* What queueing and pumping do to an exact list.                          *)

LEMMA ItemTypes ==
  /\ KeepAlive \in Items
  /\ \A n \in 1..MaxEvents : Event(n) \in Items /\ Gap(n) \in Items
  /\ \A n : /\ KeepAlive # Event(n) /\ KeepAlive # Gap(n)
            /\ Weight(Event(n)) = 1 /\ Weight(Gap(n)) = n
            /\ Event(n).kind = "event" /\ Event(n).n = n /\ Gap(n).kind = "gap"
  /\ Weight(KeepAlive) = 0 /\ KeepAlive.kind = "comment"
BY DEF Items, KeepAlive, Event, Gap, Weight

(* The beginning of a list with one more entry. *)
LEMMA AppendPrefix ==
  ASSUME NEW s \in Seq(Items), NEW item \in Items, NEW i \in 0..Len(s)
  PROVE  SubSeq(Append(s, item), 1, i) = SubSeq(s, 1, i)
<1> DEFINE t == Append(s, item)
<1>1. /\ t \in Seq(Items) /\ Len(t) = Len(s) + 1
      /\ \A j \in 1..Len(s) : t[j] = s[j]
  BY AppendProperties
<1>2. Len(s) \in Nat
  BY LenProperties
<1> HIDE DEF t
<1>3. i \in 0..Len(t)
  BY <1>1, <1>2
<1>4. /\ SubSeq(t, 1, i) \in Seq(Items) /\ Len(SubSeq(t, 1, i)) = i
      /\ \A j \in 1..i : SubSeq(t, 1, i)[j] = t[j]
  BY <1>1, <1>3, Cut
<1>5. /\ SubSeq(s, 1, i) \in Seq(Items) /\ Len(SubSeq(s, 1, i)) = i
      /\ \A j \in 1..i : SubSeq(s, 1, i)[j] = s[j]
  BY Cut
<1>6. \A j \in 1..i : t[j] = s[j]
  BY <1>1, <1>2
<1> QED
  BY <1>4, <1>5, <1>6, SeqEqual DEF t

(* The beginning of a list is exact about the part it stands for. *)
LEMMA WholeList ==
  ASSUME NEW s \in Seq(Items)
  PROVE  SubSeq(s, 1, Len(s)) = s
<1>1. Len(s) \in Nat /\ Len(s) \in 0..Len(s)
  BY LenProperties
<1>2. /\ SubSeq(s, 1, Len(s)) \in Seq(Items) /\ Len(SubSeq(s, 1, Len(s))) = Len(s)
      /\ \A j \in 1..Len(s) : SubSeq(s, 1, Len(s))[j] = s[j]
  BY <1>1, Cut
<1> QED
  BY <1>2, SeqEqual

LEMMA AppendExact ==
  ASSUME NEW s \in Seq(Items), NEW item \in Items, NEW told \in Nat, NEW published \in Nat,
         Exact(s, told, published),
         item.kind = "event" => item.n = published + 1
  PROVE  Exact(Append(s, item), told, published + Weight(item))
<1> DEFINE t == Append(s, item)
<1>1. /\ Len(s) \in Nat /\ DOMAIN s = 1..Len(s)
      /\ DOMAIN t = 1..(Len(s) + 1)
      /\ \A j \in 1..Len(s) : t[j] = s[j]
      /\ t[Len(s) + 1] = item
  BY LenProperties, AppendProperties
<1>2. Weights(t) = Weights(s) + Weight(item) /\ Weights(s) \in Nat /\ Weight(item) \in Nat
  BY WeightsAppend, WeightsType, WeightType, BoundAssumption
<1>3. told + Weights(s) = published
  BY DEF Exact
<1>4. told + Weights(t) = published + Weight(item)
  BY <1>2, <1>3
<1> HIDE DEF t
<1>5. ASSUME NEW i \in DOMAIN t, t[i].kind = "event"
      PROVE  t[i].n = told + Weights(SubSeq(t, 1, i - 1)) + 1
  <2>1. i - 1 \in 0..Len(s) /\ i \in 1..(Len(s) + 1)
    BY <1>1
  <2>2. SubSeq(t, 1, i - 1) = SubSeq(s, 1, i - 1)
    BY <2>1, AppendPrefix DEF t
  <2>3. CASE i \in 1..Len(s)
    <3>1. t[i] = s[i] /\ i \in DOMAIN s
      BY <1>1, <2>3
    <3>2. s[i].n = told + Weights(SubSeq(s, 1, i - 1)) + 1
      BY <1>5, <3>1 DEF Exact
    <3> QED
      BY <2>2, <3>1, <3>2
  <2>4. CASE i = Len(s) + 1
    <3>1. t[i].n = published + 1
      BY <1>1, <1>5, <2>4
    <3>2. i - 1 = Len(s)
      BY <1>1, <2>4
    <3>3. SubSeq(t, 1, i - 1) = s
      BY <2>2, <3>2, WholeList
    <3> QED
      BY <1>3, <3>1, <3>3
  <2> QED
    BY <1>1, <2>1, <2>3, <2>4
<1> QED
  BY <1>4, <1>5 DEF Exact, t

LEMMA FrontExact ==
  ASSUME NEW s \in Seq(Items), s # <<>>, NEW told \in Nat, NEW published \in Nat,
         Exact(s, told, published)
  PROVE  /\ published - Weight(Last(s)) \in Nat
         /\ Exact(Front(s), told, published - Weight(Last(s)))
<1> DEFINE f == Front(s)
           k == Len(s) - 1
           w == Weight(Last(s))
<1>1. /\ f \in Seq(Items) /\ Len(f) = k /\ \A i \in 1..k : f[i] = s[i]
      /\ Last(s) \in Items /\ Weights(s) = Weights(f) + w
  BY WeightsLast
<1>2. /\ Len(s) \in Nat /\ k \in 0..Len(s) /\ k + 1 = Len(s)
      /\ DOMAIN s = 1..Len(s) /\ DOMAIN f = 1..k
  BY <1>1, EmptySeq, LenProperties
<1>3. Weights(f) \in Nat /\ w \in Nat
  BY <1>1, WeightsType, WeightType, BoundAssumption
<1>4. told + Weights(s) = published
  BY DEF Exact
<1> HIDE DEF f, k, w
<1>5. published - w \in Nat /\ told + Weights(f) = published - w
  BY <1>1, <1>3, <1>4
<1>6. ASSUME NEW i \in DOMAIN f, f[i].kind = "event"
      PROVE  f[i].n = told + Weights(SubSeq(f, 1, i - 1)) + 1
  <2>1. i \in 1..k /\ i - 1 \in 0..k /\ i - 1 \in 0..Len(s) /\ i \in DOMAIN s /\ f[i] = s[i]
    BY <1>1, <1>2
  <2>2. s[i].n = told + Weights(SubSeq(s, 1, i - 1)) + 1
    BY <1>6, <2>1 DEF Exact
  <2>3. SubSeq(f, 1, i - 1) = SubSeq(s, 1, i - 1)
    <3>1. s = Append(f, Last(s))
      BY WeightsLast DEF f
    <3> QED
      BY <1>1, <2>1, <3>1, AppendPrefix
  <2> QED
    BY <2>1, <2>2, <2>3
<1> QED
  BY <1>5, <1>6 DEF Exact, f, w

(* How a new last item leaves the keep-alives. *)
LEMMA AppendOneKeepAlive ==
  ASSUME NEW s \in Seq(Items), NEW item, OneKeepAlive(s),
         item # KeepAlive \/ KeepAlive \notin ToSet(s)
  PROVE  OneKeepAlive(Append(s, item))
<1> DEFINE t == Append(s, item)
<1>1. /\ Len(s) \in Nat /\ DOMAIN s = 1..Len(s)
      /\ DOMAIN t = 1..(Len(s) + 1)
      /\ \A j \in 1..Len(s) : t[j] = s[j]
      /\ t[Len(s) + 1] = item
  BY LenProperties, AppendProperties
<1> HIDE DEF t
<1> SUFFICES ASSUME NEW i \in DOMAIN t, NEW j \in DOMAIN t, t[i] = KeepAlive, t[j] = KeepAlive
             PROVE  i = j
  BY DEF OneKeepAlive, t
<1>2. CASE item # KeepAlive
  <2>1. i \in DOMAIN s /\ j \in DOMAIN s /\ s[i] = KeepAlive /\ s[j] = KeepAlive
    BY <1>1, <1>2
  <2> QED
    BY <2>1 DEF OneKeepAlive
<1>3. CASE KeepAlive \notin ToSet(s)
  <2>1. \A h \in 1..Len(s) : s[h] # KeepAlive
    BY <1>1, <1>3 DEF ToSet
  <2> QED
    BY <1>1, <2>1
<1> QED
  BY <1>2, <1>3

LEMMA FrontOneKeepAlive ==
  ASSUME NEW s \in Seq(Items), s # <<>>, OneKeepAlive(s)
  PROVE  OneKeepAlive(Front(s))
<1>1. /\ Front(s) \in Seq(Items) /\ Len(Front(s)) = Len(s) - 1
      /\ \A i \in 1..(Len(s) - 1) : Front(s)[i] = s[i]
  BY WeightsLast
<1>2. Len(s) \in Nat /\ DOMAIN s = 1..Len(s) /\ DOMAIN Front(s) = 1..(Len(s) - 1)
  BY <1>1, LenProperties
<1> QED
  BY <1>1, <1>2 DEF OneKeepAlive

(* queueEvent(): the list stays exact about one event more, and bounded.   *)
LEMMA QueuedEventOK ==
  ASSUME NEW items \in Seq(Items), NEW told \in 0..MaxEvents, NEW published \in 0..MaxEvents,
         published < MaxEvents, ItemsOK(items, told, published)
  PROVE  /\ QueuedEvent(items, published + 1) \in Seq(Items)
         /\ ItemsOK(QueuedEvent(items, published + 1), told, published + 1)
<1>1. /\ Len(items) \in Nat /\ MaxPending \in Nat \ {0} /\ MaxEvents \in Nat
      /\ told \in Nat /\ published \in Nat /\ published + 1 \in 1..MaxEvents
  BY LenProperties, StreamAssumption, BoundAssumption
<1> DEFINE new == QueuedEvent(items, published + 1)
           last == Last(items)
<1>2. CASE Len(items) < MaxPending
  <2> DEFINE e == Event(published + 1)
  <2>1. new = Append(items, e)
    BY <1>2 DEF QueuedEvent
  <2>2. e \in Items /\ e # KeepAlive /\ Weight(e) = 1 /\ e.n = published + 1
    BY <1>1, ItemTypes
  <2> HIDE DEF new, e
  <2>3. new \in Seq(Items) /\ Len(new) = Len(items) + 1
    BY <2>1, <2>2, AppendProperties
  <2>4. OneKeepAlive(new)
    BY <2>1, <2>2, AppendOneKeepAlive DEF ItemsOK
  <2>5. Exact(new, told, published + 1)
    BY <1>1, <2>1, <2>2, AppendExact DEF ItemsOK
  <2>6. Len(new) <= MaxPending
    BY <1>1, <1>2, <2>3
  <2> QED
    BY <2>3, <2>4, <2>5, <2>6 DEF ItemsOK, new
<1>3. CASE ~(Len(items) < MaxPending)
  <2>1. items # <<>> /\ Len(items) <= MaxPending
    BY <1>1, <1>3, EmptySeq DEF ItemsOK
  <2>2. /\ Front(items) \in Seq(Items) /\ Len(Front(items)) = Len(items) - 1
        /\ last \in Items
        /\ Weights(items) = Weights(Front(items)) + Weight(last)
    BY <2>1, WeightsLast
  <2>3. Weights(Front(items)) \in Nat /\ Weight(last) \in Nat /\ told + Weights(items) = published
    BY <1>1, <2>2, WeightsType, WeightType DEF ItemsOK, Exact
  <2> DEFINE w == Weight(last)
             g == Gap(1 + w)
             f == Front(items)
  <2>4. new = Append(f, g)
    <3>1. CASE last.kind = "gap"
      <4>1. last.n = w
        BY <3>1 DEF Weight
      <4>2. Gap(last.n + 1) = g
        BY <2>3, <4>1
      <4> QED
        BY <1>3, <3>1, <4>2 DEF QueuedEvent
    <3>2. CASE last.kind # "gap"
      BY <1>3, <3>2 DEF QueuedEvent
    <3> QED
      BY <3>1, <3>2
  <2>5. Exact(f, told, published - w) /\ published - w \in Nat
    BY <1>1, <2>1, FrontExact DEF ItemsOK
  <2>6. OneKeepAlive(f)
    BY <2>1, FrontOneKeepAlive DEF ItemsOK
  <2> HIDE DEF new, w, f
  <2>7. 1 + w \in 1..MaxEvents
    BY <1>1, <2>2, <2>3 DEF w, f
  <2>8. g \in Items /\ g # KeepAlive /\ Weight(g) = 1 + w /\ g.kind = "gap"
    BY <2>7, ItemTypes
  <2> HIDE DEF g
  <2>9. f \in Seq(Items) /\ new \in Seq(Items) /\ Len(new) = Len(items)
    BY <1>1, <2>2, <2>4, <2>8, AppendProperties DEF f
  <2>10. OneKeepAlive(new)
    BY <2>4, <2>6, <2>8, <2>9, AppendOneKeepAlive
  <2>11. Exact(new, told, published - w + Weight(g))
    <3>1. g.kind # "event"
      BY <2>8
    <3> QED
      BY <1>1, <2>4, <2>5, <2>8, <2>9, <3>1, AppendExact
  <2>12. published - w + Weight(g) = published + 1
    BY <1>1, <2>3, <2>8 DEF w
  <2> QED
    BY <2>1, <2>9, <2>10, <2>11, <2>12 DEF ItemsOK, new
<1> QED
  BY <1>2, <1>3

(* queueKeepAlive(): a keep-alive stands for no event.                     *)
LEMMA QueuedKeepAliveOK ==
  ASSUME NEW items \in Seq(Items), NEW told \in 0..MaxEvents, NEW published \in 0..MaxEvents,
         ItemsOK(items, told, published)
  PROVE  /\ QueuedKeepAlive(items) \in Seq(Items)
         /\ ItemsOK(QueuedKeepAlive(items), told, published)
<1>1. /\ Len(items) \in Nat /\ MaxPending \in Nat \ {0} /\ MaxEvents \in Nat
      /\ told \in Nat /\ published \in Nat
  BY LenProperties, StreamAssumption, BoundAssumption
<1>2. CASE Len(items) >= MaxPending \/ KeepAlive \in ToSet(items)
  BY <1>2 DEF QueuedKeepAlive
<1>3. CASE ~(Len(items) >= MaxPending \/ KeepAlive \in ToSet(items))
  <2> DEFINE new == Append(items, KeepAlive)
  <2>1. QueuedKeepAlive(items) = new
    BY <1>3 DEF QueuedKeepAlive
  <2>2. KeepAlive \in Items /\ Weight(KeepAlive) = 0 /\ KeepAlive.kind # "event"
    BY ItemTypes
  <2>3. new \in Seq(Items) /\ Len(new) = Len(items) + 1
    BY <2>2, AppendProperties
  <2>4. OneKeepAlive(new)
    BY <1>3, AppendOneKeepAlive DEF ItemsOK
  <2>5. Exact(new, told, published + 0)
    BY <1>1, <2>2, AppendExact DEF ItemsOK
  <2> HIDE DEF new
  <2>6. Len(new) <= MaxPending /\ published + 0 = published
    BY <1>1, <1>3, <2>3
  <2> QED
    BY <2>1, <2>3, <2>4, <2>5, <2>6 DEF ItemsOK
<1> QED
  BY <1>2, <1>3

(* A beginning that reaches beyond a cut.                                  *)
LEMMA PrefixBeyondCut ==
  ASSUME NEW s \in Seq(Items), NEW k \in 0..Len(s), NEW j \in 0..(Len(s) - k)
  PROVE  LET v == SubSeq(s, k + 1, Len(s))
         IN Weights(SubSeq(s, 1, k + j)) = Weights(SubSeq(s, 1, k)) + Weights(SubSeq(v, 1, j))
<1> DEFINE u == SubSeq(s, 1, k)
           v == SubSeq(s, k + 1, Len(s))
           x == SubSeq(s, 1, k + j)
           y == SubSeq(v, 1, j)
<1>1. Len(s) \in Nat /\ k \in 0..Len(s) /\ j \in 0..(Len(s) - k) /\ k + j \in 0..Len(s)
  BY LenProperties
<1>2. /\ u \in Seq(Items) /\ Len(u) = k /\ \A i \in 1..k : u[i] = s[i]
      /\ v \in Seq(Items) /\ Len(v) = Len(s) - k
      /\ \A i \in 1..(Len(s) - k) : v[i] = s[i + k]
  BY <1>1, Cut
<1>3. x \in Seq(Items) /\ Len(x) = k + j /\ \A i \in 1..(k + j) : x[i] = s[i]
  BY <1>1, Cut
<1> HIDE DEF u, v, x
<1>4. y \in Seq(Items) /\ Len(y) = j /\ \A i \in 1..j : y[i] = v[i]
  BY <1>1, <1>2, Cut
<1> HIDE DEF y
<1>5. /\ u \o y \in Seq(Items) /\ Len(u \o y) = Len(u) + Len(y)
      /\ \A i \in 1..(Len(u) + Len(y)) : (u \o y)[i] = IF i <= Len(u) THEN u[i] ELSE y[i - Len(u)]
  <2>1. u \in Seq(Items) /\ y \in Seq(Items)
    BY <1>2, <1>4
  <2> QED
    BY <2>1, ConcatProperties
<1>6. ASSUME NEW i \in 1..(k + j)
      PROVE  (u \o y)[i] = x[i]
  <2>1. x[i] = s[i] /\ i \in 1..(Len(u) + Len(y))
    BY <1>1, <1>2, <1>3, <1>4
  <2>2. CASE i <= k
    BY <1>1, <1>2, <1>5, <2>1, <2>2
  <2>3. CASE ~(i <= k)
    <3>1. i - k \in 1..j /\ i - k \in 1..(Len(s) - k) /\ (i - k) + k = i
      BY <1>1, <2>3
    <3>2. (u \o y)[i] = y[i - k]
      BY <1>2, <1>5, <2>1, <2>3
    <3>3. y[i - k] = v[i - k] /\ v[i - k] = s[(i - k) + k]
      BY <1>2, <1>4, <3>1
    <3> QED
      BY <2>1, <3>1, <3>2, <3>3
  <2> QED
    BY <2>2, <2>3
<1>7. x = u \o y
  <2>1. Len(x) = Len(u \o y)
    BY <1>2, <1>3, <1>4, <1>5
  <2> QED
    BY <1>3, <1>5, <1>6, <2>1, SeqEqual
<1>8. Weights(u \o y) = Weights(u) + Weights(y)
  BY <1>2, <1>4, WeightsConcat
<1> QED
  BY <1>7, <1>8 DEF u, v, x, y

(* What is left of an exact list behind a cut is exact about the rest.     *)
LEMMA RestExact ==
  ASSUME NEW items \in Seq(Items), NEW told \in Nat, NEW published \in Nat,
         Exact(items, told, published), NEW k \in 0..Len(items)
  PROVE  Exact(SubSeq(items, k + 1, Len(items)), told + Weights(SubSeq(items, 1, k)), published)
<1> DEFINE u == SubSeq(items, 1, k)
           v == SubSeq(items, k + 1, Len(items))
<1>1. Len(items) \in Nat /\ DOMAIN items = 1..Len(items) /\ k \in 0..Len(items)
  BY LenProperties
<1>2. /\ u \in Seq(Items)
      /\ v \in Seq(Items) /\ Len(v) = Len(items) - k
      /\ \A i \in 1..(Len(items) - k) : v[i] = items[i + k]
  BY <1>1, Cut
<1>3. DOMAIN v = 1..(Len(items) - k)
  BY <1>2, LenProperties
<1>4. Weights(items) = Weights(u) + Weights(v)
  BY WeightsCut
<1>5. Weights(u) \in Nat /\ Weights(v) \in Nat
  BY <1>2, WeightsType
<1>6. told + Weights(items) = published
  BY DEF Exact
<1>7. told + Weights(u) + Weights(v) = published
  BY <1>4, <1>5, <1>6
<1> HIDE DEF u, v
<1>8. ASSUME NEW i \in 1..(Len(items) - k), v[i].kind = "event"
      PROVE  v[i].n = told + Weights(u) + Weights(SubSeq(v, 1, i - 1)) + 1
  <2>1. v[i] = items[i + k] /\ i + k \in DOMAIN items
    BY <1>1, <1>2
  <2>2. items[i + k].n = told + Weights(SubSeq(items, 1, i + k - 1)) + 1
    BY <1>8, <2>1 DEF Exact
  <2>3. i - 1 \in 0..(Len(items) - k) /\ i + k - 1 = k + (i - 1)
    BY <1>1
  <2>4. Weights(SubSeq(items, 1, k + (i - 1))) = Weights(u) + Weights(SubSeq(v, 1, i - 1))
    BY <2>3, PrefixBeyondCut DEF u, v
  <2>5. SubSeq(v, 1, i - 1) \in Seq(Items)
    <3>1. i - 1 \in 0..Len(v)
      BY <1>2, <2>3
    <3> QED
      BY <1>2, <3>1, Cut
  <2>6. Weights(SubSeq(v, 1, i - 1)) \in Nat
    BY <2>5, WeightsType
  <2> QED
    BY <1>5, <2>1, <2>2, <2>3, <2>4, <2>6
<1>9. Exact(v, told + Weights(u), published)
  BY <1>3, <1>7, <1>8 DEF Exact
<1> QED
  BY <1>9 DEF u, v

LEMMA RestOneKeepAlive ==
  ASSUME NEW items \in Seq(Items), OneKeepAlive(items), NEW k \in 0..Len(items)
  PROVE  OneKeepAlive(SubSeq(items, k + 1, Len(items)))
<1> DEFINE v == SubSeq(items, k + 1, Len(items))
<1>1. Len(items) \in Nat /\ DOMAIN items = 1..Len(items) /\ k \in 0..Len(items)
  BY LenProperties
<1>2. /\ v \in Seq(Items) /\ Len(v) = Len(items) - k
      /\ \A i \in 1..(Len(items) - k) : v[i] = items[i + k]
  BY <1>1, Cut
<1>3. DOMAIN v = 1..(Len(items) - k)
  BY <1>2, LenProperties
<1> HIDE DEF v
<1>4. ASSUME NEW i \in DOMAIN v, NEW j \in DOMAIN v, v[i] = KeepAlive, v[j] = KeepAlive
      PROVE  i = j
  <2>1. i + k \in DOMAIN items /\ j + k \in DOMAIN items
    BY <1>1, <1>3
  <2>2. items[i + k] = KeepAlive /\ items[j + k] = KeepAlive
    BY <1>2, <1>3, <1>4
  <2>3. i + k = j + k
    BY <2>1, <2>2 DEF OneKeepAlive
  <2> QED
    BY <1>1, <1>3, <2>3
<1> QED
  BY <1>4 DEF OneKeepAlive, v

(* pump(): the rest of the list is exact about what was not told yet.      *)
LEMMA PumpedOK ==
  ASSUME NEW q \in LooseStates, ItemsOK(q.pending, q.told, q.published)
  PROVE  /\ Pumped(q) \in LooseStates
         /\ ItemsOK(Pumped(q).pending, Pumped(q).told, Pumped(q).published)
         /\ Pumped(q) = [q EXCEPT !.pending = Pumped(q).pending, !.room = Pumped(q).room,
                                  !.told = Pumped(q).told]
<1> DEFINE items == q.pending
           k == Min2(q.room, Len(items))
           v == SubSeq(items, k + 1, Len(items))
           told == q.told + Weights(SubSeq(items, 1, k))
<1>1. /\ items \in Seq(Items) /\ Len(items) \in Nat
      /\ q.room \in 0..2 /\ q.told \in 0..MaxEvents /\ q.published \in 0..MaxEvents
      /\ MaxEvents \in Nat /\ MaxPending \in Nat
  BY LenProperties, BoundAssumption, StreamAssumption DEF LooseStates
<1>2. Pumped(q) = [q EXCEPT !.pending = v, !.room = q.room - k, !.told = told]
  BY DEF Pumped
<1>3. k \in 0..Len(items) /\ q.room - k \in 0..2
  BY <1>1 DEF Min2
<1>4. v \in Seq(Items) /\ Len(v) = Len(items) - k /\ SubSeq(items, 1, k) \in Seq(Items)
  BY <1>1, <1>3, Cut
<1>5. Weights(SubSeq(items, 1, k)) \in Nat /\ Weights(v) \in Nat
  BY <1>4, WeightsType
<1>6. Exact(v, told, q.published)
  BY <1>1, <1>3, RestExact DEF ItemsOK
<1>7. OneKeepAlive(v)
  BY <1>1, <1>3, RestOneKeepAlive DEF ItemsOK
<1>8. told + Weights(v) = q.published
  BY <1>6 DEF Exact
<1>9. Len(items) <= MaxPending
  BY DEF ItemsOK
<1> HIDE DEF k, v, items
<1>10. told \in Nat
  BY <1>1, <1>5
<1> HIDE DEF told
<1>11. told \in 0..MaxEvents
  BY <1>1, <1>5, <1>8, <1>10
<1>12. Len(v) <= MaxPending
  BY <1>1, <1>3, <1>4, <1>9
<1>13. ItemsOK(v, told, q.published)
  BY <1>6, <1>7, <1>12 DEF ItemsOK
<1> DEFINE r == Pumped(q)
           room == q.room - k
<1> HIDE DEF room
<1>14. r = [q EXCEPT !.pending = v, !.room = room, !.told = told]
  BY <1>2 DEF room
<1> HIDE DEF r
<1>15. r \in LooseStates /\ r.pending = v /\ r.room = room /\ r.told = told /\ r.published = q.published
  BY <1>3, <1>4, <1>11, <1>14 DEF LooseStates, room
<1>16. r = [q EXCEPT !.pending = r.pending, !.room = r.room, !.told = r.told]
  BY <1>14, <1>15
<1> QED
  BY <1>13, <1>15, <1>16 DEF r

(* scheduleRevalidation(), for a session that has not expired.             *)
LEMMA NextCheckBounds ==
  ASSUME NEW expires \in Nat, now \in Nat, now < expires
  PROVE  /\ NextCheck(expires) \in Nat
         /\ now < NextCheck(expires) /\ NextCheck(expires) <= now + Interval
         /\ NextCheck(expires) <= expires
BY StreamAssumption DEF NextCheck, Max2, Min2

-----------------------------------------------------------------------------
(* The steps of the server keep the invariant.                             *)

LEMMA ClosedOK ==
  Closed \in LooseStates /\ ~Closed.open /\ \A time : StreamOK(Closed, time)
<1>1. <<>> \in Seq(Items) /\ MaxTime \in Nat /\ MaxEvents \in Nat
  BY EmptySeq, BoundAssumption
<1>2. Closed \in LooseStates /\ ~Closed.open
  BY <1>1 DEF Closed, LooseStates
<1> QED
  BY <1>2 DEF StreamOK

LEMMA StreamsInvAt ==
  ASSUME StreamsInv, NEW s \in Streams
  PROVE  /\ st[s] \in LooseStates /\ StreamOK(st[s], now)
         /\ now \in Nat \ {0} /\ now <= MaxTime
         /\ Owner[s] \in Principals
         /\ st[s].open => /\ Timed(st[s], now)
                          /\ ItemsOK(st[s].pending, st[s].told, st[s].published)
<1>1. MaxTime \in Nat
  BY BoundAssumption
<1> QED
  BY <1>1, StreamAssumption DEF StreamsInv, StreamOK

LEMMA InitOK == ASSUME Init PROVE ConsoleInv
<1>1. now \in 1..MaxTime
  BY BoundAssumption DEF Init
<1>2. Subscribed
  BY StreamAssumption DEF Init, Subscribed, Closed
<1>3. \A s \in Streams : st[s] = Closed
  BY DEF Init
<1>4. st \in [Streams -> LooseStates]
  BY ClosedOK DEF Init
<1>5. \A s \in Streams : StreamOK(st[s], now)
  BY <1>3, ClosedOK
<1>6. SessionsBounded
  BY <1>3, BoundAssumption, StreamAssumption DEF SessionsBounded, Closed
<1> QED
  BY <1>1, <1>2, <1>4, <1>5, <1>6 DEF ConsoleInv, StreamsInv

(* One stream goes to another good state, and stays as open as it was.     *)
LEMMA OneStreamOK ==
  ASSUME StreamsInv, NEW s \in Streams, NEW q \in LooseStates, StreamOK(q, now),
         q.open <=> st[s].open,
         st' = [st EXCEPT ![s] = q], UNCHANGED <<now, listeners>>
  PROVE  StreamsInv'
<1>1. st \in [Streams -> LooseStates]
  BY DEF StreamsInv
<1>2. \A r \in Streams : st'[r] = IF r = s THEN q ELSE st[r]
  BY <1>1
<1>3. st' \in [Streams -> LooseStates]
  BY <1>1
<1>4. Subscribed'
  BY <1>2 DEF StreamsInv, Subscribed
<1>5. \A r \in Streams : StreamOK(st'[r], now')
  BY <1>2 DEF StreamsInv
<1>6. now' \in 1..MaxTime
  BY DEF StreamsInv
<1> QED
  BY <1>3, <1>4, <1>5, <1>6 DEF StreamsInv, StreamOK, Timed

LEMMA ConnectOK ==
  ASSUME StreamsInv, NEW s \in Streams, NEW expires \in Nat, now < expires, Connect(s, expires)
  PROVE  StreamsInv'
<1> DEFINE due == NextCheck(expires)
           q == [Closed EXCEPT !.open = TRUE, !.due = due, !.expires = expires]
<1>1. now \in Nat \ {0} /\ st[s] \in LooseStates /\ Owner[s] \in Principals
  BY StreamsInvAt
<1>2. due \in Nat /\ now < due /\ due <= now + Interval /\ due <= expires
  BY <1>1, NextCheckBounds
<1> HIDE DEF due
<1>3. /\ q \in LooseStates /\ q.open /\ q.due = due /\ q.expires = expires
      /\ q.revoked = 0 /\ q.pending = <<>> /\ q.told = 0 /\ q.published = 0
  BY <1>2, ClosedOK DEF LooseStates, Closed
<1> HIDE DEF q
<1>4. ItemsOK(<<>>, 0, 0)
  <2>1. Exact(<<>>, 0, 0)
    BY WeightsEmpty DEF Exact
  <2>2. OneKeepAlive(<<>>)
    BY DEF OneKeepAlive
  <2> QED
    BY <2>1, <2>2, StreamAssumption DEF ItemsOK
<1>5. Timed(q, now)
  BY <1>1, <1>2, <1>3 DEF Timed
<1>6. StreamOK(q, now)
  BY <1>3, <1>4, <1>5 DEF StreamOK
<1>7. st \in [Streams -> LooseStates] /\ now \in 1..MaxTime /\ Subscribed
  BY DEF StreamsInv
<1>8. st' = [st EXCEPT ![s] = q] /\ now' = now
      /\ listeners' = [listeners EXCEPT ![Owner[s]] = @ \union {s}]
  BY DEF Connect, q, due
<1>9. st' \in [Streams -> LooseStates]
  BY <1>3, <1>7, <1>8
<1>10. \A r \in Streams : st'[r] = IF r = s THEN q ELSE st[r]
  BY <1>7, <1>8
<1>11. Subscribed'
  <2>1. listeners' \in [Principals -> SUBSET Streams]
    BY <1>1, <1>7, <1>8 DEF Subscribed
  <2>2. ASSUME NEW r \in Streams
        PROVE  st'[r].open <=> r \in listeners'[Owner[r]]
    BY <1>1, <1>3, <1>7, <1>8, <1>10, StreamAssumption DEF Subscribed
  <2>3. ASSUME NEW p \in Principals, NEW r \in listeners'[p]
        PROVE  Owner[r] = p
    BY <1>7, <1>8 DEF Subscribed
  <2> QED
    BY <2>1, <2>2, <2>3 DEF Subscribed
<1>12. \A r \in Streams : StreamOK(st'[r], now')
  BY <1>6, <1>8, <1>10 DEF StreamsInv
<1>13. now' \in 1..MaxTime
  BY <1>7, <1>8
<1> QED
  BY <1>9, <1>11, <1>12, <1>13 DEF StreamsInv, StreamOK, Timed

LEMMA CleanupOK ==
  ASSUME StreamsInv, NEW s \in Streams, Cleanup(s)
  PROVE  StreamsInv' /\ st' = [st EXCEPT ![s] = Closed]
<1>1. Owner[s] \in Principals
  BY StreamsInvAt
<1>2. st \in [Streams -> LooseStates] /\ now \in 1..MaxTime /\ Subscribed
  BY DEF StreamsInv
<1>3. st' = [st EXCEPT ![s] = Closed] /\ now' = now
      /\ listeners' = [listeners EXCEPT ![Owner[s]] = @ \ {s}]
  BY DEF Cleanup, Unsubscribed
<1>4. st' \in [Streams -> LooseStates]
  BY <1>2, <1>3, ClosedOK
<1>5. \A r \in Streams : st'[r] = IF r = s THEN Closed ELSE st[r]
  BY <1>2, <1>3
<1>6. Subscribed'
  <2>1. listeners' \in [Principals -> SUBSET Streams]
    BY <1>1, <1>2, <1>3 DEF Subscribed
  <2>2. ASSUME NEW r \in Streams
        PROVE  st'[r].open <=> r \in listeners'[Owner[r]]
    BY <1>1, <1>2, <1>3, <1>5, ClosedOK, StreamAssumption DEF Subscribed
  <2>3. ASSUME NEW p \in Principals, NEW r \in listeners'[p]
        PROVE  Owner[r] = p
    BY <1>2, <1>3 DEF Subscribed
  <2> QED
    BY <2>1, <2>2, <2>3 DEF Subscribed
<1>7. \A r \in Streams : StreamOK(st'[r], now')
  BY <1>3, <1>5, ClosedOK DEF StreamsInv
<1>8. now' \in 1..MaxTime
  BY <1>2, <1>3
<1> QED
  BY <1>3, <1>4, <1>6, <1>7, <1>8 DEF StreamsInv, StreamOK, Timed

(* A stream that hears of an event of its principal.                       *)
LEMMA HeardOK ==
  ASSUME NEW q \in LooseStates, q.open, q.published < MaxEvents, NEW time, StreamOK(q, time)
  PROVE  LET r == [[q EXCEPT !.published = @ + 1] EXCEPT
                     !.pending = QueuedEvent(@, q.published + 1)]
         IN /\ Pumped(r) \in LooseStates /\ Pumped(r).open /\ StreamOK(Pumped(r), time)
            /\ Pumped(r).expires = q.expires
<1> DEFINE r == [[q EXCEPT !.published = @ + 1] EXCEPT
                   !.pending = QueuedEvent(@, q.published + 1)]
           items == QueuedEvent(q.pending, q.published + 1)
           p == Pumped(r)
<1>1. /\ q.pending \in Seq(Items) /\ q.told \in 0..MaxEvents /\ q.published \in 0..MaxEvents
      /\ MaxEvents \in Nat
  BY BoundAssumption DEF LooseStates
<1>2. Timed(q, time) /\ ItemsOK(q.pending, q.told, q.published)
  BY DEF StreamOK
<1>3. items \in Seq(Items) /\ ItemsOK(items, q.told, q.published + 1)
  BY <1>1, <1>2, QueuedEventOK
<1>4. r = [q EXCEPT !.published = q.published + 1, !.pending = items]
  BY DEF LooseStates
<1> HIDE DEF items, r
<1>5. /\ r \in LooseStates /\ r.open /\ r.pending = items /\ r.told = q.told
      /\ r.published = q.published + 1 /\ r.due = q.due /\ r.expires = q.expires
      /\ r.revoked = q.revoked
  <2> DEFINE n == q.published + 1
  <2>1. n \in 0..MaxEvents
    BY <1>1
  <2> HIDE DEF n
  <2>2. r = [q EXCEPT !.published = n, !.pending = items]
    BY <1>4 DEF n
  <2>3. /\ r \in LooseStates /\ r.open /\ r.pending = items /\ r.told = q.told
        /\ r.published = n /\ r.due = q.due /\ r.expires = q.expires
        /\ r.revoked = q.revoked
    BY <1>3, <2>1, <2>2 DEF LooseStates
  <2> QED
    BY <2>3 DEF n
<1>6. /\ p \in LooseStates /\ ItemsOK(p.pending, p.told, p.published)
      /\ p = [r EXCEPT !.pending = p.pending, !.room = p.room, !.told = p.told]
  BY <1>3, <1>5, PumpedOK
<1> HIDE DEF p
<1>7. p.open /\ p.due = r.due /\ p.expires = r.expires /\ p.revoked = r.revoked
  BY <1>5, <1>6 DEF LooseStates
<1>8. Timed(p, time)
  BY <1>2, <1>5, <1>7 DEF Timed
<1>9. StreamOK(p, time) /\ p.expires = q.expires
  BY <1>5, <1>6, <1>7, <1>8 DEF StreamOK
<1> QED
  BY <1>6, <1>7, <1>9 DEF p, r

LEMMA PublishOK ==
  ASSUME StreamsInv, NEW p \in Principals, Publish(p)
  PROVE  StreamsInv' /\ \A s \in Streams : st'[s].expires = st[s].expires
<1> DEFINE audience == {s \in Streams : st[s].open /\ Owner[s] = p}
           Heard(s) == Pumped([[st[s] EXCEPT !.published = @ + 1] EXCEPT
                                 !.pending = QueuedEvent(@, st[s].published + 1)])
<1>1. st \in [Streams -> LooseStates] /\ now \in 1..MaxTime /\ Subscribed
  BY DEF StreamsInv
<1>2. UNCHANGED <<now, listeners>> /\ \A s \in audience : st[s].published < MaxEvents
  BY DEF Publish
<1>3. \A s \in audience : s \in listeners[p]
  BY <1>1 DEF Subscribed
<1>4. /\ DOMAIN st' = Streams /\ st' = [s \in Streams |-> st'[s]]
      /\ \A s \in Streams : st'[s] = IF s \in audience THEN Heard(s) ELSE st[s]
  <2> DEFINE Counted(q) == [q EXCEPT !.published = @ + 1]
             New(s) == IF s \notin audience THEN st[s]
                       ELSE IF s \notin listeners[p] THEN Counted(st[s])
                       ELSE Heard(s)
  <2>1. st' = [s \in Streams |-> New(s)]
    BY DEF Publish
  <2>2. \A s \in Streams : New(s) = IF s \in audience THEN Heard(s) ELSE st[s]
    BY <1>3
  <2> HIDE DEF New, audience, Heard
  <2> QED
    BY <2>1, <2>2
<1>5. ASSUME NEW s \in Streams
      PROVE  /\ st'[s] \in LooseStates /\ StreamOK(st'[s], now)
             /\ st'[s].open <=> st[s].open
             /\ st'[s].expires = st[s].expires
  <2>1. st[s] \in LooseStates /\ StreamOK(st[s], now)
    BY StreamsInvAt
  <2>2. CASE s \in audience
    <3>1. Heard(s) \in LooseStates /\ Heard(s).open /\ StreamOK(Heard(s), now)
          /\ Heard(s).expires = st[s].expires
      BY <1>2, <2>1, <2>2, HeardOK
    <3> HIDE DEF Heard
    <3> QED
      BY <1>4, <2>2, <3>1
  <2>3. CASE s \notin audience
    BY <1>4, <2>1, <2>3
  <2> QED
    BY <2>2, <2>3
<1> HIDE DEF audience, Heard
<1>6. st' \in [Streams -> LooseStates]
  BY <1>4, <1>5
<1>7. Subscribed'
  BY <1>1, <1>2, <1>5 DEF Subscribed
<1>8. \A s \in Streams : StreamOK(st'[s], now')
  BY <1>2, <1>5
<1>9. now' \in 1..MaxTime
  BY <1>1, <1>2
<1> QED
  BY <1>5, <1>6, <1>7, <1>8, <1>9 DEF StreamsInv, StreamOK, Timed

LEMMA ReadOK ==
  ASSUME StreamsInv, NEW s \in Streams, Read(s)
  PROVE  StreamsInv' /\ \A r \in Streams : st'[r].expires = st[r].expires
<1> DEFINE q == [st[s] EXCEPT !.room = @ + 1]
<1>1. /\ st[s] \in LooseStates /\ StreamOK(st[s], now) /\ st[s].open
      /\ st[s].room \in 0..2 /\ st[s].room < 2 /\ st \in [Streams -> LooseStates]
  BY StreamsInvAt DEF Read, LooseStates, StreamsInv
<1>2. st[s].room + 1 \in 0..2
  BY <1>1
<1>3. /\ q \in LooseStates /\ q.open /\ q.due = st[s].due /\ q.expires = st[s].expires
      /\ q.revoked = st[s].revoked /\ q.pending = st[s].pending /\ q.told = st[s].told
      /\ q.published = st[s].published
  BY <1>1, <1>2 DEF LooseStates
<1>4. st' = [st EXCEPT ![s] = q] /\ UNCHANGED <<now, listeners>>
  BY <1>1 DEF Read
<1> HIDE DEF q
<1>5. StreamOK(q, now)
  BY <1>1, <1>3 DEF StreamOK, Timed
<1>6. StreamsInv'
  BY <1>1, <1>3, <1>4, <1>5, OneStreamOK
<1>7. \A r \in Streams : st'[r].expires = st[r].expires
  BY <1>1, <1>3, <1>4
<1> QED
  BY <1>6, <1>7

LEMMA PullOK ==
  ASSUME StreamsInv, NEW s \in Streams, Pull(s)
  PROVE  StreamsInv' /\ \A r \in Streams : st'[r].expires = st[r].expires
<1> DEFINE q == Pumped(st[s])
<1>1. /\ st[s] \in LooseStates /\ StreamOK(st[s], now) /\ st[s].open
      /\ st \in [Streams -> LooseStates]
  BY StreamsInvAt DEF Pull, StreamsInv
<1>2. Timed(st[s], now) /\ ItemsOK(st[s].pending, st[s].told, st[s].published)
  BY <1>1 DEF StreamOK
<1>3. /\ q \in LooseStates /\ ItemsOK(q.pending, q.told, q.published)
      /\ q = [st[s] EXCEPT !.pending = q.pending, !.room = q.room, !.told = q.told]
  BY <1>1, <1>2, PumpedOK
<1>4. st' = [st EXCEPT ![s] = q] /\ UNCHANGED <<now, listeners>>
  BY <1>1 DEF Pull
<1> HIDE DEF q
<1>5. q.open /\ q.due = st[s].due /\ q.expires = st[s].expires /\ q.revoked = st[s].revoked
  BY <1>1, <1>3 DEF LooseStates
<1>6. StreamOK(q, now)
  BY <1>2, <1>3, <1>5 DEF StreamOK, Timed
<1>7. StreamsInv'
  BY <1>1, <1>3, <1>4, <1>5, <1>6, OneStreamOK
<1>8. \A r \in Streams : st'[r].expires = st[r].expires
  BY <1>1, <1>4, <1>5
<1> QED
  BY <1>7, <1>8

LEMMA RevalidateStandsOK ==
  ASSUME StreamsInv, NEW s \in Streams, RevalidateStands(s)
  PROVE  StreamsInv' /\ \A r \in Streams : st'[r].expires = st[r].expires
<1> DEFINE items == QueuedKeepAlive(st[s].pending)
           due == NextCheck(st[s].expires)
           q == [st[s] EXCEPT !.pending = items, !.due = due]
           new == IF items = st[s].pending THEN q ELSE Pumped(q)
<1>1. /\ st[s] \in LooseStates /\ StreamOK(st[s], now) /\ st[s].open
      /\ st \in [Streams -> LooseStates] /\ now \in Nat \ {0}
  BY StreamsInvAt DEF RevalidateStands, StreamsInv
<1>2. Timed(st[s], now) /\ ItemsOK(st[s].pending, st[s].told, st[s].published)
  BY <1>1 DEF StreamOK
<1>3. /\ st[s].pending \in Seq(Items) /\ st[s].told \in 0..MaxEvents
      /\ st[s].published \in 0..MaxEvents /\ st[s].expires \in Nat
  BY <1>1 DEF LooseStates
<1>4. items \in Seq(Items) /\ ItemsOK(items, st[s].told, st[s].published)
  BY <1>2, <1>3, QueuedKeepAliveOK
<1>5. st[s].revoked = 0 /\ now < st[s].expires
  BY <1>1, <1>3 DEF RevalidateStands, SessionGone
<1>6. due \in Nat /\ now < due /\ due <= now + Interval /\ due <= st[s].expires
  BY <1>1, <1>3, <1>5, NextCheckBounds
<1>7. st' = [st EXCEPT ![s] = new] /\ UNCHANGED <<now, listeners>>
  BY <1>1 DEF RevalidateStands
<1> HIDE DEF items, due
<1>8. /\ q \in LooseStates /\ q.open /\ q.pending = items /\ q.due = due
      /\ q.told = st[s].told /\ q.published = st[s].published
      /\ q.expires = st[s].expires /\ q.revoked = st[s].revoked
  BY <1>1, <1>4, <1>6 DEF LooseStates
<1> HIDE DEF q
<1>9. /\ new \in LooseStates /\ ItemsOK(new.pending, new.told, new.published)
      /\ new.open /\ new.due = q.due /\ new.expires = q.expires /\ new.revoked = q.revoked
  <2>1. CASE items = st[s].pending
    BY <1>4, <1>8, <2>1
  <2>2. CASE items # st[s].pending
    <3> DEFINE p == Pumped(q)
    <3>1. new = p
      BY <2>2
    <3>2. /\ p \in LooseStates /\ ItemsOK(p.pending, p.told, p.published)
          /\ p = [q EXCEPT !.pending = p.pending, !.room = p.room, !.told = p.told]
      BY <1>4, <1>8, PumpedOK
    <3> HIDE DEF p
    <3>3. p.open /\ p.due = q.due /\ p.expires = q.expires /\ p.revoked = q.revoked
      BY <1>8, <3>2 DEF LooseStates
    <3> HIDE DEF new
    <3> QED
      BY <3>1, <3>2, <3>3
  <2> QED
    BY <2>1, <2>2
<1> HIDE DEF new
<1>10. Timed(new, now)
  BY <1>1, <1>5, <1>6, <1>8, <1>9 DEF Timed
<1>11. StreamOK(new, now)
  BY <1>9, <1>10 DEF StreamOK
<1>12. StreamsInv'
  BY <1>1, <1>7, <1>9, <1>11, OneStreamOK
<1>13. \A r \in Streams : st'[r].expires = st[r].expires
  BY <1>1, <1>7, <1>8, <1>9
<1> QED
  BY <1>12, <1>13

LEMMA RevokeOK ==
  ASSUME StreamsInv, NEW s \in Streams, Revoke(s)
  PROVE  StreamsInv' /\ \A r \in Streams : st'[r].expires = st[r].expires
<1> DEFINE q == [st[s] EXCEPT !.revoked = now]
<1>1. /\ st[s] \in LooseStates /\ StreamOK(st[s], now) /\ st[s].open
      /\ st \in [Streams -> LooseStates] /\ now \in Nat \ {0} /\ now \in 0..MaxTime
  BY StreamsInvAt, BoundAssumption DEF Revoke, StreamsInv
<1>2. /\ q \in LooseStates /\ q.open /\ q.due = st[s].due /\ q.expires = st[s].expires
      /\ q.revoked = now /\ q.pending = st[s].pending /\ q.told = st[s].told
      /\ q.published = st[s].published
  BY <1>1 DEF LooseStates
<1>3. st' = [st EXCEPT ![s] = q] /\ UNCHANGED <<now, listeners>>
  BY <1>1 DEF Revoke
<1> HIDE DEF q
<1>4. StreamOK(q, now)
  <2>1. Timed(st[s], now) /\ ItemsOK(st[s].pending, st[s].told, st[s].published)
    BY <1>1 DEF StreamOK
  <2>2. Timed(q, now)
    BY <1>1, <1>2, <2>1 DEF Timed
  <2> QED
    BY <1>2, <2>1, <2>2 DEF StreamOK
<1>5. StreamsInv'
  BY <1>1, <1>2, <1>3, <1>4, OneStreamOK
<1>6. \A r \in Streams : st'[r].expires = st[r].expires
  BY <1>1, <1>2, <1>3
<1> QED
  BY <1>5, <1>6

(* The clock stops for a timer that is due. *)
LEMMA TickOK ==
  ASSUME StreamsInv, Tick
  PROVE  StreamsInv' /\ st' = st
<1>1. now \in 1..MaxTime /\ now < MaxTime /\ MaxTime \in Nat /\ now' = now + 1
      /\ UNCHANGED <<listeners, st>>
  BY BoundAssumption DEF StreamsInv, Tick
<1>2. now' \in 1..MaxTime
  BY <1>1
<1>3. ASSUME NEW s \in Streams
      PROVE  StreamOK(st[s], now')
  <2>1. st[s] \in LooseStates /\ StreamOK(st[s], now)
    BY StreamsInvAt
  <2>2. st[s].due \in Nat /\ st[s].revoked \in Nat
    BY <2>1, <1>1 DEF LooseStates
  <2>3. CASE st[s].open
    <3>1. Timed(st[s], now) /\ ItemsOK(st[s].pending, st[s].told, st[s].published)
      BY <2>1, <2>3 DEF StreamOK
    <3>2. st[s].due > now
      BY <2>3 DEF Tick
    <3>3. Timed(st[s], now')
      BY <1>1, <2>2, <3>1, <3>2, StreamAssumption DEF Timed
    <3> QED
      BY <2>3, <3>1, <3>3 DEF StreamOK
  <2>4. CASE ~st[s].open
    BY <2>1, <2>4 DEF StreamOK
  <2> QED
    BY <2>3, <2>4
<1>4. Subscribed' /\ st' \in [Streams -> LooseStates]
  BY <1>1 DEF StreamsInv, Subscribed
<1>5. \A s \in Streams : StreamOK(st'[s], now')
  BY <1>1, <1>3
<1> QED
  BY <1>1, <1>2, <1>4, <1>5 DEF StreamsInv, StreamOK, Timed

LEMMA RevalidateOK ==
  ASSUME StreamsInv, NEW s \in Streams, Revalidate(s)
  PROVE  /\ StreamsInv'
         /\ \/ \A r \in Streams : st'[r].expires = st[r].expires
            \/ st' = [st EXCEPT ![s] = Closed]
BY CleanupOK, RevalidateStandsOK DEF Revalidate, RevalidateGone, RevalidateThrows

(* Every step of the server.                                               *)
LEMMA ConsoleNextOK ==
  ASSUME ConsoleInv, [Next]_vars
  PROVE  ConsoleInv'
<1> USE DEF ConsoleInv
<1>1. CASE UNCHANGED vars
  BY <1>1 DEF vars, StreamsInv, Subscribed, StreamOK, Timed, SessionsBounded
<1> DEFINE Kept == \A r \in Streams : st'[r].expires = st[r].expires
<1>2. Kept => SessionsBounded'
  BY DEF SessionsBounded
<1>3. ASSUME NEW s \in Streams, st' = [st EXCEPT ![s] = Closed]
      PROVE  SessionsBounded'
  <2>1. st \in [Streams -> LooseStates] /\ Closed.expires = 0
    BY DEF StreamsInv, Closed
  <2>2. 0 <= MaxTime + Interval + 1
    BY BoundAssumption, StreamAssumption
  <2> QED
    BY <1>3, <2>1, <2>2 DEF SessionsBounded
<1> HIDE DEF Kept
<1>4. CASE Tick
  BY <1>2, <1>4, TickOK DEF Kept
<1>5. ASSUME NEW p \in Principals, Publish(p)
      PROVE  ConsoleInv'
  BY <1>2, <1>5, PublishOK DEF Kept
<1>6. ASSUME NEW s \in Streams, NEW expires \in (now + 1)..(now + Interval + 1), Connect(s, expires)
      PROVE  ConsoleInv'
  <2>1. /\ now \in Nat /\ now <= MaxTime /\ MaxTime \in Nat /\ Interval \in Nat
        /\ st \in [Streams -> LooseStates]
    BY BoundAssumption, StreamAssumption, StreamsInvAt DEF StreamsInv
  <2>2. expires \in Nat /\ now < expires /\ expires <= MaxTime + Interval + 1
    BY <2>1
  <2>3. StreamsInv'
    BY <1>6, <2>2, ConnectOK
  <2>4. \A r \in Streams : st'[r].expires = IF r = s THEN expires ELSE st[r].expires
    BY <1>6, <2>1 DEF Connect, Closed
  <2>5. SessionsBounded'
    BY <2>2, <2>4 DEF SessionsBounded
  <2> QED
    BY <2>3, <2>5
<1>7. ASSUME NEW s \in Streams, Abort(s)
      PROVE  ConsoleInv'
  BY <1>3, <1>7, CleanupOK DEF Abort
<1>8. ASSUME NEW s \in Streams, Read(s)
      PROVE  ConsoleInv'
  BY <1>2, <1>8, ReadOK DEF Kept
<1>9. ASSUME NEW s \in Streams, Pull(s)
      PROVE  ConsoleInv'
  BY <1>2, <1>9, PullOK DEF Kept
<1>10. ASSUME NEW s \in Streams, Revalidate(s)
       PROVE  ConsoleInv'
  BY <1>2, <1>3, <1>10, RevalidateOK DEF Kept
<1>11. ASSUME NEW s \in Streams, Revoke(s)
       PROVE  ConsoleInv'
  BY <1>2, <1>11, RevokeOK DEF Kept
<1> QED
  BY <1>1, <1>4, <1>5, <1>6, <1>7, <1>8, <1>9, <1>10, <1>11 DEF Next

(* The invariant says what the runs check. *)
LEMMA ConsoleInvImplies ==
  ASSUME ConsoleInv
  PROVE  StreamsAreTended /\ SessionOutlivesStream /\ SlowReaderIsBounded /\ LossIsExact
<1> USE DEF ConsoleInv
<1>1. now \in Nat \ {0} /\ now <= MaxTime /\ MaxTime \in Nat /\ Interval \in Nat \ {0}
      /\ now \in 1..MaxTime
  BY BoundAssumption, StreamAssumption DEF StreamsInv
<1>2. ASSUME NEW s \in Streams
      PROVE  /\ st[s] \in LooseStates /\ StreamOK(st[s], now)
             /\ st[s].due \in Nat /\ st[s].expires \in Nat /\ st[s].revoked \in 0..MaxTime
             /\ st[s].pending \in Seq(Items) /\ st[s].told \in 0..MaxEvents
             /\ st[s].published \in 0..MaxEvents /\ st[s].room \in 0..2 /\ st[s].open \in BOOLEAN
             /\ st[s] = [open |-> st[s].open, pending |-> st[s].pending, room |-> st[s].room,
                         due |-> st[s].due, expires |-> st[s].expires, revoked |-> st[s].revoked,
                         published |-> st[s].published, told |-> st[s].told]
  BY StreamsInvAt DEF LooseStates
<1>3. ASSUME NEW s \in Streams, st[s].open
      PROVE  Timed(st[s], now) /\ ItemsOK(st[s].pending, st[s].told, st[s].published)
  BY <1>2, <1>3 DEF StreamOK
<1>4. ASSUME NEW s \in Streams, ~st[s].open
      PROVE  /\ st[s].due = 0 /\ st[s].pending = <<>>
  <2>1. st[s] = Closed
    BY <1>2, <1>4 DEF StreamOK
  <2> QED
    BY <2>1 DEF Closed
<1>5. StreamsAreTended
  <2>1. ASSUME NEW s \in Streams
        PROVE  st[s].open <=> st[s].due >= now
    <3>1. CASE st[s].open
      BY <1>1, <1>2, <1>3, <3>1 DEF Timed
    <3>2. CASE ~st[s].open
      BY <1>1, <1>4, <3>2
    <3> QED
      BY <3>1, <3>2
  <2> QED
    BY <2>1 DEF StreamsAreTended, StreamsInv, Subscribed
<1>6. SessionOutlivesStream
  <2>1. ASSUME NEW s \in Streams, st[s].open
        PROVE  /\ now <= st[s].expires
               /\ st[s].revoked # 0 => now - st[s].revoked <= Interval
    <3>1. /\ st[s].due \in Nat /\ st[s].expires \in Nat
          /\ st[s].revoked \in Nat /\ Timed(st[s], now)
      <4>1. st[s].revoked \in 0..MaxTime
        BY <1>2
      <4>2. st[s].revoked \in Nat
        BY <1>1, <4>1
      <4>3. st[s].due \in Nat /\ st[s].expires \in Nat
        BY <1>2
      <4>4. Timed(st[s], now)
        BY <1>3, <2>1
      <4> QED
        BY <4>2, <4>3, <4>4
    <3> QED
      BY <1>1, <3>1 DEF Timed
  <2> QED
    BY <2>1 DEF SessionOutlivesStream
<1>7. TypeOK
  <2>1. ASSUME NEW s \in Streams
        PROVE  st[s] \in StreamStates
    <3>1. st[s].due \in Nat /\ st[s].expires \in Nat
      <4>1. st[s] \in LooseStates
        BY <1>2
      <4> QED
        BY <4>1 DEF LooseStates
    <3>2. st[s].due <= MaxTime + Interval
      <4>1. CASE st[s].open
        <5>1. st[s].due <= now + Interval
          BY <1>3, <4>1 DEF Timed
        <5> QED
          BY <1>1, <3>1, <5>1
      <4>2. CASE ~st[s].open
        BY <1>1, <1>4, <4>2
      <4> QED
        BY <4>1, <4>2
    <3>3. st[s].due \in 0..(MaxTime + Interval)
      BY <1>1, <3>1, <3>2
    <3>4. st[s].expires \in 0..(MaxTime + Interval + 1)
      BY <1>1, <3>1 DEF SessionsBounded
    <3>5. /\ st[s].pending \in Seq(Items) /\ st[s].told \in 0..MaxEvents
          /\ st[s].published \in 0..MaxEvents /\ st[s].room \in 0..2 /\ st[s].open \in BOOLEAN
          /\ st[s].revoked \in 0..MaxTime
      BY <1>2
    <3> DEFINE rec == [open |-> st[s].open, pending |-> st[s].pending, room |-> st[s].room,
                       due |-> st[s].due, expires |-> st[s].expires, revoked |-> st[s].revoked,
                       published |-> st[s].published, told |-> st[s].told]
    <3>6. rec \in StreamStates
      BY <3>3, <3>4, <3>5 DEF StreamStates
    <3>7. st[s] = rec
      BY <1>2
    <3> HIDE DEF rec
    <3> QED
      BY <3>6, <3>7
  <2>2. ASSUME NEW s \in Streams
        PROVE  Len(st[s].pending) <= MaxPending
    <3>1. CASE st[s].open
      BY <1>3, <3>1 DEF ItemsOK
    <3>2. CASE ~st[s].open
      BY <1>4, <3>2, StreamAssumption
    <3> QED
      BY <3>1, <3>2
  <2>3. st \in [Streams -> StreamStates] /\ listeners \in [Principals -> SUBSET Streams]
    BY <2>1 DEF StreamsInv, Subscribed
  <2> QED
    BY <1>1, <2>2, <2>3 DEF TypeOK
<1>8. SlowReaderIsBounded
  <2>1. ASSUME NEW s \in Streams
        PROVE  Cardinality({i \in DOMAIN st[s].pending : st[s].pending[i] = KeepAlive}) <= 1
    <3> DEFINE K == {i \in DOMAIN st[s].pending : st[s].pending[i] = KeepAlive}
    <3>1. OneKeepAlive(st[s].pending)
      <4>1. CASE st[s].open
        BY <1>3, <4>1 DEF ItemsOK
      <4>2. CASE ~st[s].open
        BY <1>4, <4>2 DEF OneKeepAlive
      <4> QED
        BY <4>1, <4>2
    <3>2. \A i, j \in K : i = j
      BY <3>1 DEF OneKeepAlive
    <3> HIDE DEF K
    <3>3. K = {} \/ \E i : K = {i}
      BY <3>2
    <3>4. CASE K = {}
      <4>1. Cardinality(K) = 0
        BY <3>4, FS_EmptySet
      <4> QED
        BY <4>1 DEF K
    <3>5. CASE \E i : K = {i}
      <4>1. PICK i : K = {i}
        BY <3>5
      <4>2. Cardinality({i}) = 1
        BY FS_Singleton
      <4>3. Cardinality(K) = 1
        BY <4>1, <4>2
      <4> QED
        BY <4>3 DEF K
    <3> QED
      BY <3>3, <3>4, <3>5
  <2> QED
    BY <1>7, <2>1 DEF SlowReaderIsBounded
<1>9. LossIsExact
  BY <1>3 DEF LossIsExact, ItemsOK, Exact
<1> QED
  BY <1>5, <1>6, <1>8, <1>9

-----------------------------------------------------------------------------

(* The invariant of the event streams holds in every state of the server,  *)
(* for all accounts, tabs, limits and intervals.                           *)
THEOREM ConsoleInductive == Spec => []ConsoleInv
<1>1. Init => ConsoleInv
  BY InitOK
<1>2. ConsoleInv /\ [Next]_vars => ConsoleInv'
  BY ConsoleNextOK
<1> QED
  BY <1>1, <1>2, PTL DEF Spec

(* publishToPrincipal(), subscribe() and cleanup(): a stream is subscribed *)
(* and has its next revalidation ahead exactly while it is open.           *)
THEOREM StreamsTended == Spec => []StreamsAreTended
<1>1. ConsoleInv => StreamsAreTended
  BY ConsoleInvImplies
<1> QED
  BY <1>1, ConsoleInductive, PTL

(* scheduleRevalidation() and revalidate(): no stream outlives its session *)
(* by more than one interval.                                              *)
THEOREM StreamsEndWithSessions == Spec => []SessionOutlivesStream
<1>1. ConsoleInv => SessionOutlivesStream
  BY ConsoleInvImplies
<1> QED
  BY <1>1, ConsoleInductive, PTL

(* queueEvent() and queueKeepAlive(): what waits for a slow reader is      *)
(* bounded, and has the types of the stream's variables.                   *)
THEOREM PendingIsBounded == Spec => []SlowReaderIsBounded
<1>1. ConsoleInv => SlowReaderIsBounded
  BY ConsoleInvImplies
<1> QED
  BY <1>1, ConsoleInductive, PTL

(* queueEvent() and pump(): told and waiting items account for every       *)
(* published event, exactly.                                               *)
THEOREM NoLossIsHidden == Spec => []LossIsExact
<1>1. ConsoleInv => LossIsExact
  BY ConsoleInvImplies
<1> QED
  BY <1>1, ConsoleInductive, PTL

-----------------------------------------------------------------------------
(* The inductive invariant of the page.                                    *)

OpenStates == {"requested", "served", "opened", "refused"}

Sources == [state : OpenStates \union {"none", "closed"}, active : BOOLEAN, heard : 0..MaxEvents]

Lines == [key : Nat, source : Streams, kind : {"event", "gap"},
          from : 1..MaxEvents, to : 1..MaxEvents]

Pages == [mounted : BOOLEAN, connection : {"connecting", "live", "disconnected"},
          lines : Seq(Lines), nextKey : Nat, connectionAttempt : 0..Cardinality(Streams)]

WireItems == [kind : {"event", "gap", "comment"}, from : 1..(MaxEvents + 1), to : 0..MaxEvents]

(* The page wants a source: it shows no broken connection. *)
Wanted == page.mounted /\ page.connection # "disconnected"

(* Only the source of the last attempt may be active, and it is while the  *)
(* page wants one; later attempts were not made.                           *)
SourcesInv ==
  /\ page \in Pages
  /\ conn \in [Streams -> Sources]
  /\ \A s \in Streams : conn[s].active <=> conn[s].state \in OpenStates
  /\ \A s \in Streams : conn[s].active => s = page.connectionAttempt /\ Wanted
  /\ Wanted => page.connectionAttempt \in Streams /\ conn[page.connectionAttempt].active
  /\ \A s \in Streams : conn[s].active => (page.connection = "live" <=> conn[s].state = "opened")
  /\ \A s \in Streams : page.connectionAttempt < s => conn[s].state = "none"

(* The spans of an item: of an event itself, of a gap all it stands for,   *)
(* of a comment nothing.                                                   *)
Spanned(item) ==
  \/ item.kind = "event" /\ item.from \in 1..MaxEvents /\ item.to = item.from
  \/ item.kind = "gap" /\ item.from \in 1..MaxEvents /\ item.from <= item.to
  \/ item.kind = "comment" /\ item.to + 1 = item.from

(* Where a list of items ends that starts behind event number h. *)
Reached(items, h) == IF items = <<>> THEN h ELSE items[Len(items)].to

(* Items without a hole between them, nor between them and h. *)
Chain(items, h) ==
  \A i \in 1..Len(items) :
    /\ Spanned(items[i])
    /\ items[i].from = 1 + IF i = 1 THEN h ELSE items[i - 1].to

(* What is under way continues what was heard and ends where the stream's  *)
(* count of told events is.                                                *)
WireOK(s) ==
  /\ conn[s].state \in {"none", "requested"} =>
       ~st[s].open /\ conn[s].heard = 0 /\ wire[s] = <<>>
  /\ Carries(s) => /\ Chain(wire[s], conn[s].heard)
                   /\ st[s].open => Reached(wire[s], conn[s].heard) = st[s].told

WireInv ==
  /\ wire \in [Streams -> Seq(WireItems)]
  /\ \A s \in Streams : WireOK(s)

(* The last line of the active source is followed by nothing that should   *)
(* have been shown.                                                        *)
HeardOf(s) ==
  LET lines == page.lines
      n == Len(lines)
  IN /\ (\E i \in 1..n : lines[i].source = s) =>
          /\ lines[n].source = s
          /\ lines[n].to <= conn[s].heard
          /\ NothingBetween(lines[n].to + 1, conn[s].heard)
     /\ page.nextKey = 0 => NothingBetween(1, conn[s].heard)

LinesInv ==
  LET lines == page.lines
      n == Len(lines)
  IN /\ n <= MaxLines /\ n <= page.nextKey
     /\ \A i \in 1..n : /\ lines[i].key = page.nextKey - n + i
                        /\ lines[i].source <= page.connectionAttempt
     /\ \A i \in 1..(n - 1) :
          \/ /\ lines[i].source = lines[i + 1].source
             /\ lines[i].to < lines[i + 1].from
             /\ NothingBetween(lines[i].to + 1, lines[i + 1].from - 1)
          \/ ~conn[lines[i].source].active
     /\ \A s \in Streams : conn[s].active => HeardOf(s)

PageInv == StreamsInv /\ SourcesInv /\ WireInv /\ LinesInv

-----------------------------------------------------------------------------
(* What a stream gives to the wire continues what it told before.          *)

(* A gateway's event that is not shown has a number a backend made up.     *)
LEMMA ReportedIsShown ==
  ASSUME NEW n \in 1..MaxEvents, ~Projected(Emitted[n])
  PROVE  MadeUp(n)
<1> DEFINE e == Emitted[n]
<1>1. Reported(e)
  BY EmittedAssumption
<1> SUFFICES ASSUME \A number \in e.metrics : ~(number < 0)
             PROVE  Projected(e)
  BY DEF MadeUp
<1> HIDE DEF e
<1>2. \A snapshot \in e.capacity : IsCapacity(snapshot)
  BY <1>1 DEF Reported, Snapshots, IsCapacity
<1>3. IsLifecycleBase(e)
  BY <1>1 DEF Reported, IsLifecycleBase
<1>4. CASE e.type = "terminal"
  <2>1. e.metrics \subseteq Nat
    BY <1>1, <1>4 DEF Reported
  <2>2. ProjectTerminal(e)
    BY <1>1, <1>2, <1>4, <2>1 DEF Reported, ProjectTerminal, IsMetadata
  <2> QED
    BY <1>3, <1>4, <2>2 DEF Projected
<1>5. CASE e.type \in {"request_started", "queued", "admission_decided", "first_output"}
  BY <1>1, <1>2, <1>3, <1>5 DEF Reported, Projected, HasCapacity
<1> QED
  BY <1>1, <1>4, <1>5 DEF Reported

LEMMA PrefixStep ==
  ASSUME NEW s \in Seq(Items), NEW i \in 1..Len(s)
  PROVE  /\ SubSeq(s, 1, i) \in Seq(Items) /\ SubSeq(s, 1, i - 1) \in Seq(Items)
         /\ Weights(SubSeq(s, 1, i)) = Weights(SubSeq(s, 1, i - 1)) + Weight(s[i])
<1>1. Len(s) \in Nat /\ i \in 0..Len(s) /\ i - 1 \in 0..Len(s) /\ i - 1 \in 0..i
  BY LenProperties
<1> DEFINE u == SubSeq(s, 1, i)
           t == SubSeq(s, 1, i - 1)
<1>2. u \in Seq(Items) /\ Len(u) = i /\ \A j \in 1..i : u[j] = s[j]
  BY <1>1, Cut
<1>3. t \in Seq(Items) /\ Len(t) = i - 1 /\ \A j \in 1..(i - 1) : t[j] = s[j]
  BY <1>1, Cut
<1> HIDE DEF u, t
<1>4. u # <<>>
  BY <1>1, <1>2, EmptySeq
<1>5. /\ Front(u) \in Seq(Items) /\ Len(Front(u)) = Len(u) - 1
      /\ \A j \in 1..(Len(u) - 1) : Front(u)[j] = u[j]
      /\ Weights(u) = Weights(Front(u)) + Weight(Last(u))
  BY <1>2, <1>4, WeightsLast
<1>6. Last(u) = s[i]
  BY <1>1, <1>2 DEF Last
<1>7. Front(u) = t
  <2>1. Len(Front(u)) = Len(t) /\ \A j \in 1..Len(t) : Front(u)[j] = t[j]
    BY <1>1, <1>2, <1>3, <1>5
  <2> QED
    BY <1>3, <1>5, <2>1, SeqEqual
<1> QED
  BY <1>2, <1>3, <1>5, <1>6, <1>7 DEF u, t

(* A beginning of an exact list is exact.                                  *)
LEMMA PrefixExact ==
  ASSUME NEW items \in Seq(Items), NEW told \in Nat, NEW published \in Nat,
         Exact(items, told, published), NEW k \in 0..Len(items)
  PROVE  LET list == SubSeq(items, 1, k)
         IN /\ list \in Seq(Items) /\ Exact(list, told, told + Weights(list))
            /\ told + Weights(list) <= published
<1> DEFINE list == SubSeq(items, 1, k)
           rest == SubSeq(items, k + 1, Len(items))
<1>1. Len(items) \in Nat /\ DOMAIN items = 1..Len(items) /\ k \in 0..Len(items)
  BY LenProperties
<1>2. list \in Seq(Items) /\ Len(list) = k /\ \A i \in 1..k : list[i] = items[i]
  BY <1>1, Cut
<1>3. rest \in Seq(Items) /\ Weights(items) = Weights(list) + Weights(rest)
  BY <1>1, Cut, WeightsCut
<1>4. Weights(list) \in Nat /\ Weights(rest) \in Nat
  BY <1>2, <1>3, WeightsType
<1>5. told + Weights(items) = published
  BY DEF Exact
<1> HIDE DEF list, rest
<1>6. ASSUME NEW i \in 1..k, list[i].kind = "event"
      PROVE  list[i].n = told + Weights(SubSeq(list, 1, i - 1)) + 1
  <2>1. i \in DOMAIN items /\ list[i] = items[i] /\ i - 1 \in 0..k /\ i - 1 \in 0..Len(items)
    BY <1>1, <1>2
  <2>2. items[i].n = told + Weights(SubSeq(items, 1, i - 1)) + 1
    BY <1>6, <2>1 DEF Exact
  <2>3. SubSeq(list, 1, i - 1) = SubSeq(items, 1, i - 1)
    <3> DEFINE a == SubSeq(list, 1, i - 1)
               b == SubSeq(items, 1, i - 1)
    <3>1. a \in Seq(Items) /\ Len(a) = i - 1 /\ \A j \in 1..(i - 1) : a[j] = list[j]
      BY <1>2, <2>1, Cut
    <3>2. b \in Seq(Items) /\ Len(b) = i - 1 /\ \A j \in 1..(i - 1) : b[j] = items[j]
      BY <2>1, Cut
    <3> HIDE DEF a, b
    <3>3. \A j \in 1..(i - 1) : a[j] = b[j]
      BY <1>1, <1>2, <2>1, <3>1, <3>2
    <3>4. a = b
      BY <3>1, <3>2, <3>3, SeqEqual
    <3> QED
      BY <3>4 DEF a, b
  <2> QED
    BY <2>1, <2>2, <2>3
<1>7. DOMAIN list = 1..k
  BY <1>2, LenProperties
<1>8. Exact(list, told, told + Weights(list))
  BY <1>6, <1>7 DEF Exact
<1>9. told + Weights(list) <= published
  BY <1>3, <1>4, <1>5
<1> QED
  BY <1>2, <1>8, <1>9 DEF list

LEMMA EmptyPrefix ==
  ASSUME NEW s \in Seq(Items)
  PROVE  SubSeq(s, 1, 0) = <<>> /\ SubSeq(s, 0 + 1, Len(s)) = s
<1>1. 0 \in 0..Len(s)
  BY LenProperties
<1>2. SubSeq(s, 1, 0) \in Seq(Items) /\ Len(SubSeq(s, 1, 0)) = 0
  BY <1>1, Cut
<1>3. SubSeq(s, 1, 0) = <<>>
  BY <1>2, EmptySeq
<1>4. SubSeq(s, 0 + 1, Len(s)) = SubSeq(s, 1, Len(s))
  OBVIOUS
<1> QED
  BY <1>3, <1>4, WholeList

(* The spans of an exact list that follows the told events of a stream.    *)
LEMMA NumberedChain ==
  ASSUME NEW s \in Streams, NEW list \in Seq(Items), st[s].told \in Nat,
         Exact(list, st[s].told, st[s].told + Weights(list)),
         st[s].told + Weights(list) <= MaxEvents
  PROVE  /\ Numbered(s, list) \in Seq(WireItems)
         /\ Chain(Numbered(s, list), st[s].told)
         /\ Reached(Numbered(s, list), st[s].told) = st[s].told + Weights(list)
<1> DEFINE told == st[s].told
           m == Numbered(s, list)
           before(i) == told + Weights(SubSeq(list, 1, i - 1))
           span(i) == IF list[i].kind = "event"
                        THEN [kind |-> "event", from |-> list[i].n, to |-> list[i].n]
                        ELSE [kind |-> list[i].kind, from |-> before(i) + 1,
                              to |-> before(i) + Weight(list[i])]
<1>1. Len(list) \in Nat /\ DOMAIN list = 1..Len(list) /\ MaxEvents \in Nat \ {0}
  BY LenProperties, BoundAssumption
<1>2. m = [i \in 1..Len(list) |-> span(i)]
  BY <1>1 DEF Numbered
<1>3. ASSUME NEW i \in 1..Len(list)
      PROVE  /\ before(i) \in Nat /\ Weight(list[i]) \in Nat
             /\ before(i + 1) = before(i) + Weight(list[i])
             /\ before(i + 1) <= MaxEvents
  <2>1. /\ SubSeq(list, 1, i) \in Seq(Items) /\ SubSeq(list, 1, i - 1) \in Seq(Items)
        /\ Weights(SubSeq(list, 1, i)) = Weights(SubSeq(list, 1, i - 1)) + Weight(list[i])
    BY PrefixStep
  <2>2. Weights(SubSeq(list, 1, i)) \in Nat /\ Weights(SubSeq(list, 1, i - 1)) \in Nat
    BY <2>1, WeightsType
  <2>3. Weight(list[i]) \in Nat
    BY <1>1, WeightType, ElementOfSeq
  <2>4. i \in 0..Len(list) /\ (i + 1) - 1 = i
    BY <1>1
  <2> DEFINE rest == SubSeq(list, i + 1, Len(list))
  <2>5. rest \in Seq(Items) /\ Weights(list) = Weights(SubSeq(list, 1, i)) + Weights(rest)
    BY <2>4, Cut, WeightsCut
  <2>6. Weights(rest) \in Nat /\ Weights(list) \in Nat
    BY <2>5, WeightsType
  <2>7. before(i + 1) = told + Weights(SubSeq(list, 1, i))
    BY <2>4
  <2> HIDE DEF rest
  <2>8. told + Weights(SubSeq(list, 1, i)) <= MaxEvents
    BY <1>1, <2>2, <2>5, <2>6
  <2> QED
    BY <2>1, <2>2, <2>3, <2>7, <2>8
<1>4. ASSUME NEW i \in 1..Len(list)
      PROVE  /\ span(i) \in WireItems /\ Spanned(span(i))
             /\ span(i).from = before(i) + 1 /\ span(i).to = before(i + 1)
  <2> DEFINE b == before(i)
             c == before(i + 1)
  <2>1. b \in Nat /\ Weight(list[i]) \in Nat /\ c = b + Weight(list[i]) /\ c <= MaxEvents
    BY <1>3
  <2>2. list[i] \in Items
    BY <1>1, ElementOfSeq
  <2>3. list[i].kind = "event" => list[i].n = b + 1
    BY <1>1 DEF Exact
  <2>4. span(i) = IF list[i].kind = "event"
                    THEN [kind |-> "event", from |-> list[i].n, to |-> list[i].n]
                    ELSE [kind |-> list[i].kind, from |-> b + 1, to |-> b + Weight(list[i])]
    OBVIOUS
  <2> HIDE DEF span, before, b, c
  <2>5. CASE list[i].kind = "event"
    <3>1. c = b + 1 /\ list[i].n = b + 1 /\ b + 1 \in 1..MaxEvents
      BY <1>1, <2>1, <2>3, <2>5 DEF Weight
    <3>2. span(i) = [kind |-> "event", from |-> b + 1, to |-> b + 1]
      BY <2>4, <2>5, <3>1
    <3>3. span(i) \in WireItems /\ Spanned(span(i))
      BY <1>1, <3>1, <3>2 DEF WireItems, Spanned
    <3> QED
      BY <3>1, <3>2, <3>3 DEF b, c
  <2>6. CASE list[i].kind # "event"
    <3>1. span(i) = [kind |-> list[i].kind, from |-> b + 1, to |-> c]
      BY <2>1, <2>4, <2>6
    <3>2. b + 1 \in 1..(MaxEvents + 1) /\ c \in 0..MaxEvents
      BY <1>1, <2>1
    <3>3. \/ list[i].kind = "gap" /\ Weight(list[i]) >= 1
          \/ list[i].kind = "comment" /\ Weight(list[i]) = 0
      BY <1>1, <2>2, <2>6 DEF Items, KeepAlive, Event, Gap, Weight
    <3>4. span(i) \in WireItems
      BY <3>1, <3>2, <3>3 DEF WireItems
    <3>5. CASE list[i].kind = "gap"
      <4>1. b + 1 <= c /\ b + 1 \in 1..MaxEvents
        BY <1>1, <2>1, <3>3, <3>5
      <4> QED
        BY <3>1, <3>4, <3>5, <4>1 DEF Spanned, b, c
    <3>6. CASE list[i].kind = "comment"
      <4>1. c + 1 = b + 1
        BY <2>1, <3>3, <3>6
      <4> QED
        BY <3>1, <3>4, <3>6, <4>1 DEF Spanned, b, c
    <3> QED
      BY <3>3, <3>5, <3>6
  <2> QED
    BY <2>5, <2>6
<1>5. m \in Seq(WireItems) /\ Len(m) = Len(list)
  <2>1. \A i \in 1..Len(list) : m[i] \in WireItems
    BY <1>2, <1>4
  <2> HIDE DEF span
  <2>2. m = [i \in 1..Len(list) |-> m[i]]
    BY <1>2
  <2> HIDE DEF m
  <2>3. m \in [1..Len(list) -> WireItems]
    BY <2>1, <2>2
  <2> QED
    BY <1>1, <2>3, SeqDef, LenProperties
<1>6. \A i \in 1..Len(list) : m[i] = span(i)
  BY <1>2
<1>7. before(1) = told
  <2>1. SubSeq(list, 1, 0) = <<>>
    BY EmptyPrefix
  <2>2. Weights(SubSeq(list, 1, 0)) = 0
    BY <2>1, WeightsEmpty
  <2>3. told \in Nat /\ 1 - 1 = 0
    OBVIOUS
  <2> HIDE DEF told
  <2>4. before(1) = told + 0
    BY <2>2, <2>3
  <2> HIDE DEF before
  <2> QED
    BY <2>3, <2>4
<1> HIDE DEF m, span, before
<1>8. Chain(m, told)
  <2>1. ASSUME NEW i \in 1..Len(list)
        PROVE  m[i].from = 1 + IF i = 1 THEN told ELSE m[i - 1].to
    <3>1. m[i].from = before(i) + 1 /\ before(i) \in Nat
      BY <1>3, <1>4, <1>6
    <3>2. CASE i = 1
      BY <1>7, <3>1, <3>2
    <3>3. CASE i # 1
      <4>1. i - 1 \in 1..Len(list) /\ (i - 1) + 1 = i
        BY <1>1, <3>3
      <4>2. m[i - 1].to = before(i)
        BY <1>4, <1>6, <4>1
      <4> QED
        BY <3>1, <3>3, <4>2
    <3> QED
      BY <3>2, <3>3
  <2>2. \A i \in 1..Len(list) : Spanned(m[i])
    BY <1>4, <1>6
  <2> QED
    BY <1>5, <2>1, <2>2 DEF Chain
<1>9. Reached(m, told) = told + Weights(list)
  <2>1. CASE list = <<>>
    <3>1. m = <<>>
      BY <1>5, <2>1, EmptySeq
    <3>2. Weights(list) = 0
      BY <2>1, WeightsEmpty
    <3> QED
      BY <3>1, <3>2 DEF Reached
  <2>2. CASE list # <<>>
    <3>1. Len(list) \in 1..Len(list) /\ (Len(list) + 1) - 1 = Len(list)
      BY <1>1, <2>2, EmptySeq
    <3>2. m # <<>>
      BY <1>5, <3>1, EmptySeq
    <3>3. m[Len(list)].to = before(Len(list) + 1)
      BY <1>4, <1>6, <3>1
    <3>4. before(Len(list) + 1) = told + Weights(list)
      BY <3>1, WholeList DEF before
    <3> QED
      BY <1>5, <3>2, <3>3, <3>4 DEF Reached
  <2> QED
    BY <2>1, <2>2
<1> QED
  BY <1>5, <1>8, <1>9 DEF m

(* Two chains in a row.                                                    *)
LEMMA ChainConcat ==
  ASSUME NEW w \in Seq(WireItems), NEW m \in Seq(WireItems), NEW h,
         Chain(w, h), Chain(m, Reached(w, h))
  PROVE  /\ w \o m \in Seq(WireItems)
         /\ Chain(w \o m, h)
         /\ Reached(w \o m, h) = Reached(m, Reached(w, h))
<1> DEFINE u == w \o m
           a == Len(w)
           b == Len(m)
<1>1. a \in Nat /\ b \in Nat
  BY LenProperties
<1>2. /\ u \in Seq(WireItems) /\ Len(u) = a + b
      /\ \A i \in 1..(a + b) : u[i] = IF i <= a THEN w[i] ELSE m[i - a]
  BY ConcatProperties
<1>3. (w = <<>> <=> a = 0) /\ (m = <<>> <=> b = 0) /\ (u = <<>> <=> a + b = 0)
  <2>1. (w = <<>> <=> a = 0) /\ (m = <<>> <=> b = 0)
    BY EmptySeq
  <2>2. u = <<>> <=> Len(u) = 0
    BY <1>2, EmptySeq
  <2> QED
    BY <1>2, <2>1, <2>2
<1>4. Chain(w, h) /\ Chain(m, Reached(w, h))
  OBVIOUS
<1> HIDE DEF u
<1>5. ASSUME NEW i \in 1..(a + b)
      PROVE  Spanned(u[i]) /\ u[i].from = 1 + IF i = 1 THEN h ELSE u[i - 1].to
  <2>1. CASE i <= a
    <3>1. i \in 1..a /\ u[i] = w[i]
      BY <1>1, <1>2, <2>1
    <3>2. Spanned(w[i]) /\ w[i].from = 1 + IF i = 1 THEN h ELSE w[i - 1].to
      BY <1>4, <3>1 DEF Chain
    <3>3. i # 1 => u[i - 1] = w[i - 1]
      BY <1>1, <1>2, <2>1
    <3> QED
      BY <3>1, <3>2, <3>3
  <2>2. CASE ~(i <= a)
    <3> DEFINE j == i - a
    <3>1. j \in 1..b /\ u[i] = m[j] /\ (j = 1 <=> i = a + 1)
      BY <1>1, <1>2, <2>2
    <3>2. Spanned(m[j]) /\ m[j].from = 1 + IF j = 1 THEN Reached(w, h) ELSE m[j - 1].to
      BY <1>4, <3>1 DEF Chain
    <3>3. CASE j = 1
      <4>1. Reached(w, h) = IF a = 0 THEN h ELSE w[a].to
        BY <1>3 DEF Reached
      <4>2. i = a + 1 /\ (a = 0 <=> i = 1)
        BY <1>1, <3>1, <3>3
      <4>3. a # 0 => u[i - 1] = w[a]
        BY <1>1, <1>2, <4>2
      <4> QED
        BY <3>1, <3>2, <3>3, <4>1, <4>2, <4>3
    <3>4. CASE j # 1
      <4>1. i # 1 /\ i - 1 \in 1..(a + b) /\ ~(i - 1 <= a) /\ (i - 1) - a = j - 1
        BY <1>1, <2>2, <3>1, <3>4
      <4>2. u[i - 1] = m[j - 1]
        BY <1>2, <4>1
      <4> QED
        BY <3>1, <3>2, <3>4, <4>1, <4>2
    <3> QED
      BY <3>3, <3>4
  <2> QED
    BY <2>1, <2>2
<1>6. Chain(u, h)
  BY <1>2, <1>5 DEF Chain
<1>7. Reached(u, h) = Reached(m, Reached(w, h))
  <2>1. CASE b = 0
    <3>1. Len(u) = a /\ (u = <<>> <=> w = <<>>)
      BY <1>1, <1>2, <1>3, <2>1
    <3>2. a # 0 => u[a] = w[a]
      BY <1>1, <1>2, <2>1
    <3> QED
      BY <1>3, <2>1, <3>1, <3>2 DEF Reached
  <2>2. CASE b # 0
    <3>1. a + b \in 1..(a + b) /\ ~(a + b <= a) /\ (a + b) - a = b /\ a + b # 0
      BY <1>1, <2>2
    <3>2. u[a + b] = m[b]
      BY <1>2, <3>1
    <3> QED
      BY <1>2, <1>3, <2>2, <3>1, <3>2 DEF Reached
  <2> QED
    BY <2>1, <2>2
<1> QED
  BY <1>2, <1>6, <1>7 DEF u

(* A chain without its first item.                                         *)
LEMMA ChainTail ==
  ASSUME NEW w \in Seq(WireItems), w # <<>>, NEW h, Chain(w, h)
  PROVE  /\ Head(w) \in WireItems /\ Tail(w) \in Seq(WireItems)
         /\ Spanned(Head(w)) /\ Head(w).from = 1 + h
         /\ Chain(Tail(w), Head(w).to)
         /\ Reached(Tail(w), Head(w).to) = Reached(w, h)
<1> DEFINE t == Tail(w)
           n == Len(w)
<1>1. n \in Nat \ {0}
  BY EmptySeq
<1>2. Head(w) = w[1] /\ Head(w) \in WireItems
  <2>1. 1 \in 1..n
    BY <1>1
  <2> QED
    BY <1>1, <2>1, ElementOfSeq, HeadTailProperties
<1>3. t \in Seq(WireItems) /\ Len(t) = n - 1 /\ \A i \in 1..(n - 1) : t[i] = w[i + 1]
  BY <1>1, HeadTailProperties
<1>4. \A i \in 1..n : Spanned(w[i]) /\ w[i].from = 1 + IF i = 1 THEN h ELSE w[i - 1].to
  BY DEF Chain
<1> HIDE DEF t
<1>5. ASSUME NEW i \in 1..(n - 1)
      PROVE  Spanned(t[i]) /\ t[i].from = 1 + IF i = 1 THEN w[1].to ELSE t[i - 1].to
  <2>1. i + 1 \in 1..n /\ i + 1 # 1 /\ (i + 1) - 1 = i /\ t[i] = w[i + 1]
    BY <1>1, <1>3
  <2>2. Spanned(t[i]) /\ t[i].from = 1 + w[i].to
    BY <1>4, <2>1
  <2>3. i # 1 => t[i - 1] = w[i]
    <3>1. i # 1 => i - 1 \in 1..(n - 1) /\ (i - 1) + 1 = i
      BY <1>1
    <3> QED
      BY <1>3, <3>1
  <2> QED
    BY <2>2, <2>3
<1>6. Chain(t, w[1].to)
  BY <1>3, <1>5 DEF Chain
<1>7. Reached(t, w[1].to) = Reached(w, h)
  <2>1. CASE n = 1
    <3>1. t = <<>>
      BY <1>3, <2>1, EmptySeq
    <3> QED
      BY <2>1, <3>1 DEF Reached
  <2>2. CASE n # 1
    <3>1. n - 1 \in 1..(n - 1) /\ (n - 1) + 1 = n /\ Len(t) # 0
      BY <1>1, <1>3, <2>2
    <3>2. t # <<>> /\ t[n - 1] = w[n]
      BY <1>3, <3>1, EmptySeq
    <3> QED
      BY <1>3, <3>2 DEF Reached
  <2> QED
    BY <2>1, <2>2
<1>8. 1 \in 1..n
  BY <1>1
<1>9. Spanned(w[1]) /\ w[1].from = 1 + h
  BY <1>4, <1>8
<1> QED
  BY <1>2, <1>3, <1>6, <1>7, <1>9 DEF t

(* The pending list and the told events of a stream that had items queued  *)
(* and gave the first of them to the platform.                             *)
Gave(told, items, q) ==
  \E k \in 0..Len(items) : /\ q.pending = SubSeq(items, k + 1, Len(items))
                           /\ q.told = told + Weights(SubSeq(items, 1, k))

LEMMA GaveNothing ==
  ASSUME NEW q \in LooseStates
  PROVE  Gave(q.told, q.pending, q)
<1>1. q.pending \in Seq(Items) /\ q.told \in 0..MaxEvents /\ MaxEvents \in Nat
  BY BoundAssumption DEF LooseStates
<1>2. 0 \in 0..Len(q.pending)
  BY <1>1, LenProperties
<1>3. SubSeq(q.pending, 1, 0) = <<>> /\ SubSeq(q.pending, 0 + 1, Len(q.pending)) = q.pending
  BY <1>1, EmptyPrefix
<1>4. q.told = q.told + Weights(SubSeq(q.pending, 1, 0))
  <2>1. Weights(SubSeq(q.pending, 1, 0)) = 0
    BY <1>3, WeightsEmpty
  <2>2. q.told \in Nat
    BY <1>1
  <2> QED
    BY <2>1, <2>2
<1> QED
  BY <1>2, <1>3, <1>4 DEF Gave

LEMMA PumpedGave ==
  ASSUME NEW q \in LooseStates
  PROVE  Gave(q.told, q.pending, Pumped(q))
<1> DEFINE k == Min2(q.room, Len(q.pending))
<1>1. /\ q.pending \in Seq(Items) /\ Len(q.pending) \in Nat /\ q.room \in 0..2
      /\ q.told \in 0..MaxEvents /\ MaxEvents \in Nat
  BY LenProperties, BoundAssumption DEF LooseStates
<1>2. k \in 0..Len(q.pending)
  BY <1>1 DEF Min2
<1>3. Pumped(q).pending = SubSeq(q.pending, k + 1, Len(q.pending))
      /\ Pumped(q).told = q.told + Weights(SubSeq(q.pending, 1, k))
  BY DEF Pumped, LooseStates
<1> HIDE DEF k
<1> QED
  BY <1>2, <1>3 DEF Gave

(* What an open stream gives to the wire, from a list that is exact.       *)
LEMMA MovedChain ==
  ASSUME NEW s \in Streams, NEW items \in Seq(Items), st[s].told \in Nat,
         NEW published \in 0..MaxEvents, Exact(items, st[s].told, published),
         Gave(st[s].told, items, st'[s])
  PROVE  /\ Moved(s, items) \in Seq(WireItems)
         /\ Chain(Moved(s, items), st[s].told)
         /\ Reached(Moved(s, items), st[s].told) = st'[s].told
<1>1. PICK k \in 0..Len(items) : /\ st'[s].pending = SubSeq(items, k + 1, Len(items))
                                 /\ st'[s].told = st[s].told + Weights(SubSeq(items, 1, k))
  BY DEF Gave
<1>2. Len(items) \in Nat /\ k \in 0..Len(items) /\ MaxEvents \in Nat /\ published \in Nat
      /\ published <= MaxEvents
  BY LenProperties, BoundAssumption
<1>3. Len(st'[s].pending) = Len(items) - k
  BY <1>1, <1>2, Cut
<1>4. Len(items) - Len(st'[s].pending) = k
  BY <1>2, <1>3
<1> DEFINE list == SubSeq(items, 1, k)
<1>5. Moved(s, items) = Numbered(s, list)
  BY <1>4 DEF Moved
<1>6. /\ list \in Seq(Items) /\ Exact(list, st[s].told, st[s].told + Weights(list))
      /\ st[s].told + Weights(list) <= published
  BY <1>2, PrefixExact
<1> HIDE DEF list
<1>7. Weights(list) \in Nat
  BY <1>6, WeightsType
<1>8. st[s].told + Weights(list) <= MaxEvents
  BY <1>2, <1>6, <1>7
<1>9. /\ Numbered(s, list) \in Seq(WireItems)
      /\ Chain(Numbered(s, list), st[s].told)
      /\ Reached(Numbered(s, list), st[s].told) = st[s].told + Weights(list)
  BY <1>6, <1>8, NumberedChain
<1> QED
  BY <1>1, <1>5, <1>9 DEF list

(* A step of the server that gives what the streams told to the wire.      *)
LEMMA WireStepOK ==
  ASSUME WireInv, conn \in [Streams -> Sources],
         NEW queued, Wire(queued),
         \A s \in Streams : st'[s].open => st[s].open,
         ASSUME NEW s \in Streams, st[s].open, st'[s].open
         PROVE  /\ queued[s] \in Seq(Items) /\ st[s].told \in Nat
                /\ \E published \in 0..MaxEvents : Exact(queued[s], st[s].told, published)
                /\ Gave(st[s].told, queued[s], st'[s])
  PROVE  WireInv'
<1>1. page' = page /\ conn' = conn
  BY DEF Wire
<1>2. wire \in [Streams -> Seq(WireItems)]
  BY DEF WireInv
<1>3. /\ DOMAIN wire' = Streams /\ wire' = [s \in Streams |-> wire'[s]]
      /\ \A s \in Streams :
           wire'[s] = IF Carries(s) /\ st'[s].open THEN wire[s] \o Moved(s, queued[s]) ELSE wire[s]
  BY DEF Wire
<1>4. ASSUME NEW s \in Streams
      PROVE  wire'[s] \in Seq(WireItems) /\ WireOK(s)'
  <2>1. WireOK(s) /\ wire[s] \in Seq(WireItems) /\ (st'[s].open => st[s].open)
    BY <1>2 DEF WireInv
  <2>2. Carries(s)' <=> Carries(s)
    BY <1>1 DEF Carries
  <2>3. CASE Carries(s) /\ st'[s].open
    <3> DEFINE m == Moved(s, queued[s])
               h == conn[s].heard
    <3>1. st[s].open
      BY <2>1, <2>3
    <3>2. /\ queued[s] \in Seq(Items) /\ st[s].told \in Nat
          /\ Gave(st[s].told, queued[s], st'[s])
          /\ \E published \in 0..MaxEvents : Exact(queued[s], st[s].told, published)
      BY <2>3, <3>1
    <3>3. m \in Seq(WireItems) /\ Chain(m, st[s].told) /\ Reached(m, st[s].told) = st'[s].told
      BY <3>2, MovedChain
    <3>4. Chain(wire[s], h) /\ Reached(wire[s], h) = st[s].told
      BY <2>1, <2>3, <3>1 DEF WireOK
    <3> HIDE DEF m, h
    <3>5. /\ wire[s] \o m \in Seq(WireItems)
          /\ Chain(wire[s] \o m, h)
          /\ Reached(wire[s] \o m, h) = Reached(m, Reached(wire[s], h))
      BY <2>1, <3>3, <3>4, ChainConcat
    <3>6. wire'[s] = wire[s] \o m
      BY <1>3, <2>3 DEF m
    <3>7. conn[s].state \notin {"none", "requested"}
      BY <2>3 DEF Carries
    <3> QED
      BY <1>1, <2>3, <3>3, <3>4, <3>5, <3>6, <3>7 DEF WireOK, h
  <2>4. CASE ~(Carries(s) /\ st'[s].open)
    <3>1. wire'[s] = wire[s]
      BY <1>3, <2>4
    <3> QED
      BY <1>1, <2>1, <2>2, <2>4, <3>1 DEF WireOK
  <2> QED
    BY <2>3, <2>4
<1>5. wire' \in [Streams -> Seq(WireItems)]
  BY <1>3, <1>4
<1> QED
  BY <1>4, <1>5 DEF WireInv

-----------------------------------------------------------------------------
(* The server's steps, behind a page.                                      *)

LEMMA PageInvAt ==
  ASSUME PageInv, NEW s \in Streams
  PROVE  /\ conn[s] \in Sources /\ page \in Pages
         /\ wire[s] \in Seq(WireItems) /\ WireOK(s)
         /\ conn \in [Streams -> Sources] /\ wire \in [Streams -> Seq(WireItems)]
BY DEF PageInv, SourcesInv, WireInv

(* Neither the page nor its sources move. *)
LEMMA PageStays ==
  ASSUME PageInv, UNCHANGED <<page, conn>>
  PROVE  SourcesInv' /\ LinesInv'
BY DEF PageInv, SourcesInv, Wanted, LinesInv, HeardOf

LEMMA WireStays ==
  ASSUME PageInv, UNCHANGED <<page, conn, wire>>, StreamsInv',
         \A s \in Streams : st'[s].open => st[s].open /\ st'[s].told = st[s].told
  PROVE  PageInv'
<1>1. SourcesInv' /\ LinesInv'
  BY PageStays
<1>2. ASSUME NEW s \in Streams
      PROVE  WireOK(s)'
  <2>1. WireOK(s)
    BY PageInvAt
  <2> QED
    BY <2>1 DEF WireOK, Carries
<1>3. WireInv'
  BY <1>2 DEF PageInv, WireInv
<1> QED
  BY <1>1, <1>3 DEF PageInv

LEMMA WireMoves ==
  ASSUME PageInv, NEW queued, Wire(queued), StreamsInv',
         \A s \in Streams : st'[s].open => st[s].open,
         ASSUME NEW s \in Streams, st[s].open, st'[s].open
         PROVE  /\ queued[s] \in Seq(Items)
                /\ \E published \in 0..MaxEvents : Exact(queued[s], st[s].told, published)
                /\ Gave(st[s].told, queued[s], st'[s])
  PROVE  PageInv'
<1>1. SourcesInv' /\ LinesInv'
  BY PageStays DEF Wire
<1>2. \A s \in Streams : st[s].told \in Nat
  <2>1. MaxEvents \in Nat
    BY BoundAssumption
  <2> QED
    BY <2>1 DEF PageInv, StreamsInv, LooseStates
<1>3. WireInv /\ conn \in [Streams -> Sources]
  BY DEF PageInv, SourcesInv
<1>4. WireInv'
  BY <1>2, <1>3, WireStepOK
<1> QED
  BY <1>1, <1>4 DEF PageInv

LEMMA ServerPublishOK ==
  ASSUME PageInv, NEW p \in Principals, ServerPublish(p)
  PROVE  PageInv'
<1> DEFINE audience == {s \in Streams : st[s].open /\ Owner[s] = p}
           items(s) == QueuedEvent(st[s].pending, st[s].published + 1)
           Counted(q) == [q EXCEPT !.published = @ + 1]
           New(s) == [Counted(st[s]) EXCEPT !.pending = QueuedEvent(@, st[s].published + 1)]
           queued == [s \in Streams |-> IF s \in listeners[p] THEN items(s) ELSE st[s].pending]
<1>1. Publish(p) /\ Wire(queued)
  BY DEF ServerPublish
<1>2. StreamsInv /\ StreamsInv'
  BY <1>1, PublishOK DEF PageInv
<1>3. /\ \A s \in Streams : st[s].open <=> s \in listeners[Owner[s]]
      /\ \A s \in listeners[p] : Owner[s] = p
  BY <1>2 DEF StreamsInv, Subscribed
<1>4. \A s \in Streams : st'[s] = IF s \notin audience THEN st[s]
                                  ELSE IF s \notin listeners[p] THEN Counted(st[s])
                                  ELSE Pumped(New(s))
  BY <1>1 DEF Publish
<1>5. \A s \in audience : s \in listeners[p] /\ st[s].published < MaxEvents
  BY <1>1, <1>3 DEF Publish
<1>6. ASSUME NEW s \in Streams
      PROVE  st'[s].open <=> st[s].open
  <2>1. st'[s].open <=> s \in listeners'[Owner[s]]
    BY <1>2 DEF StreamsInv, Subscribed
  <2> QED
    BY <1>1, <1>3, <2>1 DEF Publish
<1>7. ASSUME NEW s \in Streams, st[s].open
      PROVE  /\ queued[s] \in Seq(Items)
             /\ \E published \in 0..MaxEvents : Exact(queued[s], st[s].told, published)
             /\ Gave(st[s].told, queued[s], st'[s])
  <2>1. /\ st[s] \in LooseStates
        /\ ItemsOK(st[s].pending, st[s].told, st[s].published)
    BY <1>2, <1>7, StreamsInvAt
  <2>2. /\ st[s].pending \in Seq(Items) /\ st[s].told \in 0..MaxEvents
        /\ st[s].published \in 0..MaxEvents /\ MaxEvents \in Nat
    BY <2>1, BoundAssumption DEF LooseStates
  <2>3. CASE s \in audience
    <3> DEFINE n == st[s].published + 1
               q == New(s)
    <3>1. s \in listeners[p] /\ st[s].published < MaxEvents
      BY <1>5, <2>3
    <3>2. queued[s] = items(s) /\ st'[s] = Pumped(q)
      BY <1>4, <2>3, <3>1
    <3>3. items(s) \in Seq(Items) /\ ItemsOK(items(s), st[s].told, n)
      BY <2>1, <2>2, <3>1, QueuedEventOK
    <3>4. n \in 0..MaxEvents
      BY <2>2, <3>1
    <3>5. q = [st[s] EXCEPT !.published = n, !.pending = items(s)]
      BY <2>1 DEF LooseStates
    <3> HIDE DEF items, n, q, queued, audience
    <3>6. q \in LooseStates /\ q.told = st[s].told /\ q.pending = items(s)
      BY <2>1, <3>3, <3>4, <3>5 DEF LooseStates
    <3>7. Gave(q.told, q.pending, Pumped(q))
      BY <3>6, PumpedGave
    <3> QED
      BY <3>2, <3>3, <3>4, <3>6, <3>7 DEF ItemsOK
  <2>4. CASE s \notin audience
    <3>1. s \notin listeners[p]
      <4>1. Owner[s] # p
        BY <1>7, <2>4
      <4> QED
        BY <1>3, <4>1
    <3>2. queued[s] = st[s].pending /\ st'[s] = st[s]
      BY <1>4, <2>4, <3>1
    <3> HIDE DEF queued, audience
    <3> QED
      BY <2>1, <2>2, <3>2, GaveNothing DEF ItemsOK
  <2> QED
    BY <2>3, <2>4
<1> HIDE DEF queued, audience, New, Counted, items
<1> QED
  BY <1>1, <1>2, <1>6, <1>7, WireMoves

LEMMA ServerPullOK ==
  ASSUME PageInv, NEW s \in Streams, ServerPull(s)
  PROVE  PageInv'
<1>1. Pull(s) /\ Wire(Pending) /\ StreamsInv
  BY DEF ServerPull, PageInv
<1>2. StreamsInv'
  BY <1>1, PullOK
<1>3. st \in [Streams -> LooseStates]
  BY <1>1 DEF StreamsInv
<1>4. \A r \in Streams : st'[r] = IF r = s THEN Pumped(st[s]) ELSE st[r]
  BY <1>1, <1>3 DEF Pull
<1>5. Pumped(st[s]).open <=> st[s].open
  BY <1>3 DEF Pumped, LooseStates
<1>6. \A r \in Streams : st'[r].open => st[r].open
  BY <1>4, <1>5
<1>7. ASSUME NEW r \in Streams, st[r].open
      PROVE  /\ Pending[r] \in Seq(Items)
             /\ \E published \in 0..MaxEvents : Exact(Pending[r], st[r].told, published)
             /\ Gave(st[r].told, Pending[r], st'[r])
  <2>1. /\ st[r] \in LooseStates
        /\ ItemsOK(st[r].pending, st[r].told, st[r].published)
    BY <1>1, <1>7, StreamsInvAt
  <2>2. Pending[r] = st[r].pending /\ st[r].pending \in Seq(Items) /\ st[r].published \in 0..MaxEvents
    BY <2>1 DEF Pending, LooseStates
  <2>3. Gave(st[r].told, st[r].pending, st'[r])
    BY <1>4, <2>1, PumpedGave, GaveNothing
  <2> QED
    BY <2>1, <2>2, <2>3 DEF ItemsOK
<1> QED
  BY <1>1, <1>2, <1>6, <1>7, WireMoves

LEMMA ServerRevalidateOK ==
  ASSUME PageInv, NEW s \in Streams, ServerRevalidate(s)
  PROVE  PageInv'
<1> DEFINE items == QueuedKeepAlive(st[s].pending)
           queued == [Pending EXCEPT ![s] = QueuedKeepAlive(@)]
           q == [st[s] EXCEPT !.pending = items, !.due = NextCheck(st[s].expires)]
           new == IF items = st[s].pending THEN q ELSE Pumped(q)
<1>1. Revalidate(s) /\ Wire(queued) /\ StreamsInv
  BY DEF ServerRevalidate, PageInv
<1>2. StreamsInv'
  BY <1>1, RevalidateOK
<1>3. st \in [Streams -> LooseStates] /\ now \in Nat \ {0}
  BY <1>1, StreamsInvAt DEF StreamsInv
<1>4. \A r \in Streams : queued[r] = IF r = s THEN items ELSE st[r].pending
  BY DEF Pending
<1>5. CASE Cleanup(s)
  <2>1. st' = [st EXCEPT ![s] = Closed]
    BY <1>1, <1>5, CleanupOK
  <2>2. \A r \in Streams : st'[r] = IF r = s THEN Closed ELSE st[r]
    BY <1>3, <2>1
  <2>3. \A r \in Streams : st'[r].open => r # s /\ st[r].open
    BY <2>2, ClosedOK
  <2>4. ASSUME NEW r \in Streams, st[r].open, st'[r].open
        PROVE  /\ queued[r] \in Seq(Items)
               /\ \E published \in 0..MaxEvents : Exact(queued[r], st[r].told, published)
               /\ Gave(st[r].told, queued[r], st'[r])
    <3>1. /\ st[r] \in LooseStates
          /\ ItemsOK(st[r].pending, st[r].told, st[r].published)
      BY <1>1, <2>4, StreamsInvAt
    <3>2. queued[r] = st[r].pending /\ st'[r] = st[r]
      BY <1>4, <2>2, <2>3, <2>4
    <3>3. st[r].pending \in Seq(Items) /\ st[r].published \in 0..MaxEvents
      BY <3>1 DEF LooseStates
    <3> HIDE DEF queued
    <3> QED
      BY <3>1, <3>2, <3>3, GaveNothing DEF ItemsOK
  <2> HIDE DEF queued
  <2> QED
    BY <1>1, <1>2, <2>3, <2>4, WireMoves
<1>6. CASE RevalidateStands(s)
  <2>1. st' = [st EXCEPT ![s] = new]
    BY <1>3, <1>6 DEF RevalidateStands
  <2>2. \A r \in Streams : st'[r] = IF r = s THEN new ELSE st[r]
    BY <1>3, <2>1
  <2>3. /\ st[s] \in LooseStates /\ st[s].open
        /\ ItemsOK(st[s].pending, st[s].told, st[s].published)
    BY <1>1, <1>6, StreamsInvAt DEF RevalidateStands
  <2>4. /\ st[s].pending \in Seq(Items) /\ st[s].told \in 0..MaxEvents
        /\ st[s].published \in 0..MaxEvents /\ st[s].expires \in Nat
    BY <2>3 DEF LooseStates
  <2>5. items \in Seq(Items) /\ ItemsOK(items, st[s].told, st[s].published)
    BY <2>3, <2>4, QueuedKeepAliveOK
  <2>6. NextCheck(st[s].expires) \in Nat
    <3>1. now < st[s].expires
      BY <1>3, <1>6, <2>4 DEF RevalidateStands, SessionGone
    <3> QED
      BY <1>3, <2>4, <3>1, NextCheckBounds
  <2> HIDE DEF items
  <2>7. q \in LooseStates /\ q.open /\ q.pending = items /\ q.told = st[s].told
    BY <2>3, <2>5, <2>6 DEF LooseStates
  <2> HIDE DEF q
  <2>8. Gave(st[s].told, items, new)
    <3>1. Gave(q.told, q.pending, q) /\ Gave(q.told, q.pending, Pumped(q))
      BY <2>7, GaveNothing, PumpedGave
    <3> QED
      BY <2>7, <3>1
  <2> HIDE DEF new, queued
  <2>9. \A r \in Streams : st'[r].open => st[r].open
    BY <2>2, <2>3
  <2>10. ASSUME NEW r \in Streams, st[r].open
         PROVE  /\ queued[r] \in Seq(Items)
                /\ \E published \in 0..MaxEvents : Exact(queued[r], st[r].told, published)
                /\ Gave(st[r].told, queued[r], st'[r])
    <3>1. CASE r = s
      BY <1>4, <2>2, <2>4, <2>5, <2>8, <3>1 DEF ItemsOK
    <3>2. CASE r # s
      <4>1. /\ st[r] \in LooseStates
            /\ ItemsOK(st[r].pending, st[r].told, st[r].published)
        BY <1>1, <2>10, StreamsInvAt
      <4>2. queued[r] = st[r].pending /\ st'[r] = st[r]
        BY <1>4, <2>2, <3>2
      <4>3. st[r].pending \in Seq(Items) /\ st[r].published \in 0..MaxEvents
        BY <4>1 DEF LooseStates
      <4> QED
        BY <4>1, <4>2, <4>3, GaveNothing DEF ItemsOK
    <3> QED
      BY <3>1, <3>2
  <2> QED
    BY <1>1, <1>2, <2>9, <2>10, WireMoves
<1> QED
  BY <1>1, <1>5, <1>6 DEF Revalidate, RevalidateGone, RevalidateThrows

LEMMA ServerReadOK ==
  ASSUME PageInv, NEW s \in Streams, ServerRead(s)
  PROVE  PageInv'
<1>1. Read(s) /\ StreamsInv
  BY DEF ServerRead, PageInv
<1>2. StreamsInv'
  BY <1>1, ReadOK
<1>3. st \in [Streams -> LooseStates]
  BY <1>1 DEF StreamsInv
<1>4. st' = [st EXCEPT ![s] = [st[s] EXCEPT !.room = @ + 1]]
  BY <1>1, <1>3 DEF Read
<1>5. \A r \in Streams : st'[r].open => st[r].open /\ st'[r].told = st[r].told
  BY <1>3, <1>4 DEF LooseStates
<1> QED
  BY <1>2, <1>5, WireStays DEF ServerRead

LEMMA ServerAbortOK ==
  ASSUME PageInv, NEW s \in Streams, ServerAbort(s)
  PROVE  PageInv'
<1>1. Cleanup(s) /\ StreamsInv
  BY DEF ServerAbort, Abort, PageInv
<1>2. StreamsInv' /\ st' = [st EXCEPT ![s] = Closed]
  BY <1>1, CleanupOK
<1>3. st \in [Streams -> LooseStates]
  BY <1>1 DEF StreamsInv
<1>4. \A r \in Streams : st'[r].open => st[r].open /\ st'[r].told = st[r].told
  BY <1>2, <1>3, ClosedOK
<1> QED
  BY <1>2, <1>4, WireStays DEF ServerAbort

LEMMA ServerTickOK ==
  ASSUME PageInv, ServerTick
  PROVE  PageInv'
<1>1. StreamsInv' /\ st' = st
  BY TickOK DEF ServerTick, PageInv
<1> QED
  BY <1>1, WireStays DEF ServerTick

(* A source whose answer arrives stays the page's source.                  *)
LEMMA SourceAnswered ==
  ASSUME PageInv, NEW s \in Streams, conn[s].state = "requested",
         NEW answer \in {"served", "refused"},
         conn' = [conn EXCEPT ![s].state = answer], page' = page
  PROVE  SourcesInv' /\ LinesInv'
<1> DEFINE c == [conn[s] EXCEPT !.state = answer]
<1>1. conn \in [Streams -> Sources] /\ conn[s] \in Sources
  BY PageInvAt
<1>2. /\ c \in Sources /\ c.state = answer /\ c.active = conn[s].active
      /\ c.heard = conn[s].heard
  BY <1>1 DEF Sources, OpenStates
<1>3. conn' = [conn EXCEPT ![s] = c]
  BY <1>1
<1> HIDE DEF c
<1>4. conn' \in [Streams -> Sources]
  BY <1>1, <1>2, <1>3
<1>5. \A r \in Streams :
        /\ conn'[r].active = conn[r].active /\ conn'[r].heard = conn[r].heard
        /\ r # s => conn'[r] = conn[r]
  BY <1>1, <1>2, <1>3
<1>6. conn'[s].state = answer
  BY <1>1, <1>2, <1>3
<1>7. SourcesInv
  BY DEF PageInv
<1>8. SourcesInv'
  <2>1. \A r \in Streams : conn'[r].active <=> conn'[r].state \in OpenStates
    BY <1>5, <1>6, <1>7 DEF SourcesInv, OpenStates
  <2>2. \A r \in Streams : conn'[r].active => (page'.connection = "live" <=> conn'[r].state = "opened")
    BY <1>5, <1>6, <1>7 DEF SourcesInv
  <2>3. \A r \in Streams : page'.connectionAttempt < r => conn'[r].state = "none"
    BY <1>5, <1>7 DEF SourcesInv
  <2> QED
    BY <1>4, <1>5, <1>7, <2>1, <2>2, <2>3 DEF SourcesInv, Wanted
<1>9. LinesInv'
  <2>1. LinesInv
    BY DEF PageInv
  <2>2. \A r \in Streams : conn'[r].active => HeardOf(r)'
    BY <1>5, <2>1 DEF LinesInv, HeardOf
  <2>3. \A i \in 1..(Len(page.lines) - 1) : page.lines[i].source \in Streams
    <3>1. page.lines \in Seq(Lines)
      BY <1>7 DEF SourcesInv, Pages
    <3>2. \A i \in 1..Len(page.lines) : page.lines[i] \in Lines
      BY <3>1, ElementOfSeq
    <3>3. Len(page.lines) \in Nat
      BY <3>1, LenProperties
    <3> QED
      BY <3>2, <3>3 DEF Lines
  <2> QED
    BY <1>5, <2>1, <2>2, <2>3 DEF LinesInv
<1> QED
  BY <1>8, <1>9

LEMMA ServeOK ==
  ASSUME PageInv, NEW s \in Streams, NEW session, Serve(s, session)
  PROVE  PageInv'
<1>1. conn[s].state = "requested" /\ UNCHANGED <<page, wire>> /\ StreamsInv
  BY DEF Serve, PageInv
<1>2. conn \in [Streams -> Sources] /\ WireInv
  BY DEF PageInv, SourcesInv
<1>3. ~st[s].open /\ conn[s].heard = 0 /\ wire[s] = <<>>
  BY <1>1, <1>2 DEF WireInv, WireOK
<1>4. CASE session = "unrestricted"
  <2>1. PICK left \in Lifetimes : Connect(s, now + left)
    BY <1>4 DEF Serve
  <2>2. conn' = [conn EXCEPT ![s].state = "served"]
    BY <1>4 DEF Serve
  <2>3. StreamsInv'
    <3>1. left \in Nat \ {0} /\ now \in Nat
      BY <1>1, PageAssumption, StreamsInvAt
    <3>2. now + left \in Nat /\ now < now + left
      BY <3>1
    <3> QED
      BY <1>1, <2>1, <3>2, ConnectOK
  <2>4. SourcesInv' /\ LinesInv'
    BY <1>1, <2>2, SourceAnswered
  <2>5. st \in [Streams -> LooseStates]
    BY <1>1 DEF StreamsInv
  <2>6. \A r \in Streams : r # s => st'[r] = st[r] /\ conn'[r] = conn[r]
    BY <1>2, <2>1, <2>2, <2>5 DEF Connect
  <2>7. st'[s].told = 0 /\ conn'[s].state = "served" /\ conn'[s].heard = 0
    BY <1>2, <1>3, <2>1, <2>2, <2>5 DEF Connect, Closed, Sources
  <2>8. ASSUME NEW r \in Streams
        PROVE  WireOK(r)'
    <3>1. CASE r = s
      <4>1. wire'[s] = <<>>
        BY <1>1, <1>3
      <4>2. Chain(<<>>, 0) /\ Reached(<<>>, 0) = 0
        BY DEF Chain, Reached
      <4> QED
        BY <2>7, <3>1, <4>1, <4>2 DEF WireOK
    <3>2. CASE r # s
      BY <1>1, <1>2, <2>6, <3>2 DEF WireInv, WireOK, Carries
    <3> QED
      BY <3>1, <3>2
  <2>9. WireInv'
    BY <1>1, <1>2, <2>8 DEF WireInv
  <2> QED
    BY <2>3, <2>4, <2>9 DEF PageInv
<1>5. CASE session # "unrestricted"
  <2>1. conn' = [conn EXCEPT ![s].state = "refused"] /\ UNCHANGED vars
    BY <1>5 DEF Serve
  <2>2. SourcesInv' /\ LinesInv'
    BY <1>1, <2>1, SourceAnswered
  <2>3. \A r \in Streams : r # s => conn'[r] = conn[r]
    BY <1>2, <2>1
  <2>4. conn'[s].state = "refused"
    BY <1>2, <2>1 DEF Sources
  <2>5. ASSUME NEW r \in Streams
        PROVE  WireOK(r)'
    BY <1>1, <1>2, <2>1, <2>3, <2>4 DEF WireInv, WireOK, Carries, vars
  <2>6. WireInv'
    BY <1>1, <1>2, <2>5 DEF WireInv
  <2>7. StreamsInv'
    BY <1>1, <2>1 DEF vars, StreamsInv, Subscribed, StreamOK, Timed
  <2> QED
    BY <2>2, <2>6, <2>7 DEF PageInv
<1> QED
  BY <1>4, <1>5

-----------------------------------------------------------------------------
(* The page's steps.                                                       *)

LEMMA StreamsStay ==
  ASSUME StreamsInv, UNCHANGED vars
  PROVE  StreamsInv'
BY DEF vars, StreamsInv, Subscribed, StreamOK, Timed

LEMMA LineTypes ==
  ASSUME PageInv
  PROVE  /\ page \in Pages
         /\ page.lines \in Seq(Lines) /\ Len(page.lines) \in Nat
         /\ \A i \in 1..Len(page.lines) :
              /\ page.lines[i] \in Lines /\ page.lines[i].source \in Streams
              /\ page.lines[i].key \in Nat
              /\ page.lines[i].from \in 1..MaxEvents /\ page.lines[i].to \in 1..MaxEvents
         /\ page.nextKey \in Nat
         /\ page.connectionAttempt \in 0..Cardinality(Streams)
         /\ Cardinality(Streams) \in Nat
         /\ \A s \in Streams : s \in 1..Cardinality(Streams)
<1>1. page \in Pages
  BY DEF PageInv, SourcesInv
<1>2. page.lines \in Seq(Lines) /\ page.nextKey \in Nat
      /\ page.connectionAttempt \in 0..Cardinality(Streams)
  BY <1>1 DEF Pages
<1>3. Len(page.lines) \in Nat /\ \A i \in 1..Len(page.lines) : page.lines[i] \in Lines
  BY <1>2, LenProperties, ElementOfSeq
<1>4. \A x \in Lines : /\ x.source \in Streams /\ x.key \in Nat
                       /\ x.from \in 1..MaxEvents /\ x.to \in 1..MaxEvents
  BY DEF Lines
<1>5. Cardinality(Streams) \in Nat
  BY PageAssumption, FS_CardinalityType
<1>6. \A s \in Streams : s \in 1..Cardinality(Streams)
  BY PageAssumption
<1> QED
  BY <1>1, <1>2, <1>3, <1>4, <1>5, <1>6

(* The effect makes the source of the next attempt.                        *)
LEMMA CreateSourceOK ==
  ASSUME PageInv, ~Wanted, NEW s \in Streams, CreateSource(s),
         page' \in Pages, page'.mounted, page'.connection = "connecting",
         page'.connectionAttempt = s
  PROVE  StreamsInv' /\ SourcesInv' /\ WireInv'
<1> DEFINE new == [state |-> "requested", active |-> TRUE, heard |-> 0]
<1>1. /\ s = page.connectionAttempt + 1 /\ conn' = [conn EXCEPT ![s] = new]
      /\ UNCHANGED vars /\ wire' = wire
  BY DEF CreateSource
<1>2. StreamsInv'
  BY <1>1, StreamsStay DEF PageInv
<1>3. /\ s \in Nat /\ page.connectionAttempt \in Nat /\ page.connectionAttempt < s
      /\ \A r \in Streams : r \in Nat
  BY <1>1, LineTypes
<1>4. SourcesInv /\ conn \in [Streams -> Sources] /\ wire \in [Streams -> Seq(WireItems)]
  BY DEF PageInv, SourcesInv, WireInv
<1>5. new \in Sources
  BY BoundAssumption DEF Sources, OpenStates
<1>6. /\ conn' \in [Streams -> Sources]
      /\ \A r \in Streams : conn'[r] = IF r = s THEN new ELSE conn[r]
  BY <1>1, <1>4, <1>5
<1>7. conn[s].state = "none"
  BY <1>3, <1>4 DEF SourcesInv
<1>8. \A r \in Streams : ~conn[r].active
  BY <1>4 DEF SourcesInv
<1>9. /\ conn'[s].state = "requested" /\ conn'[s].active /\ conn'[s].heard = 0
      /\ \A r \in Streams : r # s => conn'[r] = conn[r]
  BY <1>6
<1> HIDE DEF new
<1>10. SourcesInv'
  <2>1. \A r \in Streams : conn'[r].active <=> conn'[r].state \in OpenStates
    BY <1>4, <1>9 DEF SourcesInv, OpenStates
  <2>2. \A r \in Streams : conn'[r].active => r = s
    BY <1>8, <1>9
  <2>3. Wanted'
    BY DEF Wanted
  <2>4. \A r \in Streams : page'.connectionAttempt < r => conn'[r].state = "none"
    BY <1>3, <1>4, <1>9 DEF SourcesInv
  <2>5. \A r \in Streams : conn'[r].active => (page'.connection = "live" <=> conn'[r].state = "opened")
    BY <1>9, <2>2
  <2> QED
    BY <1>6, <1>9, <2>1, <2>2, <2>3, <2>4, <2>5 DEF SourcesInv
<1>11. WireInv'
  <2>1. WireOK(s)
    BY DEF PageInv, WireInv
  <2>2. ~st'[s].open /\ wire'[s] = <<>>
    BY <1>1, <1>7, <2>1 DEF WireOK, vars
  <2>3. WireOK(s)'
    BY <1>9, <2>2 DEF WireOK, Carries
  <2>4. ASSUME NEW r \in Streams, r # s
        PROVE  WireOK(r)'
    BY <1>1, <1>9, <2>4 DEF PageInv, WireInv, WireOK, Carries, vars
  <2> QED
    BY <1>1, <1>4, <2>3, <2>4 DEF WireInv
<1> QED
  BY <1>2, <1>10, <1>11

LEMMA FreshPages ==
  ASSUME NEW attempt \in 0..Cardinality(Streams), NEW mounted \in BOOLEAN
  PROVE  [FreshPage EXCEPT !.mounted = mounted, !.connectionAttempt = attempt] \in Pages
<1>1. <<>> \in Seq(Lines)
  BY EmptySeq
<1> QED
  BY <1>1 DEF FreshPage, Pages

LEMMA NoLines ==
  ASSUME page'.lines = <<>>, page'.nextKey \in Nat,
         \A s \in Streams : conn'[s].active /\ page'.nextKey = 0 => NothingBetween(1, conn'[s].heard)
  PROVE  LinesInv'
<1>1. Len(page'.lines) = 0 /\ MaxLines \in Nat
  BY EmptySeq, PageAssumption
<1>2. \A i : i \notin 1..0 /\ i \notin 1..(0 - 1)
  OBVIOUS
<1>3. \A s \in Streams : conn'[s].active => HeardOf(s)'
  BY <1>1, <1>2 DEF HeardOf
<1>4. 0 <= MaxLines /\ 0 <= page'.nextKey
  BY <1>1
<1> QED
  BY <1>1, <1>2, <1>3, <1>4 DEF LinesInv

LEMMA MountOK ==
  ASSUME PageInv, NEW s \in Streams, Mount(s)
  PROVE  PageInv'
<1>1. ~Wanted /\ CreateSource(s)
      /\ page' = [FreshPage EXCEPT !.mounted = TRUE, !.connectionAttempt = s]
  BY DEF Mount, Wanted
<1>2. s \in 0..Cardinality(Streams)
  BY LineTypes
<1>3. page' \in Pages
  BY <1>1, <1>2, FreshPages
<1>4. /\ page'.mounted /\ page'.connection = "connecting" /\ page'.connectionAttempt = s
      /\ page'.lines = <<>> /\ page'.nextKey = 0
  BY <1>1 DEF FreshPage
<1>5. StreamsInv' /\ SourcesInv' /\ WireInv'
  BY <1>1, <1>3, <1>4, CreateSourceOK
<1>6. \A r \in Streams : conn'[r].active => conn'[r].heard = 0
  <2>1. conn'[s].heard = 0
    BY <1>1 DEF CreateSource, PageInv, SourcesInv
  <2> QED
    BY <1>4, <1>5, <2>1 DEF SourcesInv
<1>7. NothingBetween(1, 0)
  BY DEF NothingBetween
<1>8. LinesInv'
  BY <1>4, <1>6, <1>7, NoLines
<1> QED
  BY <1>5, <1>8 DEF PageInv

LEMMA ReconnectOK ==
  ASSUME PageInv, NEW s \in Streams, Reconnect(s)
  PROVE  PageInv'
<1>1. ~Wanted /\ page.mounted /\ CreateSource(s)
      /\ page' = [page EXCEPT !.connection = "connecting", !.connectionAttempt = s]
  BY DEF Reconnect, Wanted
<1>2. s \in 0..Cardinality(Streams) /\ page \in Pages /\ page.connectionAttempt \in Nat /\ s \in Nat
  BY LineTypes
<1>3. /\ page' \in Pages
      /\ page'.mounted /\ page'.connection = "connecting" /\ page'.connectionAttempt = s
      /\ page'.lines = page.lines /\ page'.nextKey = page.nextKey
  BY <1>1, <1>2 DEF Pages
<1>4. StreamsInv' /\ SourcesInv' /\ WireInv'
  BY <1>1, <1>3, CreateSourceOK
<1>5. s = page.connectionAttempt + 1 /\ conn'[s].heard = 0
      /\ \A r \in Streams : r # s => conn'[r] = conn[r]
  BY <1>1 DEF CreateSource, PageInv, SourcesInv
<1>6. \A r \in Streams : conn'[r].active => r = s
  BY <1>3, <1>4 DEF SourcesInv
<1>7. LinesInv /\ SourcesInv
  BY DEF PageInv
<1> DEFINE n == Len(page.lines)
           src(i) == page.lines[i].source
<1>8. \A i \in 1..n : src(i) \in Streams /\ src(i) \in Nat /\ src(i) <= page.connectionAttempt
  BY <1>7, LineTypes DEF LinesInv
<1>9. \A i \in 1..n : src(i) # s /\ src(i) <= s
  BY <1>2, <1>5, <1>8
<1>10. HeardOf(s)'
  <2>1. NothingBetween(1, 0)
    BY DEF NothingBetween
  <2> QED
    BY <1>3, <1>5, <1>9, <2>1 DEF HeardOf
<1>11. n \in Nat /\ \A i \in 1..(n - 1) : i \in 1..n
  BY LineTypes
<1>12. \A i \in 1..(n - 1) : ~conn[src(i)].active => ~conn'[src(i)].active
  BY <1>5, <1>8, <1>9, <1>11
<1> HIDE DEF n, src
<1>13. LinesInv'
  <2>1. n <= MaxLines /\ n <= page'.nextKey
    BY <1>3, <1>7 DEF LinesInv, n
  <2>2. \A i \in 1..n : page'.lines[i].key = page'.nextKey - n + i
                        /\ page'.lines[i].source <= page'.connectionAttempt
    BY <1>3, <1>7, <1>9 DEF LinesInv, n, src
  <2>3. \A i \in 1..(n - 1) :
          \/ /\ page'.lines[i].source = page'.lines[i + 1].source
             /\ page'.lines[i].to < page'.lines[i + 1].from
             /\ NothingBetween(page'.lines[i].to + 1, page'.lines[i + 1].from - 1)
          \/ ~conn'[page'.lines[i].source].active
    BY <1>3, <1>7, <1>12 DEF LinesInv, n, src
  <2>4. \A r \in Streams : conn'[r].active => HeardOf(r)'
    BY <1>6, <1>10
  <2>5. Len(page'.lines) = n
    BY <1>3 DEF n
  <2> QED
    BY <2>1, <2>2, <2>3, <2>4, <2>5 DEF LinesInv
<1> QED
  BY <1>4, <1>13 DEF PageInv

LEMMA ClearTabOK ==
  ASSUME PageInv, ClearTab
  PROVE  PageInv'
<1>1. /\ page.lines # <<>> /\ page' = [page EXCEPT !.lines = <<>>]
      /\ UNCHANGED vars /\ conn' = conn /\ wire' = wire
  BY DEF ClearTab
<1>2. page \in Pages /\ page.lines \in Seq(Lines) /\ page.nextKey \in Nat /\ Len(page.lines) \in Nat
  BY LineTypes
<1>3. <<>> \in Seq(Lines)
  BY EmptySeq
<1>4. /\ page' \in Pages /\ page'.lines = <<>> /\ page'.nextKey = page.nextKey
      /\ page'.mounted = page.mounted /\ page'.connection = page.connection
      /\ page'.connectionAttempt = page.connectionAttempt
  BY <1>1, <1>2, <1>3 DEF Pages
<1>5. page.nextKey # 0
  <2>1. Len(page.lines) # 0
    BY <1>1, <1>2, EmptySeq
  <2>2. Len(page.lines) <= page.nextKey
    BY DEF PageInv, LinesInv
  <2> QED
    BY <1>2, <2>1, <2>2
<1>6. LinesInv'
  BY <1>2, <1>4, <1>5, NoLines
<1>7. SourcesInv'
  BY <1>1, <1>4 DEF PageInv, SourcesInv, Wanted
<1>8. StreamsInv'
  BY <1>1, StreamsStay DEF PageInv
<1>9. WireInv'
  BY <1>1 DEF PageInv, WireInv, WireOK, Carries, vars
<1> QED
  BY <1>6, <1>7, <1>8, <1>9 DEF PageInv

LEMMA DroppedSource ==
  ASSUME PageInv, NEW s \in Streams
  PROVE  /\ Dropped(s) \in Sources /\ ~Dropped(s).active /\ Dropped(s).state = "closed"
         /\ Dropped(s).heard = conn[s].heard
BY PageInvAt DEF Dropped, Sources

(* The lines stay when sources are given up. *)
LEMMA LinesStay ==
  ASSUME PageInv, page'.lines = page.lines, page'.nextKey = page.nextKey,
         page'.connectionAttempt = page.connectionAttempt,
         \A s \in Streams : /\ conn'[s].active => conn[s].active
                            /\ conn'[s].heard = conn[s].heard
  PROVE  LinesInv'
<1>1. LinesInv
  BY DEF PageInv
<1>2. \A s \in Streams : conn'[s].active => HeardOf(s)'
  BY <1>1 DEF LinesInv, HeardOf
<1>3. \A i \in 1..(Len(page.lines) - 1) : page.lines[i].source \in Streams
  <2>1. \A i \in 1..(Len(page.lines) - 1) : i \in 1..Len(page.lines)
    BY LineTypes
  <2> QED
    BY <2>1, LineTypes
<1> QED
  BY <1>1, <1>2, <1>3 DEF LinesInv

LEMMA UnmountOK ==
  ASSUME PageInv, Unmount
  PROVE  PageInv'
<1>1. /\ page' = [FreshPage EXCEPT !.connectionAttempt = page.connectionAttempt]
      /\ conn' = [s \in Streams |-> IF conn[s].active THEN Dropped(s) ELSE conn[s]]
      /\ UNCHANGED vars /\ wire' = wire
  BY DEF Unmount
<1>2. page.connectionAttempt \in 0..Cardinality(Streams) /\ conn \in [Streams -> Sources]
  BY LineTypes DEF PageInv, SourcesInv
<1>3. /\ page' \in Pages
      /\ ~page'.mounted /\ page'.lines = <<>> /\ page'.nextKey = 0
      /\ page'.connectionAttempt = page.connectionAttempt
  <2>1. <<>> \in Seq(Lines)
    BY EmptySeq
  <2> QED
    BY <1>1, <1>2, <2>1 DEF FreshPage, Pages
<1>4. ASSUME NEW s \in Streams
      PROVE  /\ conn'[s] \in Sources /\ ~conn'[s].active /\ conn'[s].state \notin OpenStates
             /\ conn'[s] = IF conn[s].active THEN Dropped(s) ELSE conn[s]
  <2>1. conn'[s] = IF conn[s].active THEN Dropped(s) ELSE conn[s]
    BY <1>1
  <2>2. conn[s].active <=> conn[s].state \in OpenStates
    BY DEF PageInv, SourcesInv
  <2> QED
    BY <1>2, <2>1, <2>2, DroppedSource DEF OpenStates
<1>5. SourcesInv'
  <2>1. conn' \in [Streams -> Sources]
    BY <1>1, <1>4
  <2>2. \A s \in Streams : page'.connectionAttempt < s => conn'[s].state = "none"
    <3>1. \A s \in Streams : page.connectionAttempt < s => conn[s].state = "none"
      BY DEF PageInv, SourcesInv
    <3>2. \A s \in Streams : conn[s].active <=> conn[s].state \in OpenStates
      BY DEF PageInv, SourcesInv
    <3> QED
      BY <1>3, <1>4, <3>1, <3>2 DEF OpenStates
  <2> QED
    BY <1>3, <1>4, <2>1, <2>2 DEF SourcesInv, Wanted
<1>6. LinesInv'
  <2>1. page'.nextKey \in Nat
    BY <1>3
  <2> QED
    BY <1>3, <1>4, <2>1, NoLines
<1>7. StreamsInv'
  BY <1>1, StreamsStay DEF PageInv
<1>8. ASSUME NEW s \in Streams
      PROVE  WireOK(s)'
  <2>1. WireOK(s)
    BY PageInvAt
  <2>2. CASE conn[s].active
    <3>1. conn'[s].state = "closed"
      BY <1>4, <2>2, DroppedSource
    <3> QED
      BY <3>1 DEF WireOK, Carries
  <2>3. CASE ~conn[s].active
    BY <1>1, <1>4, <2>1, <2>3 DEF WireOK, Carries, vars
  <2> QED
    BY <2>2, <2>3
<1>9. WireInv'
  BY <1>1, <1>8 DEF PageInv, WireInv
<1> QED
  BY <1>5, <1>6, <1>7, <1>9 DEF PageInv

(* onerror of a source that was not given up yet.                          *)
LEMMA OnErrorOK ==
  ASSUME PageInv, NEW s \in Streams, conn[s].state \in OpenStates, OnError(s),
         \/ wire' = wire
         \/ wire' = [wire EXCEPT ![s] = <<>>]
  PROVE  PageInv'
<1>1. SourcesInv /\ conn \in [Streams -> Sources] /\ page \in Pages
      /\ wire \in [Streams -> Seq(WireItems)]
  BY DEF PageInv, SourcesInv, WireInv
<1>2. conn[s].active
  BY <1>1 DEF SourcesInv
<1>3. /\ conn' = [conn EXCEPT ![s] = Dropped(s)]
      /\ page' = [page EXCEPT !.connection = "disconnected"]
      /\ UNCHANGED vars
  BY <1>2 DEF OnError
<1>4. /\ page' \in Pages /\ page'.connection = "disconnected" /\ page'.mounted = page.mounted
      /\ page'.lines = page.lines /\ page'.nextKey = page.nextKey
      /\ page'.connectionAttempt = page.connectionAttempt
  BY <1>1, <1>3 DEF Pages
<1>5. /\ conn' \in [Streams -> Sources]
      /\ conn'[s].state = "closed" /\ ~conn'[s].active /\ conn'[s].heard = conn[s].heard
      /\ \A r \in Streams : r # s => conn'[r] = conn[r]
  BY <1>1, <1>3, DroppedSource
<1>6. \A r \in Streams : conn[r].active => r = s
  BY <1>1, <1>2 DEF SourcesInv
<1>7. \A r \in Streams : ~conn'[r].active
  BY <1>5, <1>6
<1>8. SourcesInv'
  <2>1. \A r \in Streams : conn'[r].active <=> conn'[r].state \in OpenStates
    BY <1>1, <1>5 DEF SourcesInv, OpenStates
  <2>2. \A r \in Streams : page'.connectionAttempt < r => conn'[r].state = "none"
    BY <1>1, <1>4, <1>5, DroppedSource DEF SourcesInv, OpenStates
  <2> QED
    BY <1>4, <1>5, <1>7, <2>1, <2>2 DEF SourcesInv, Wanted
<1>9. LinesInv'
  BY <1>4, <1>5, LinesStay
<1>10. StreamsInv'
  BY <1>3, StreamsStay DEF PageInv
<1>11. wire' \in [Streams -> Seq(WireItems)] /\ \A r \in Streams : r # s => wire'[r] = wire[r]
  <2>1. <<>> \in Seq(WireItems)
    BY EmptySeq
  <2> QED
    BY <1>1, <2>1
<1>12. ASSUME NEW r \in Streams
       PROVE  WireOK(r)'
  <2>1. WireOK(r)
    BY PageInvAt
  <2>2. CASE r = s
    BY <1>5, <2>2 DEF WireOK, Carries
  <2>3. CASE r # s
    BY <1>3, <1>5, <1>11, <2>1, <2>3 DEF WireOK, Carries, vars
  <2> QED
    BY <2>2, <2>3
<1> QED
  BY <1>8, <1>9, <1>10, <1>11, <1>12 DEF PageInv, WireInv

LEMMA StreamEndsOK ==
  ASSUME PageInv, NEW s \in Streams, StreamEnds(s)
  PROVE  PageInv'
BY OnErrorOK DEF StreamEnds, OpenStates

LEMMA NetworkFailsOK ==
  ASSUME PageInv, NEW s \in Streams, NetworkFails(s)
  PROVE  PageInv'
BY OnErrorOK DEF NetworkFails, OpenStates

LEMMA OnOpenOK ==
  ASSUME PageInv, NEW s \in Streams, OnOpen(s)
  PROVE  PageInv'
<1> DEFINE c == [conn[s] EXCEPT !.state = "opened"]
<1>1. SourcesInv /\ conn \in [Streams -> Sources] /\ page \in Pages
      /\ conn[s].state = "served"
  BY DEF PageInv, SourcesInv, OnOpen
<1>2. conn[s].active
  BY <1>1 DEF SourcesInv, OpenStates
<1>3. /\ conn' = [conn EXCEPT ![s] = c]
      /\ page' = [page EXCEPT !.connection = "live"]
      /\ UNCHANGED <<vars, wire>>
  BY <1>1, <1>2 DEF OnOpen
<1>4. c \in Sources /\ c.state = "opened" /\ c.active /\ c.heard = conn[s].heard
  BY <1>1, <1>2 DEF Sources, OpenStates
<1> HIDE DEF c
<1>5. /\ conn' \in [Streams -> Sources] /\ conn'[s] = c
      /\ \A r \in Streams : r # s => conn'[r] = conn[r]
  BY <1>1, <1>3, <1>4
<1>6. /\ page' \in Pages /\ page'.connection = "live" /\ page'.mounted = page.mounted
      /\ page'.lines = page.lines /\ page'.nextKey = page.nextKey
      /\ page'.connectionAttempt = page.connectionAttempt
  BY <1>1, <1>3 DEF Pages
<1>7. s = page.connectionAttempt /\ Wanted /\ \A r \in Streams : conn[r].active => r = s
  BY <1>1, <1>2 DEF SourcesInv
<1>8. SourcesInv'
  <2>1. \A r \in Streams : conn'[r].active <=> conn'[r].state \in OpenStates
    BY <1>1, <1>4, <1>5 DEF SourcesInv, OpenStates
  <2>2. \A r \in Streams : conn'[r].active => r = s
    BY <1>5, <1>7
  <2>3. Wanted'
    BY <1>6, <1>7 DEF Wanted
  <2>4. \A r \in Streams : page'.connectionAttempt < r => conn'[r].state = "none"
    BY <1>1, <1>5, <1>6 DEF SourcesInv
  <2>5. conn'[s].state = "opened" /\ conn'[s].active
    BY <1>4, <1>5
  <2> QED
    BY <1>5, <1>6, <1>7, <2>1, <2>2, <2>3, <2>4, <2>5 DEF SourcesInv
<1>9. LinesInv'
  <2>1. \A r \in Streams : (conn'[r].active => conn[r].active) /\ conn'[r].heard = conn[r].heard
    BY <1>2, <1>4, <1>5
  <2> QED
    BY <1>6, <2>1, LinesStay
<1>10. StreamsInv'
  BY <1>3, StreamsStay DEF PageInv
<1>11. ASSUME NEW r \in Streams
       PROVE  WireOK(r)'
  <2>1. WireOK(r)
    BY PageInvAt
  <2>2. CASE r = s
    BY <1>1, <1>3, <1>4, <1>5, <2>1, <2>2 DEF WireOK, Carries, vars
  <2>3. CASE r # s
    BY <1>3, <1>5, <2>1, <2>3 DEF WireOK, Carries, vars
  <2> QED
    BY <2>2, <2>3
<1>12. WireInv'
  BY <1>3, <1>11 DEF PageInv, WireInv
<1> QED
  BY <1>8, <1>9, <1>10, <1>12 DEF PageInv

(* append(): the last lines of a longer list.                              *)
LEMMA LastLinesOf ==
  ASSUME NEW lines \in Seq(Lines), Len(lines) <= MaxLines, NEW line \in Lines
  PROVE  LET all == Append(lines, line)
             kept == LastLines(all)
         IN \E d \in 0..Len(lines) :
              /\ kept \in Seq(Lines) /\ Len(kept) = Len(lines) + 1 - d /\ Len(kept) <= MaxLines
              /\ \A i \in 1..(Len(lines) - d) : kept[i] = lines[i + d]
              /\ kept[Len(kept)] = line
<1> DEFINE all == Append(lines, line)
           n == Len(lines)
           d == Max2(1, n + 1 - MaxLines + 1) - 1
           kept == SubSeq(all, d + 1, Len(all))
<1>1. n \in Nat /\ MaxLines \in Nat \ {0} /\ n <= MaxLines
  BY LenProperties, PageAssumption
<1>2. /\ all \in Seq(Lines) /\ Len(all) = n + 1 /\ all[n + 1] = line
      /\ \A i \in 1..n : all[i] = lines[i]
  BY AppendProperties
<1>3. d \in 0..n /\ n + 1 - d <= MaxLines /\ d + 1 = Max2(1, n + 1 - MaxLines + 1)
  BY <1>1 DEF Max2
<1> HIDE DEF d
<1> HIDE DEF all
<1>4. LastLines(all) = kept
  <2>1. Max2(1, Len(all) - MaxLines + 1) = d + 1
    <3>1. Len(all) - MaxLines + 1 = n + 1 - MaxLines + 1
      <4>1. Len(all) = n + 1
        BY <1>2
      <4> QED
        BY <1>1, <4>1
    <3> QED
      BY <1>3, <3>1, Zenon
  <2> QED
    BY <2>1 DEF LastLines
<1>5. d \in 0..Len(all)
  BY <1>1, <1>2, <1>3
<1>6. /\ kept \in Seq(Lines) /\ Len(kept) = Len(all) - d
      /\ \A i \in 1..(Len(all) - d) : kept[i] = all[i + d]
  BY <1>2, <1>5, Cut
<1> HIDE DEF kept
<1>7. Len(kept) = n + 1 - d /\ Len(kept) <= MaxLines
  BY <1>2, <1>3, <1>6
<1>8. \A i \in 1..(n - d) : kept[i] = lines[i + d]
  <2> SUFFICES ASSUME NEW i \in 1..(n - d)
               PROVE  kept[i] = lines[i + d]
    OBVIOUS
  <2>1. i \in 1..(Len(all) - d) /\ i + d \in 1..n
    BY <1>1, <1>2, <1>3
  <2> QED
    BY <1>2, <1>6, <2>1
<1>9. kept[Len(kept)] = line
  <2>1. Len(kept) \in 1..(Len(all) - d) /\ Len(kept) + d = n + 1
    BY <1>1, <1>2, <1>3, <1>7
  <2> QED
    BY <1>2, <1>6, <2>1
<1> QED
  BY <1>3, <1>4, <1>6, <1>7, <1>8, <1>9 DEF all

LEMMA NothingFurther ==
  ASSUME NEW first \in Int, NEW last \in Int, NothingBetween(first, last),
         MadeUp(last + 1)
  PROVE  NothingBetween(first, last + 1)
<1> SUFFICES ASSUME NEW n \in first..(last + 1)
             PROVE  MadeUp(n)
  BY DEF NothingBetween
<1>1. n \in first..last \/ n = last + 1
  OBVIOUS
<1> QED
  BY <1>1 DEF NothingBetween

(* What an event does to the page and its sources, whether it is shown.    *)
LEMMA EventOnPage ==
  ASSUME PageInv, NEW s \in Streams, conn[s].state \in {"opened", "closed"},
         NEW to \in 0..MaxEvents, conn' = [conn EXCEPT ![s].heard = to],
         page' \in Pages, page'.mounted = page.mounted,
         page'.connection = page.connection, page'.connectionAttempt = page.connectionAttempt
  PROVE  /\ SourcesInv'
         /\ \A r \in Streams : conn'[r].active = conn[r].active /\ conn'[r].state = conn[r].state
         /\ \A r \in Streams : conn'[r].heard = IF r = s THEN to ELSE conn[r].heard
<1>1. conn \in [Streams -> Sources] /\ SourcesInv
  BY DEF PageInv, SourcesInv
<1> DEFINE c == [conn[s] EXCEPT !.heard = to]
<1>2. c \in Sources /\ c.state = conn[s].state /\ c.active = conn[s].active /\ c.heard = to
  BY <1>1 DEF Sources
<1>3. conn' = [conn EXCEPT ![s] = c]
  BY <1>1
<1> HIDE DEF c
<1>4. conn' \in [Streams -> Sources] /\ \A r \in Streams : conn'[r] = IF r = s THEN c ELSE conn[r]
  BY <1>1, <1>2, <1>3
<1>5. /\ \A r \in Streams : conn'[r].active = conn[r].active /\ conn'[r].state = conn[r].state
      /\ \A r \in Streams : conn'[r].heard = IF r = s THEN to ELSE conn[r].heard
  BY <1>2, <1>4
<1>6. SourcesInv'
  <2>1. \A r \in Streams : conn'[r].active <=> conn'[r].state \in OpenStates
    BY <1>1, <1>5 DEF SourcesInv
  <2>2. Wanted' <=> Wanted
    BY DEF Wanted
  <2> QED
    BY <1>1, <1>4, <1>5, <2>1, <2>2 DEF SourcesInv
<1> QED
  BY <1>5, <1>6

(* A shown item of the active source becomes the last line.                *)
LEMMA AppendedLine ==
  ASSUME PageInv, NEW s \in Streams, conn[s].active,
         NEW item \in WireItems, item.kind \in {"event", "gap"}, Spanned(item),
         item.from = 1 + conn[s].heard, page' = Appended(s, item),
         \A r \in Streams : conn'[r].active = conn[r].active,
         conn'[s].heard = item.to
  PROVE  /\ page' \in Pages /\ page'.mounted = page.mounted
         /\ page'.connection = page.connection
         /\ page'.connectionAttempt = page.connectionAttempt
         /\ LinesInv'
<1> DEFINE lines == page.lines
           n == Len(lines)
           line == [key |-> page.nextKey + 1, source |-> s, kind |-> item.kind,
                    from |-> item.from, to |-> item.to]
           kept == LastLines(Append(lines, line))
<1>1. /\ page \in Pages /\ lines \in Seq(Lines) /\ n \in Nat /\ page.nextKey \in Nat
      /\ \A i \in 1..n : lines[i] \in Lines /\ lines[i].source \in Streams
                         /\ lines[i].key \in Nat /\ lines[i].to \in 1..MaxEvents
  BY LineTypes
<1>2. LinesInv /\ SourcesInv /\ conn[s] \in Sources
  BY PageInvAt DEF PageInv
<1>3. item.from \in 1..MaxEvents /\ item.to \in 1..MaxEvents /\ item.from <= item.to
      /\ conn[s].heard \in Nat /\ MaxEvents \in Nat
  <2>1. item.to \in 0..MaxEvents /\ conn[s].heard \in 0..MaxEvents /\ MaxEvents \in Nat
    BY <1>2, BoundAssumption DEF WireItems, Sources
  <2>2. item.from \in 1..MaxEvents /\ item.from <= item.to
    BY <2>1 DEF Spanned
  <2> QED
    BY <2>1, <2>2
<1>4. line \in Lines /\ line.key = page.nextKey + 1 /\ line.source = s
      /\ line.from = item.from /\ line.to = item.to
  BY <1>1, <1>3 DEF Lines
<1>5. page' = [page EXCEPT !.nextKey = page.nextKey + 1, !.lines = kept]
  BY DEF Appended
<1>6. n <= MaxLines /\ n <= page.nextKey
  BY <1>2 DEF LinesInv
<1> HIDE DEF line
<1>7. PICK d \in 0..n :
        /\ kept \in Seq(Lines) /\ Len(kept) = n + 1 - d /\ Len(kept) <= MaxLines
        /\ \A i \in 1..(n - d) : kept[i] = lines[i + d]
        /\ kept[Len(kept)] = line
  BY <1>1, <1>4, <1>6, LastLinesOf
<1> DEFINE m == n + 1 - d
<1> HIDE DEF kept
<1>8. /\ page' \in Pages /\ page'.mounted = page.mounted
      /\ page'.connection = page.connection
      /\ page'.connectionAttempt = page.connectionAttempt
      /\ page'.lines = kept /\ page'.nextKey = page.nextKey + 1
  <2> DEFINE key == page.nextKey + 1
  <2>1. key \in Nat /\ kept \in Seq(Lines)
    BY <1>1, <1>7
  <2> HIDE DEF key
  <2>2. page' = [page EXCEPT !.nextKey = key, !.lines = kept]
    BY <1>5 DEF key
  <2>3. /\ page' \in Pages /\ page'.mounted = page.mounted
        /\ page'.connection = page.connection
        /\ page'.connectionAttempt = page.connectionAttempt
        /\ page'.lines = kept /\ page'.nextKey = key
    BY <1>1, <2>1, <2>2 DEF Pages
  <2> QED
    BY <2>3 DEF key
<1>9. s = page.connectionAttempt /\ \A r \in Streams : conn[r].active => r = s
  BY <1>2 DEF SourcesInv
<1>10. m \in Nat \ {0} /\ Len(kept) = m /\ m <= MaxLines /\ m <= page.nextKey + 1
       /\ kept[m] = line /\ d \in 0..n /\ n - d = m - 1
  BY <1>1, <1>6, <1>7
<1>11. \A i \in 1..n : lines[i].key = page.nextKey - n + i /\ lines[i].source <= page.connectionAttempt
  BY <1>2 DEF LinesInv
<1>12. \A i \in 1..(m - 1) : kept[i] = lines[i + d] /\ i + d \in 1..n
  BY <1>1, <1>7, <1>10
<1> HIDE DEF lines, n
<1>13. ASSUME NEW i \in 1..m
       PROVE  /\ kept[i].key = page.nextKey + 1 - m + i
              /\ kept[i].source <= page.connectionAttempt
  <2>1. CASE i = m
    <3>1. s <= page.connectionAttempt
      BY <1>9, LineTypes
    <3>2. page.nextKey + 1 - m + m = page.nextKey + 1
      BY <1>1, <1>10
    <3> QED
      BY <1>4, <1>10, <2>1, <3>1, <3>2
  <2>2. CASE i # m
    <3>1. i \in 1..(m - 1)
      BY <1>10, <2>2
    <3>2. kept[i] = lines[i + d] /\ i + d \in 1..n
      BY <1>12, <3>1
    <3>3. kept[i].key = page.nextKey - n + (i + d) /\ kept[i].source <= page.connectionAttempt
      BY <1>11, <3>2
    <3>4. page.nextKey - n + (i + d) = page.nextKey + 1 - m + i
      BY <1>1, <1>10
    <3> QED
      BY <3>3, <3>4
  <2> QED
    BY <2>1, <2>2
<1>14. ASSUME NEW i \in 1..(m - 1)
       PROVE  \/ /\ kept[i].source = kept[i + 1].source
                 /\ kept[i].to < kept[i + 1].from
                 /\ NothingBetween(kept[i].to + 1, kept[i + 1].from - 1)
              \/ ~conn[kept[i].source].active
  <2> DEFINE j == i + d
  <2>1. j \in 1..n /\ kept[i] = lines[j]
    BY <1>12
  <2>2. CASE i = m - 1
    <3>1. j = n /\ kept[i + 1] = line /\ n >= 1
      <4>1. i + 1 = m
        BY <1>10, <2>2
      <4>2. j = n /\ n >= 1
        BY <1>1, <1>10, <2>1, <2>2
      <4> HIDE DEF m
      <4>3. kept[i + 1] = line
        BY <1>10, <4>1
      <4> QED
        BY <4>2, <4>3
    <3>2. CASE conn[lines[n].source].active
      <4>1. lines[n].source = s
        BY <1>1, <1>9, <2>1, <3>1, <3>2
      <4>2. lines[n].to <= conn[s].heard /\ NothingBetween(lines[n].to + 1, conn[s].heard)
        <5>1. HeardOf(s)
          BY <1>2 DEF LinesInv
        <5>2. n \in 1..n
          BY <2>1, <3>1
        <5> QED
          BY <4>1, <5>1, <5>2 DEF HeardOf, lines, n
      <4>3. line.from - 1 = conn[s].heard /\ lines[n].to \in Nat /\ lines[n].to < line.from
        BY <1>1, <1>3, <1>4, <2>1, <3>1, <4>2
      <4> QED
        BY <1>4, <2>1, <3>1, <4>1, <4>2, <4>3
    <3>3. CASE ~conn[lines[n].source].active
      BY <2>1, <3>1, <3>3
    <3> QED
      BY <3>2, <3>3
  <2>3. CASE i # m - 1
    <3>1. i + 1 \in 1..(m - 1) /\ (i + 1) + d = j + 1 /\ j \in 1..(n - 1)
      BY <1>1, <1>10, <2>1, <2>3
    <3>2. kept[i + 1] = lines[j + 1]
      BY <1>12, <3>1
    <3>3. \/ /\ lines[j].source = lines[j + 1].source
             /\ lines[j].to < lines[j + 1].from
             /\ NothingBetween(lines[j].to + 1, lines[j + 1].from - 1)
          \/ ~conn[lines[j].source].active
      BY <1>2, <3>1 DEF LinesInv, lines, n
    <3> HIDE DEF j
    <3> QED
      BY <2>1, <3>2, <3>3
  <2> QED
    BY <2>2, <2>3
<1>15. \A i \in 1..(m - 1) : kept[i].source \in Streams
  BY <1>1, <1>12
<1>16. HeardOf(s)'
  <2>1. kept[m].source = s /\ kept[m].to = item.to /\ conn'[s].heard = item.to
    BY <1>4, <1>10
  <2>2. NothingBetween(item.to + 1, item.to)
    BY <1>3 DEF NothingBetween
  <2>3. page'.nextKey # 0 /\ item.to <= item.to
    BY <1>1, <1>3, <1>8
  <2> QED
    BY <1>8, <1>10, <2>1, <2>2, <2>3 DEF HeardOf
<1>17. LinesInv'
  <2>1. Len(page'.lines) = m /\ page'.lines = kept /\ page'.nextKey = page.nextKey + 1
    BY <1>8, <1>10
  <2> HIDE DEF m
  <2>2. m <= MaxLines /\ m <= page'.nextKey
    BY <1>10, <2>1
  <2>3. \A i \in 1..m : /\ page'.lines[i].key = page'.nextKey - m + i
                        /\ page'.lines[i].source <= page'.connectionAttempt
    <3> SUFFICES ASSUME NEW i \in 1..m
                 PROVE  /\ page'.lines[i].key = page'.nextKey - m + i
                        /\ page'.lines[i].source <= page'.connectionAttempt
      OBVIOUS
    <3>1. kept[i].key = page.nextKey + 1 - m + i /\ kept[i].source <= page.connectionAttempt
      BY <1>13 DEF m
    <3>2. page'.lines[i] = kept[i] /\ page'.connectionAttempt = page.connectionAttempt
      BY <1>8
    <3>3. page'.nextKey - m + i = page.nextKey + 1 - m + i
      <4>1. page'.nextKey = page.nextKey + 1 /\ page.nextKey \in Nat /\ m \in Nat /\ i \in Nat
        BY <1>1, <1>10, <2>1 DEF m
      <4> QED
        BY <4>1
    <3> QED
      BY <3>1, <3>2, <3>3, Zenon
  <2>4. \A i \in 1..(m - 1) :
          \/ /\ page'.lines[i].source = page'.lines[i + 1].source
             /\ page'.lines[i].to < page'.lines[i + 1].from
             /\ NothingBetween(page'.lines[i].to + 1, page'.lines[i + 1].from - 1)
          \/ ~conn'[page'.lines[i].source].active
    BY <1>14, <1>15, <2>1
  <2>5. \A r \in Streams : conn'[r].active => HeardOf(r)'
    BY <1>9, <1>16
  <2> QED
    BY <2>1, <2>2, <2>3, <2>4, <2>5 DEF LinesInv
<1> QED
  BY <1>8, <1>17

LEMMA OnEventOK ==
  ASSUME PageInv, NEW s \in Streams, OnEvent(s)
  PROVE  PageInv'
<1> DEFINE item == Head(wire[s])
           h == conn[s].heard
<1>1. /\ conn[s].state \in {"opened", "closed"} /\ wire[s] # <<>>
      /\ page' = IF conn[s].active /\ Shown(item) THEN Appended(s, item) ELSE page
      /\ conn' = [conn EXCEPT ![s].heard = item.to]
      /\ wire' = [wire EXCEPT ![s] = Tail(@)]
      /\ UNCHANGED vars
  BY DEF OnEvent
<1>2. /\ conn[s] \in Sources /\ page \in Pages /\ wire[s] \in Seq(WireItems) /\ WireOK(s)
      /\ conn \in [Streams -> Sources] /\ wire \in [Streams -> Seq(WireItems)]
  BY PageInvAt
<1>3. h \in 0..MaxEvents /\ MaxEvents \in Nat
  BY <1>2, BoundAssumption DEF Sources
<1>4. item \in WireItems /\ Tail(wire[s]) \in Seq(WireItems)
  <2>1. Len(wire[s]) \in Nat \ {0}
    BY <1>1, <1>2, EmptySeq
  <2>2. 1 \in 1..Len(wire[s])
    BY <2>1
  <2> QED
    BY <1>1, <1>2, <2>1, <2>2, HeadTailProperties, ElementOfSeq
<1>5. item.to \in 0..MaxEvents /\ item.kind \in {"event", "gap", "comment"}
  BY <1>4 DEF WireItems
<1>6. StreamsInv'
  BY <1>1, StreamsStay DEF PageInv
<1>7. /\ wire' \in [Streams -> Seq(WireItems)]
      /\ \A r \in Streams : wire'[r] = IF r = s THEN Tail(wire[s]) ELSE wire[r]
  BY <1>1, <1>2, <1>4
<1>8. conn[s].active <=> conn[s].state = "opened"
  BY <1>1 DEF PageInv, SourcesInv, OpenStates
<1>9. conn[s].active => /\ Spanned(item) /\ item.from = 1 + h
                        /\ Chain(Tail(wire[s]), item.to)
                        /\ Reached(Tail(wire[s]), item.to) = Reached(wire[s], h)
  <2> SUFFICES ASSUME conn[s].active
               PROVE  /\ Spanned(item) /\ item.from = 1 + h
                      /\ Chain(Tail(wire[s]), item.to)
                      /\ Reached(Tail(wire[s]), item.to) = Reached(wire[s], h)
    OBVIOUS
  <2>1. Chain(wire[s], h)
    BY <1>2, <1>8 DEF WireOK, Carries
  <2> QED
    BY <1>1, <1>2, <2>1, ChainTail
<1> HIDE DEF item, h
<1>10. \A r \in Streams : conn'[r].active = conn[r].active /\ conn'[r].state = conn[r].state
                          /\ conn'[r].heard = IF r = s THEN item.to ELSE conn[r].heard
  BY <1>1, <1>2, <1>5 DEF Sources
<1>11. /\ page' \in Pages /\ page'.mounted = page.mounted
       /\ page'.connection = page.connection
       /\ page'.connectionAttempt = page.connectionAttempt
       /\ LinesInv'
  <2>1. CASE conn[s].active /\ Shown(item)
    <3>1. item.kind \in {"event", "gap"} /\ page' = Appended(s, item) /\ conn'[s].heard = item.to
      BY <1>1, <1>10, <2>1 DEF Shown
    <3>2. \A r \in Streams : conn'[r].active = conn[r].active
      BY <1>10
    <3>3. Spanned(item) /\ item.from = 1 + conn[s].heard
      BY <1>9, <2>1 DEF h
    <3> QED
      BY <1>4, <2>1, <3>1, <3>2, <3>3, AppendedLine
  <2>2. CASE conn[s].active /\ ~Shown(item)
    <3>1. page' = page
      BY <1>1, <2>2
    <3>2. \/ item.to = h
          \/ item.to = h + 1 /\ MadeUp(h + 1)
      <4>1. Spanned(item) /\ item.from = 1 + h /\ item.kind # "gap"
        BY <1>9, <2>2 DEF Shown
      <4>2. CASE item.kind = "comment"
        BY <1>3, <1>5, <4>1, <4>2 DEF Spanned
      <4>3. CASE item.kind = "event"
        <5>1. item.from \in 1..MaxEvents /\ item.to = item.from /\ ~Projected(Emitted[item.from])
          BY <2>2, <4>1, <4>3 DEF Spanned, Shown
        <5>2. MadeUp(item.from) /\ item.from = h + 1
          BY <1>3, <4>1, <5>1, ReportedIsShown
        <5> QED
          BY <5>1, <5>2
      <4> QED
        BY <1>5, <4>1, <4>2, <4>3
    <3>3. LinesInv /\ HeardOf(s)
      BY <2>2 DEF PageInv, LinesInv
    <3>4. ASSUME NEW first \in Int, NothingBetween(first, h)
          PROVE  NothingBetween(first, item.to)
      <4>1. h \in Int
        BY <1>3
      <4> QED
        BY <3>2, <3>4, <4>1, NothingFurther
    <3>5. h <= item.to
      BY <1>3, <3>2
    <3>6. HeardOf(s)'
      <4> DEFINE n == Len(page.lines)
      <4>1. page'.lines = page.lines /\ page'.nextKey = page.nextKey /\ conn'[s].heard = item.to
        BY <1>10, <3>1
      <4>2. ASSUME NEW i \in 1..n, page.lines[i].source = s
            PROVE  /\ page.lines[n].source = s /\ page.lines[n].to <= item.to
                   /\ NothingBetween(page.lines[n].to + 1, item.to)
        <5>1. n \in 1..n /\ n \in Nat
          BY <4>2, LineTypes
        <5>2. page.lines[n].source = s /\ page.lines[n].to <= h
              /\ NothingBetween(page.lines[n].to + 1, h)
          BY <3>3, <4>2 DEF HeardOf, h
        <5>3. page.lines[n].to \in 1..MaxEvents
          BY <5>1, LineTypes
        <5>4. page.lines[n].to \in Int /\ page.lines[n].to + 1 \in Int
          BY <1>3, <5>3
        <5>5. NothingBetween(page.lines[n].to + 1, item.to)
          BY <3>4, <5>2, <5>4
        <5>6. page.lines[n].to <= item.to
          BY <1>3, <1>5, <3>5, <5>2, <5>4
        <5> QED
          BY <5>2, <5>5, <5>6
      <4>3. page.nextKey = 0 => NothingBetween(1, item.to)
        BY <3>3, <3>4 DEF HeardOf, h
      <4> QED
        BY <4>1, <4>2, <4>3 DEF HeardOf
    <3>7. \A r \in Streams : conn'[r].active => HeardOf(r)'
      <4>1. \A r \in Streams : conn[r].active => r = s
        BY <2>2 DEF PageInv, SourcesInv
      <4> QED
        BY <1>10, <3>6, <4>1
    <3>8. \A i \in 1..(Len(page.lines) - 1) : page.lines[i].source \in Streams
      <4>1. \A i \in 1..(Len(page.lines) - 1) : i \in 1..Len(page.lines)
        BY LineTypes
      <4> QED
        BY <4>1, LineTypes
    <3>9. LinesInv'
      BY <1>10, <3>1, <3>3, <3>7, <3>8 DEF LinesInv
    <3> QED
      BY <1>2, <3>1, <3>9
  <2>3. CASE ~conn[s].active
    <3>1. page' = page
      BY <1>1, <2>3
    <3>2. LinesInv
      BY DEF PageInv
    <3>3. \A r \in Streams : conn'[r].active => HeardOf(r)'
      <4> SUFFICES ASSUME NEW r \in Streams, conn'[r].active
                   PROVE  HeardOf(r)'
        OBVIOUS
      <4>1. r # s /\ conn[r].active /\ conn'[r].heard = conn[r].heard
        BY <1>10, <2>3
      <4>2. HeardOf(r)
        BY <3>2, <4>1 DEF LinesInv
      <4> QED
        BY <3>1, <4>1, <4>2 DEF HeardOf
    <3>4. \A i \in 1..(Len(page.lines) - 1) : page.lines[i].source \in Streams
      <4>1. \A i \in 1..(Len(page.lines) - 1) : i \in 1..Len(page.lines)
        BY LineTypes
      <4> QED
        BY <4>1, LineTypes
    <3>5. LinesInv'
      BY <1>10, <3>1, <3>2, <3>3, <3>4 DEF LinesInv
    <3> QED
      BY <1>2, <3>1, <3>5
  <2> QED
    BY <2>1, <2>2, <2>3
<1>12. SourcesInv'
  BY <1>1, <1>5, <1>11, EventOnPage
<1>13. ASSUME NEW r \in Streams
       PROVE  WireOK(r)'
  <2>1. WireOK(r) /\ st' = st /\ conn'[r].state = conn[r].state
    BY <1>1, <1>10, PageInvAt DEF vars
  <2>2. CASE r = s
    <3>1. conn[s].state \notin {"none", "requested"}
      BY <1>1
    <3>2. Carries(s) => conn[s].active
      BY <1>1, <1>8 DEF Carries
    <3>3. wire'[s] = Tail(wire[s]) /\ conn'[s].heard = item.to
      BY <1>7, <1>10
    <3> QED
      BY <1>9, <2>1, <2>2, <3>1, <3>2, <3>3 DEF WireOK, Carries, h
  <2>3. CASE r # s
    <3>1. wire'[r] = wire[r] /\ conn'[r].heard = conn[r].heard
      BY <1>7, <1>10, <2>3
    <3> QED
      BY <2>1, <3>1 DEF WireOK, Carries
  <2> QED
    BY <2>2, <2>3
<1> QED
  BY <1>6, <1>7, <1>11, <1>12, <1>13 DEF PageInv, WireInv

-----------------------------------------------------------------------------

LEMMA PageInitOK == ASSUME PageInit PROVE PageInv
<1>1. Init /\ page = FreshPage /\ conn = [s \in Streams |-> NoSource]
      /\ wire = [s \in Streams |-> <<>>]
  BY DEF PageInit
<1>2. StreamsInv
  BY <1>1, InitOK DEF ConsoleInv
<1>3. Cardinality(Streams) \in Nat /\ MaxEvents \in Nat /\ MaxLines \in Nat
  BY PageAssumption, BoundAssumption, FS_CardinalityType
<1>4. <<>> \in Seq(Lines) /\ <<>> \in Seq(WireItems) /\ Len(<<>>) = 0
  BY EmptySeq
<1>5. page \in Pages /\ ~page.mounted /\ page.lines = <<>> /\ page.nextKey = 0
  BY <1>1, <1>3, <1>4 DEF FreshPage, Pages
<1>6. /\ conn \in [Streams -> Sources]
      /\ \A s \in Streams : conn[s].state = "none" /\ ~conn[s].active /\ conn[s].heard = 0
  BY <1>1, <1>3 DEF NoSource, Sources
<1>7. SourcesInv
  BY <1>5, <1>6 DEF SourcesInv, Wanted, OpenStates
<1>8. WireInv
  <2>1. wire \in [Streams -> Seq(WireItems)]
    BY <1>1, <1>4
  <2>2. \A s \in Streams : ~st[s].open
    BY <1>1, ClosedOK DEF Init
  <2>3. \A s \in Streams : WireOK(s)
    BY <1>1, <1>6, <2>2 DEF WireOK, Carries
  <2> QED
    BY <2>1, <2>3 DEF WireInv
<1>9. LinesInv
  <2>1. \A i : i \notin 1..0 /\ i \notin 1..(0 - 1)
    OBVIOUS
  <2>2. 0 <= MaxLines /\ 0 <= page.nextKey /\ Len(page.lines) = 0
    BY <1>3, <1>4, <1>5
  <2> QED
    BY <1>6, <2>1, <2>2 DEF LinesInv
<1> QED
  BY <1>2, <1>7, <1>8, <1>9 DEF PageInv

LEMMA PageNextOK ==
  ASSUME PageInv, [PageNext]_pageVars
  PROVE  PageInv'
<1>1. CASE UNCHANGED pageVars
  <2>1. UNCHANGED vars /\ UNCHANGED <<page, conn, wire>>
    BY <1>1 DEF pageVars
  <2>2. StreamsInv' /\ st' = st
    BY <2>1, StreamsStay DEF PageInv, vars
  <2> QED
    BY <2>1, <2>2, WireStays
<1>2. ASSUME NEW s \in Streams,
             \/ Mount(s) \/ Reconnect(s) \/ OnOpen(s) \/ OnEvent(s) \/ StreamEnds(s)
             \/ NetworkFails(s)
      PROVE  PageInv'
  BY <1>2, MountOK, ReconnectOK, OnOpenOK, OnEventOK, StreamEndsOK, NetworkFailsOK
<1>3. ASSUME NEW s \in Streams, NEW session, Serve(s, session)
      PROVE  PageInv'
  BY <1>3, ServeOK
<1>4. ASSUME NEW s \in Streams,
             ServerPull(s) \/ ServerRead(s) \/ ServerRevalidate(s) \/ ServerAbort(s)
      PROVE  PageInv'
  BY <1>4, ServerPullOK, ServerReadOK, ServerRevalidateOK, ServerAbortOK
<1>5. CASE Unmount \/ ClearTab
  BY <1>5, UnmountOK, ClearTabOK
<1>6. ASSUME NEW p \in Principals, ServerPublish(p)
      PROVE  PageInv'
  BY <1>6, ServerPublishOK
<1>7. CASE ServerTick
  BY <1>7, ServerTickOK
<1> QED
  BY <1>1, <1>2, <1>3, <1>4, <1>5, <1>6, <1>7 DEF PageNext

(* The invariant says what the run checks.                                 *)
LEMMA PageInvImplies ==
  ASSUME PageInv
  PROVE  SourcesAreTended /\ LinesAreExact
<1>1. SourcesInv /\ LinesInv
  BY DEF PageInv
<1>2. SourcesAreTended
  <2> DEFINE open == {s \in Streams : conn[s].state \notin {"none", "closed"}}
  <2>1. \A s \in Streams : conn[s] \in Sources
    BY <1>1 DEF SourcesInv
  <2>2. \A s \in Streams : conn[s].active <=> s \in open
    BY <1>1, <2>1 DEF SourcesInv, Sources, OpenStates
  <2>3. \A s \in open : page.connection = "live" <=> conn[s].state = "opened"
    BY <1>1, <2>2 DEF SourcesInv
  <2>4. \A s \in open : s \in Streams
    OBVIOUS
  <2>5. Cardinality(open) = IF Wanted THEN 1 ELSE 0
    <3>1. CASE Wanted
      <4> DEFINE a == page.connectionAttempt
      <4>1. a \in open
        BY <1>1, <2>2, <3>1 DEF SourcesInv
      <4>2. \A s \in open : s = a
        BY <1>1, <2>2, <2>4 DEF SourcesInv
      <4> HIDE DEF open, a
      <4>3. open = {a}
        BY <4>1, <4>2
      <4>4. Cardinality({a}) = 1
        BY FS_Singleton
      <4> QED
        BY <3>1, <4>3, <4>4
    <3>2. CASE ~Wanted
      <4>1. \A s \in open : FALSE
        BY <1>1, <2>2, <2>4, <3>2 DEF SourcesInv
      <4> HIDE DEF open
      <4>2. open = {}
        BY <4>1
      <4> QED
        BY <3>2, <4>2, FS_EmptySet
    <3> QED
      BY <3>1, <3>2
  <2> HIDE DEF open
  <2>6. /\ Cardinality(open) = IF page.mounted /\ page.connection # "disconnected" THEN 1 ELSE 0
        /\ \A s \in Streams : conn[s].active <=> s \in open
        /\ \A s \in open : page.connection = "live" <=> conn[s].state = "opened"
    BY <2>2, <2>3, <2>5 DEF Wanted
  <2> QED
    BY <2>6 DEF SourcesAreTended, open
<1>3. LinesAreExact
  <2> DEFINE lines == page.lines
             n == Len(lines)
             mine(s) == {i \in 1..n : lines[i].source = s}
  <2>1. /\ n <= MaxLines
        /\ \A i \in 1..n : lines[i].key = page.nextKey - n + i
        /\ \A i \in 1..(n - 1) :
             \/ /\ lines[i].source = lines[i+1].source
                /\ lines[i].to < lines[i+1].from
                /\ NothingBetween(lines[i].to + 1, lines[i+1].from - 1)
             \/ ~conn[lines[i].source].active
    BY <1>1 DEF LinesInv
  <2>2. ASSUME NEW s \in Streams, conn[s].active
        PROVE  /\ mine(s) # {} => n \in mine(s) /\ NothingBetween(lines[n].to + 1, conn[s].heard)
               /\ n = 0 /\ page.nextKey = 0 => NothingBetween(1, conn[s].heard)
    <3>1. HeardOf(s)
      BY <1>1, <2>2 DEF LinesInv
    <3>2. n \in Nat
      BY LineTypes
    <3>3. mine(s) # {} => n \in 1..n
      BY <3>2
    <3> QED
      BY <3>1, <3>3 DEF HeardOf
  <2> HIDE DEF lines, n
  <2> QED
    BY <2>1, <2>2 DEF LinesAreExact, lines, n
<1> QED
  BY <1>2, <1>3

(* The invariant of the page, its sources, the wires and the streams holds *)
(* in every state, for all limits and all events a gateway may report.     *)
THEOREM PageInductive == PageSpec => []PageInv
<1>1. PageInit => PageInv
  BY PageInitOK
<1>2. PageInv /\ [PageNext]_pageVars => PageInv'
  BY PageNextOK
<1> QED
  BY <1>1, <1>2, PTL DEF PageSpec

(* The effect of PersonalLiveConsolePage: one source exactly while the     *)
(* page wants one, and a badge that is true.                               *)
THEOREM PageTendsSources == PageSpec => []SourcesAreTended
<1>1. PageInv => SourcesAreTended
  BY PageInvImplies
<1> QED
  BY <1>1, PageInductive, PTL

(* append() behind pump() and queueEvent(): the lines of a tab follow each *)
(* other without an unreported hole, from the event that was published to  *)
(* the line that is shown.                                                 *)
THEOREM PageShowsEverything == PageSpec => []LinesAreExact
<1>1. PageInv => LinesAreExact
  BY PageInvImplies
<1> QED
  BY <1>1, PageInductive, PTL

=============================================================================
