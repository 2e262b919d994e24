------------------------------ MODULE DemoProofs ------------------------------
(***************************************************************************)
(* Proofs about the public demo: its conversation, for every number of     *)
(* prompts, deltas and events in a chunk, and the limiter and the tokens   *)
(* that guard it, for every set of names and all limits that fit the map.  *)
(* The two share no state and no definition.                               *)
(***************************************************************************)
EXTENDS DemoChat, DemoTokens, DataProofs



-----------------------------------------------------------------------------
(* The texts of an answer.                                                 *)

Texts == [Fields -> Seq(Nat)]

LEMMA WithTyped ==
  ASSUME NEW f \in Fields, NEW ds \in Seq(Deltas), NEW before \in Nat
  PROVE  With(f, ds, before) \in SUBSET Nat /\ IsFiniteSet(With(f, ds, before))
<1>1. Len(ds) \in Nat
  BY LenProperties
<1>2. With(f, ds, before) \in SUBSET (before + 1..before + Len(ds))
  BY DEF With
<1>3. IsFiniteSet(before + 1..before + Len(ds))
  BY <1>1, FS_Interval
<1>4. before + 1..before + Len(ds) \in SUBSET Nat
  BY <1>1
<1> QED
  BY <1>2, <1>3, <1>4, FS_Subset

LEMMA TextTyped ==
  ASSUME NEW ds \in Seq(Deltas), NEW before \in Nat
  PROVE  TextBehind(before, ds) \in Texts
<1>1. \A f \in Fields : Ascending(With(f, ds, before)) \in Seq(Nat)
  BY WithTyped, AscendingTyped
<1> QED
  BY <1>1 DEF TextBehind, Texts

LEMMA NoText ==
  ASSUME NEW before \in Nat
  PROVE  TextBehind(before, <<>>) = Empty
<1>1. ASSUME NEW f \in Fields PROVE Ascending(With(f, <<>>, before)) = <<>>
  <2>1. With(f, <<>>, before) = {}
    BY DEF With
  <2>2. Cardinality({}) = 0 /\ 1..0 = {}
    BY FS_EmptySet
  <2> QED
    BY <2>1, <2>2 DEF Ascending
<1> QED
  BY <1>1 DEF TextBehind, Empty

LEMMA EmptyTyped == Empty \in Texts
BY DEF Empty, Texts

LEMMA JoinedProperties ==
  ASSUME NEW a \in Texts, NEW b \in Texts, NEW c \in Texts
  PROVE  /\ Joined(a, b) \in Texts
         /\ Joined(Joined(a, b), c) = Joined(a, Joined(b, c))
         /\ Joined(a, Empty) = a
<1>1. \A f \in Fields : a[f] \in Seq(Nat) /\ b[f] \in Seq(Nat) /\ c[f] \in Seq(Nat)
  BY DEF Texts
<1>2. \A f \in Fields : a[f] \o b[f] \in Seq(Nat)
  BY <1>1, ConcatProperties
<1>3. \A f \in Fields : (a[f] \o b[f]) \o c[f] = a[f] \o (b[f] \o c[f])
  <2> TAKE f \in Fields
  <2>1. a[f] \in Seq(Nat) /\ b[f] \in Seq(Nat) /\ c[f] \in Seq(Nat)
    BY <1>1
  <2> DEFINE s == a[f]
             t == b[f]
             u == c[f]
  <2> HIDE DEF s, t, u
  <2>2. s \in Seq(Nat) /\ t \in Seq(Nat) /\ u \in Seq(Nat)
    BY <2>1 DEF s, t, u
  <2>3. (s \o t) \o u = s \o (t \o u)
    BY <2>2
  <2> QED
    BY <2>3 DEF s, t, u
<1>4. \A f \in Fields : a[f] \o <<>> = a[f]
  BY <1>1, ConcatEmptySeq
<1>5. Joined(a, b) \in Texts
  BY <1>2 DEF Joined, Texts
<1>6. Joined(Joined(a, b), c) = Joined(a, Joined(b, c))
  BY <1>3 DEF Joined
<1>7. Joined(a, Empty) = a
  <2>1. a = [f \in Fields |-> a[f]]
    BY DEF Texts
  <2>2. Joined(a, Empty) = [f \in Fields |-> a[f] \o <<>>]
    BY DEF Joined, Empty
  <2> QED
    BY <1>4, <2>1, <2>2
<1> QED
  BY <1>5, <1>6, <1>7

(* The text of an answer is that of its first deltas with that of the      *)
(* deltas behind them.                                                     *)
LEMMA TextGrows ==
  ASSUME NEW ds \in Seq(Deltas), NEW more \in Seq(Deltas)
  PROVE  Text(ds \o more) = Joined(Text(ds), TextBehind(Len(ds), more))
<1> DEFINE n == Len(ds)
           k == Len(more)
           all == ds \o more
<1>1. n \in Nat /\ k \in Nat
  BY LenProperties
<1>2. Len(all) = n + k /\ \A i \in 1..n + k : all[i] = IF i <= n THEN ds[i] ELSE more[i - n]
  BY ConcatProperties
<1> HIDE DEF all, n, k
<1>3. ASSUME NEW f \in Fields
      PROVE  Ascending(With(f, all, 0)) = Ascending(With(f, ds, 0)) \o Ascending(With(f, more, n))
  <2>1. /\ With(f, ds, 0) \in SUBSET Nat /\ IsFiniteSet(With(f, ds, 0))
        /\ With(f, more, n) \in SUBSET Nat /\ IsFiniteSet(With(f, more, n))
    BY <1>1, WithTyped
  <2>2. With(f, ds, 0) = {i \in 1..n : ds[i] \in {f, "both"}}
    BY <1>1 DEF With, n
  <2>3. With(f, more, n) = {i \in n + 1..n + k : more[i - n] \in {f, "both"}}
    BY DEF With, k
  <2>4. With(f, all, 0) = {i \in 1..n + k : all[i] \in {f, "both"}}
    BY <1>1, <1>2 DEF With
  <2>5. \A a \in With(f, ds, 0), b \in With(f, more, n) : a < b
    BY <1>1, <2>2, <2>3
  <2>6. With(f, all, 0) = With(f, ds, 0) \union With(f, more, n)
    <3>1. ASSUME NEW i \in 1..n PROVE i \in 1..n + k /\ i \notin n + 1..n + k /\ all[i] = ds[i]
      BY <1>1, <1>2
    <3>2. ASSUME NEW i \in n + 1..n + k PROVE i \in 1..n + k /\ i \notin 1..n /\ all[i] = more[i - n]
      BY <1>1, <1>2
    <3>3. \A i \in 1..n + k : i \in 1..n \/ i \in n + 1..n + k
      BY <1>1
    <3> QED
      BY <2>2, <2>3, <2>4, <3>1, <3>2, <3>3
  <2> QED
    BY <2>1, <2>5, <2>6, AscendingJoins
<1>4. Text(all) = [f \in Fields |-> Ascending(With(f, all, 0))]
  BY DEF Text, TextBehind
<1>5. Joined(Text(ds), TextBehind(n, more)) =
        [f \in Fields |-> Ascending(With(f, ds, 0)) \o Ascending(With(f, more, n))]
  BY DEF Joined, Text, TextBehind
<1>6. Text(all) = Joined(Text(ds), TextBehind(n, more))
  BY <1>3, <1>4, <1>5
<1> QED
  BY <1>6 DEF all, n

-----------------------------------------------------------------------------
(* The inductive invariant.                                                *)

Messages ==
  [role : {"user", "assistant"}, text : Texts,
   status : {"complete", "streaming", "stopped", "failed"}]

Types ==
  /\ messages \in Seq(Messages)
  /\ received \in Seq(Seq(Deltas)) /\ Len(received) = Len(messages)
  /\ isStreaming \in BOOLEAN /\ completed \in BOOLEAN /\ aborted \in BOOLEAN
  /\ frame \in BOOLEAN /\ mounted \in BOOLEAN
  /\ phase \in {"idle", "fetching", "reading"}
  /\ buffer \in Texts
  /\ bodies \in SUBSET (0..Len(messages))

(* While a stream runs its answer is the last message, and nothing waits   *)
(* for a frame when none does.                                             *)
Busy ==
  /\ phase = "idle" => ~frame /\ buffer = Empty
  /\ phase # "idle" => Current # 0 /\ messages[Current].role = "assistant"
  /\ frame => phase # "idle"
  /\ mounted => /\ isStreaming <=> phase # "idle"
                /\ \A i \in 1..Current :
                     messages[i].status = "streaming" <=> isStreaming /\ i = Current
  /\ ~mounted /\ phase # "idle" => aborted

Transcript ==
  mounted => \A i \in 1..Current :
    messages[i].role = "assistant" =>
      Text(received[i]) =
        IF messages[i].status = "streaming" THEN Joined(messages[i].text, buffer)
        ELSE messages[i].text

Bodies ==
  /\ aborted => Current \notin bodies \ {0}
  /\ \A answer \in bodies \ {0} :
       \/ phase = "reading" /\ answer = Current
       \/ mounted => messages[answer].status = "failed"
  /\ phase = "reading" /\ ~aborted => Current \in bodies

IInv == Types /\ Busy /\ Transcript /\ Bodies

LEMMA InitIInv == Init => IInv
<1> SUFFICES ASSUME Init PROVE IInv
  OBVIOUS
<1>1. /\ messages = <<>> /\ received = <<>> /\ bodies = {} /\ phase = "idle"
      /\ isStreaming = FALSE /\ completed = FALSE /\ aborted = FALSE
      /\ frame = FALSE /\ mounted = TRUE /\ buffer = Empty
  BY DEF Init
<1>2. Current = 0 /\ 1..Current = {}
  BY <1>1 DEF Current
<1>3. Types
  <2>1. messages \in Seq(Messages) /\ received \in Seq(Seq(Deltas)) /\ Len(received) = Len(messages)
    BY <1>1, EmptySeq
  <2> QED
    BY <1>1, <2>1, EmptyTyped DEF Types
<1> QED
  BY <1>1, <1>2, <1>3 DEF IInv, Busy, Transcript, Bodies

-----------------------------------------------------------------------------
(* What an update of the last message leaves as it is.                     *)

Statuses == {"complete", "streaming", "stopped", "failed"}

LEMMA MessageTyped ==
  ASSUME Types, NEW i \in 1..Current
  PROVE  /\ Current \in Nat
         /\ messages[i] \in Messages
         /\ received[i] \in Seq(Deltas)
<1>1. Current \in Nat /\ Len(received) = Current
  BY LenProperties DEF Types, Current
<1>2. messages[i] \in Messages
  BY ElementOfSeq DEF Types, Current
<1>3. received[i] \in Seq(Deltas)
  BY <1>1, ElementOfSeq DEF Types
<1> QED
  BY <1>1, <1>2, <1>3

LEMMA AppendedIs ==
  ASSUME Types, Current # 0, NEW pending \in Texts
  PROVE  LET ms == Appended(pending)
         IN /\ ms \in Seq(Messages) /\ Len(ms) = Current
            /\ \A i \in 1..Current : i # Current => ms[i] = messages[i]
            /\ ms[Current].role = messages[Current].role
            /\ ms[Current].text = Joined(messages[Current].text, pending)
            /\ ms[Current].status = messages[Current].status
<1> DEFINE ms == Appended(pending)
           last == messages[Current]
           text == Joined(last.text, pending)
           new == [last EXCEPT !.text = text]
<1>1. Current \in Nat /\ Current \in 1..Current
  BY LenProperties DEF Types, Current
<1>2. last \in Messages
  BY <1>1, MessageTyped
<1>3. last.text \in Texts
  BY <1>2 DEF Messages
<1>4. text \in Texts
  BY <1>3, JoinedProperties
<1> HIDE DEF text
<1>5. new \in Messages /\ new.role = last.role /\ new.text = text /\ new.status = last.status
  BY <1>2, <1>4 DEF Messages
<1>6. messages \in Seq(Messages) /\ Len(messages) = Current
  BY DEF Types, Current
<1>7. ms = [messages EXCEPT ![Current] = new]
  BY DEF Appended, text
<1> HIDE DEF new, ms
<1>8. ms \in Seq(Messages) /\ Len(ms) = Current
  BY <1>1, <1>5, <1>6, <1>7, ExceptSeq
<1>9. ms[Current] = new /\ \A i \in 1..Current : i # Current => ms[i] = messages[i]
  BY <1>1, <1>6, <1>7, ExceptSeq
<1> QED
  BY <1>5, <1>8, <1>9 DEF ms, text

LEMMA WithStatusIs ==
  ASSUME Types, Current # 0, NEW ms \in Seq(Messages), Len(ms) = Current,
         NEW status \in Statuses
  PROVE  LET ns == WithStatus(ms, status)
         IN /\ ns \in Seq(Messages) /\ Len(ns) = Current
            /\ \A i \in 1..Current : i # Current => ns[i] = ms[i]
            /\ ns[Current].role = ms[Current].role
            /\ ns[Current].text = ms[Current].text
            /\ ns[Current].status = status
<1> DEFINE ns == WithStatus(ms, status)
           last == ms[Current]
           new == [last EXCEPT !.status = status]
<1>1. Current \in Nat /\ Current \in 1..Current
  BY LenProperties DEF Types, Current
<1>2. last \in Messages
  BY <1>1, ElementOfSeq
<1>3. new \in Messages /\ new.role = last.role /\ new.text = last.text /\ new.status = status
  BY <1>2 DEF Messages, Statuses
<1>4. ns = [ms EXCEPT ![Current] = new]
  BY DEF WithStatus
<1> HIDE DEF new, ns
<1>5. ns \in Seq(Messages) /\ Len(ns) = Current
  BY <1>1, <1>3, <1>4, ExceptSeq
<1>6. ns[Current] = new /\ \A i \in 1..Current : i # Current => ns[i] = ms[i]
  BY <1>1, <1>4, ExceptSeq
<1> QED
  BY <1>3, <1>5, <1>6 DEF ns

(* What a chunk adds to what was received, and to the text that waits.     *)
LEMMA HeardIs ==
  ASSUME Types, Current # 0, NEW deltas \in Seq(Deltas),
         received' = [received EXCEPT ![Current] = @ \o deltas]
  PROVE  /\ received' \in Seq(Seq(Deltas)) /\ Len(received') = Current
         /\ \A i \in 1..Current : i # Current => received'[i] = received[i]
         /\ Pending(deltas) \in Texts
         /\ \A text \in Texts :
              Text(received[Current]) = Joined(text, buffer)
                => Text(received'[Current]) = Joined(text, Pending(deltas))
<1> DEFINE old == received[Current]
           new == old \o deltas
           more == TextBehind(Len(old), deltas)
<1>1. Current \in Nat /\ Current \in 1..Current
  BY LenProperties DEF Types, Current
<1>2. old \in Seq(Deltas)
  BY <1>1, MessageTyped
<1>3. new \in Seq(Deltas) /\ Len(old) \in Nat
  BY <1>2, ConcatProperties, LenProperties
<1>4. received \in Seq(Seq(Deltas)) /\ Len(received) = Current
  BY DEF Types, Current
<1>5. received' = [received EXCEPT ![Current] = new]
  OBVIOUS
<1>6. Text(new) = Joined(Text(old), more)
  BY <1>2, TextGrows
<1>7. more \in Texts /\ buffer \in Texts
  BY <1>3, TextTyped DEF Types
<1>8. Pending(deltas) = Joined(buffer, more)
  BY DEF Pending
<1> HIDE DEF old, new, more
<1>9. received' \in Seq(Seq(Deltas)) /\ Len(received') = Current
  BY <1>1, <1>3, <1>4, <1>5, ExceptSeq
<1>10. received'[Current] = new /\ \A i \in 1..Current : i # Current => received'[i] = received[i]
  BY <1>1, <1>4, <1>5, ExceptSeq
<1>11. Pending(deltas) \in Texts
  BY <1>7, <1>8, JoinedProperties
<1>12. ASSUME NEW text \in Texts, Text(old) = Joined(text, buffer)
       PROVE  Text(new) = Joined(text, Pending(deltas))
  BY <1>6, <1>7, <1>8, <1>12, JoinedProperties
<1> QED
  BY <1>9, <1>10, <1>11, <1>12 DEF old

(* Nothing heard is an empty chunk. *)
LEMMA NothingHeard ==
  ASSUME Types, Current # 0, received' = received
  PROVE  received' = [received EXCEPT ![Current] = @ \o <<>>] /\ Pending(<<>>) = buffer
<1>1. Current \in Nat /\ Current \in 1..Current
  BY LenProperties DEF Types, Current
<1>2. received[Current] \in Seq(Deltas)
  BY <1>1, MessageTyped
<1>3. received[Current] \o <<>> = received[Current] /\ Len(received[Current]) \in Nat
  BY <1>2, ConcatEmptySeq, LenProperties
<1>4. Pending(<<>>) = buffer
  BY <1>3, NoText, JoinedProperties DEF Pending, Types
<1>5. [received EXCEPT ![Current] = received[Current]] = received
  BY DEF Types
<1> QED
  BY <1>3, <1>4, <1>5

-----------------------------------------------------------------------------
(* The end of a stream. *)

LEMMA FinishKeeps ==
  ASSUME IInv, phase # "idle", NEW deltas \in Seq(Deltas),
         received' = [received EXCEPT ![Current] = @ \o deltas],
         NEW status \in {"complete", "stopped", "failed"},
         Finish(Pending(deltas), status),
         bodies' \in SUBSET (bodies \union {Current}),
         Current \in bodies' => ~aborted /\ status = "failed"
  PROVE  IInv'
<1> DEFINE pending == Pending(deltas)
           ms == Appended(pending)
           ns == WithStatus(ms, status)
<1>1. Types /\ Busy /\ Transcript /\ Bodies
  BY DEF IInv
<1>2. Current \in Nat /\ Current # 0 /\ Current \in 1..Current /\ messages[Current].role = "assistant"
  <2>1. Current # 0 /\ messages[Current].role = "assistant"
    BY <1>1 DEF Busy
  <2>2. Current \in Nat
    BY <1>1, LenProperties DEF Types, Current
  <2> QED
    BY <2>1, <2>2
<1>3. /\ received' \in Seq(Seq(Deltas)) /\ Len(received') = Current
      /\ \A i \in 1..Current : i # Current => received'[i] = received[i]
      /\ pending \in Texts
      /\ \A text \in Texts :
           Text(received[Current]) = Joined(text, buffer)
             => Text(received'[Current]) = Joined(text, pending)
  BY <1>1, <1>2, HeardIs
<1>4. /\ messages' = IF mounted THEN ns ELSE messages
      /\ buffer' = Empty /\ frame' = FALSE
      /\ isStreaming' = IF mounted THEN FALSE ELSE isStreaming
      /\ phase' = "idle"
      /\ UNCHANGED <<completed, aborted, mounted>>
  BY DEF Finish, Show
<1> HIDE DEF pending
<1>5. /\ ms \in Seq(Messages) /\ Len(ms) = Current
      /\ \A i \in 1..Current : i # Current => ms[i] = messages[i]
      /\ ms[Current].role = messages[Current].role
      /\ ms[Current].text = Joined(messages[Current].text, pending)
  BY <1>1, <1>2, <1>3, AppendedIs
<1> HIDE DEF ms
<1>6. /\ ns \in Seq(Messages) /\ Len(ns) = Current
      /\ \A i \in 1..Current : i # Current => ns[i] = messages[i]
      /\ ns[Current].role = messages[Current].role
      /\ ns[Current].text = Joined(messages[Current].text, pending)
      /\ ns[Current].status = status
  BY <1>1, <1>2, <1>5, WithStatusIs DEF Statuses
<1> HIDE DEF ns
<1>7. messages' \in Seq(Messages) /\ Len(messages') = Current /\ Current' = Current
  BY <1>1, <1>4, <1>6 DEF Types, Current
<1>8. Types'
  <2>1. bodies' \in SUBSET (0..Current)
    BY <1>1, <1>2 DEF Types, Current
  <2> QED
    BY <1>1, <1>3, <1>4, <1>7, <2>1, EmptyTyped DEF Types, Current
<1>9. Busy'
  <2>1. ASSUME mounted, NEW i \in 1..Current PROVE messages'[i].status # "streaming"
    <3>1. CASE i = Current
      BY <1>4, <1>6, <2>1, <3>1
    <3>2. CASE i # Current
      BY <1>1, <1>4, <1>6, <2>1, <3>2 DEF Busy
    <3> QED
      BY <3>1, <3>2
  <2> QED
    BY <1>4, <1>7, <2>1 DEF Busy
<1>10. Transcript'
  <2> SUFFICES ASSUME mounted, NEW i \in 1..Current, ns[i].role = "assistant"
               PROVE  /\ ns[i].status # "streaming"
                      /\ Text(received'[i]) = ns[i].text
    BY <1>4, <1>7 DEF Transcript
  <2>1. CASE i = Current
    <3>1. messages[Current].status = "streaming"
      BY <1>1, <1>2 DEF Busy
    <3>2. Text(received[Current]) = Joined(messages[Current].text, buffer)
      BY <1>1, <1>2, <3>1 DEF Transcript
    <3>3. messages[Current].text \in Texts
      BY <1>1, <1>2, MessageTyped DEF Messages
    <3> QED
      BY <1>3, <1>6, <2>1, <3>2, <3>3
  <2>2. CASE i # Current
    <3>1. messages[i].status # "streaming" /\ messages[i].role = "assistant"
      BY <1>1, <1>6, <2>2 DEF Busy
    <3>2. Text(received[i]) = messages[i].text
      BY <1>1, <3>1 DEF Transcript
    <3> QED
      BY <1>3, <1>6, <2>2, <3>1, <3>2
  <2> QED
    BY <2>1, <2>2
<1>11. Bodies'
  <2>1. aborted => Current \notin bodies' \ {0}
    OBVIOUS
  <2>2. ASSUME NEW answer \in bodies' \ {0}, mounted
        PROVE  ns[answer].status = "failed"
    <3>1. CASE answer = Current
      BY <1>6, <3>1
    <3>2. CASE answer # Current
      <4>1. answer \in bodies \ {0} /\ answer \in 1..Current
        BY <1>1, <1>2, <3>2 DEF Types, Current
      <4>2. messages[answer].status = "failed"
        BY <1>1, <2>2, <3>2, <4>1 DEF Bodies
      <4> QED
        BY <1>6, <3>2, <4>1, <4>2
    <3> QED
      BY <3>1, <3>2
  <2> QED
    BY <1>4, <1>7, <2>1, <2>2 DEF Bodies
<1> QED
  BY <1>8, <1>9, <1>10, <1>11 DEF IInv

(* The events before the first that ends the answer are deltas. *)
LEMMA DeltasBeforeTheEnd ==
  ASSUME NEW events \in Chunks
  PROVE  DeltasOf(events) \in Seq(Deltas)
<1> DEFINE stops == {i \in DOMAIN events : events[i] \in {"done", "error"}}
           n == StopsAt(events)
<1>1. PICK k \in Nat : events \in [1..k -> Events]
  BY DEF Chunks
<1>2. events \in Seq(Events) /\ Len(events) = k /\ DOMAIN events = 1..k
  <2>1. events \in Seq(Events) /\ DOMAIN events = 1..k
    BY <1>1, SeqDef
  <2> QED
    BY <1>1, <2>1, LenProperties
<1>3. n \in 1..k + 1 /\ \A i \in 1..n - 1 : i \notin stops
  <2>1. CASE stops = {}
    <3>1. n = k + 1
      BY <1>2, <2>1 DEF StopsAt
    <3> QED
      BY <1>1, <2>1, <3>1
  <2>2. CASE stops # {}
    <3>1. stops \in SUBSET (1..k)
      BY <1>2
    <3>0. stops # {}
      BY <2>2
    <3>4. n = CHOOSE i \in stops : \A j \in stops : i <= j
      BY <2>2 DEF StopsAt
    <3> HIDE DEF stops, n
    <3>2. IsFiniteSet(stops)
      <4>1. IsFiniteSet(1..k)
        BY <1>1, FS_Interval
      <4> QED
        BY <3>1, <4>1, FS_Subset
    <3>3. \E i \in stops : \A j \in stops : i <= j
      BY <3>0, <3>1, <3>2, LeastNumber
    <3>5. n \in stops /\ \A j \in stops : n <= j
      BY <3>3, <3>4
    <3>6. n \in 1..k
      BY <3>1, <3>5
    <3>7. \A i \in 1..n - 1 : i \notin stops
      BY <1>1, <3>5, <3>6
    <3> QED
      BY <1>1, <3>6, <3>7
  <2> QED
    BY <2>1, <2>2
<1> HIDE DEF n
<1>4. \A i \in 1..n - 1 : i \in 1..k /\ events[i] \in Deltas
  <2> TAKE i \in 1..n - 1
  <2>1. i \in 1..k /\ i \notin stops
    BY <1>1, <1>3
  <2>2. events[i] \in Events /\ events[i] \notin {"done", "error"}
    BY <1>1, <1>2, <2>1
  <2> QED
    BY <2>1, <2>2 DEF Events
<1> HIDE DEF stops
<1>5. SubSeq(events, 1, n - 1) \in Seq(Deltas)
  BY <1>1, <1>3, <1>4, SubSeqProperties
<1> QED
  BY <1>5 DEF DeltasOf, n

-----------------------------------------------------------------------------
(* One lemma for each action. *)

LEMMA Lasts ==
  ASSUME IInv, phase # "idle"
  PROVE  /\ Types /\ Busy /\ Transcript /\ Bodies
         /\ Current \in Nat /\ Current # 0 /\ Current \in 1..Current
         /\ messages[Current].role = "assistant"
<1>1. Types /\ Busy /\ Transcript /\ Bodies
  BY DEF IInv
<1>2. Current \in Nat
  BY <1>1, LenProperties DEF Types, Current
<1> QED
  BY <1>1, <1>2 DEF Busy

LEMMA ReadTyped ==
  ASSUME NEW events \in Chunks
  PROVE  Read(events) \in Seq(Deltas)
<1>1. <<>> \in Seq(Deltas)
  BY EmptySeq
<1> QED
  BY <1>1, DeltasBeforeTheEnd DEF Read

LEMMA RejectsKeeps == ASSUME IInv, Rejects PROVE IInv'
<1>1. phase # "idle" /\ Finish(buffer, FailedStatus) /\ bodies' = bodies \ {Current}
      /\ received' = received
  BY DEF Rejects
<1>2. Types /\ Current # 0
  BY <1>1, Lasts
<1>3. received' = [received EXCEPT ![Current] = @ \o <<>>] /\ Pending(<<>>) = buffer
  BY <1>1, <1>2, NothingHeard
<1>4. <<>> \in Seq(Deltas)
  BY EmptySeq
<1>5. FailedStatus \in {"complete", "stopped", "failed"}
  BY DEF FailedStatus
<1>6. bodies' \in SUBSET (bodies \union {Current}) /\ Current \notin bodies'
  BY <1>1
<1>7. Finish(Pending(<<>>), FailedStatus)
  BY <1>1, <1>3
<1> QED
  BY <1>1, <1>3, <1>4, <1>5, <1>6, <1>7, FinishKeeps

LEMMA RefusedKeeps == ASSUME IInv, Refused PROVE IInv'
<1>1. phase # "idle" /\ Finish(buffer, FailedStatus) /\ bodies' = OpenUnlessAborted
      /\ received' = received
  BY DEF Refused
<1>2. Types /\ Bodies /\ Current # 0
  BY <1>1, Lasts
<1>3. received' = [received EXCEPT ![Current] = @ \o <<>>] /\ Pending(<<>>) = buffer
  BY <1>1, <1>2, NothingHeard
<1>4. <<>> \in Seq(Deltas)
  BY EmptySeq
<1>5. FailedStatus \in {"complete", "stopped", "failed"}
  BY DEF FailedStatus
<1>6. bodies' \in SUBSET (bodies \union {Current})
  BY <1>1 DEF OpenUnlessAborted
<1>7. Finish(Pending(<<>>), FailedStatus)
  BY <1>1, <1>3
<1>8. Current \in bodies' => ~aborted /\ FailedStatus = "failed"
  BY <1>1, <1>2 DEF OpenUnlessAborted, FailedStatus, Bodies
<1> QED
  BY <1>1, <1>3, <1>4, <1>5, <1>6, <1>7, <1>8, FinishKeeps

LEMMA EndKeeps ==
  ASSUME IInv, NEW events \in Chunks, End(events)
  PROVE  IInv'
<1> DEFINE deltas == Read(events)
           status == IF ~completed /\ Ending(events) = "error" THEN FailedStatus ELSE "complete"
<1>1. /\ phase # "idle" /\ bodies' = bodies \ {Current}
      /\ received' = [received EXCEPT ![Current] = @ \o deltas]
      /\ Finish(Pending(deltas), status)
  BY DEF End, Hear
<1>2. deltas \in Seq(Deltas)
  BY ReadTyped
<1>3. status \in {"complete", "stopped", "failed"}
  BY DEF FailedStatus
<1> HIDE DEF deltas, status
<1>4. bodies' \in SUBSET (bodies \union {Current}) /\ Current \notin bodies'
  BY <1>1
<1> QED
  BY <1>1, <1>2, <1>3, <1>4, FinishKeeps

LEMMA ChunkKeeps ==
  ASSUME IInv, NEW events \in Chunks, Chunk(events)
  PROVE  IInv'
<1> DEFINE deltas == Read(events)
           pending == Pending(deltas)
<1>1. /\ phase = "reading" /\ bodies' = bodies
      /\ received' = [received EXCEPT ![Current] = @ \o deltas]
      /\ \/ Finish(pending, FailedStatus)
         \/ /\ buffer' = pending
            /\ frame' = (frame \/ deltas # <<>>)
            /\ completed' = (completed \/ Ending(events) = "done")
            /\ UNCHANGED <<messages, isStreaming, phase, aborted, mounted>>
  BY DEF Chunk, Hear
<1>2. deltas \in Seq(Deltas)
  BY ReadTyped
<1>3. /\ Types /\ Busy /\ Transcript /\ Bodies
      /\ Current \in Nat /\ Current # 0 /\ Current \in 1..Current
      /\ messages[Current].role = "assistant"
  BY <1>1, Lasts
<1> HIDE DEF deltas
<1>4. CASE Finish(pending, FailedStatus)
  <2>1. FailedStatus \in {"complete", "stopped", "failed"}
    BY DEF FailedStatus
  <2>2. Current \in bodies' => ~aborted /\ FailedStatus = "failed"
    BY <1>1, <1>3 DEF FailedStatus, Bodies
  <2>3. bodies' \in SUBSET (bodies \union {Current})
    BY <1>1
  <2> QED
    BY <1>1, <1>2, <1>4, <2>1, <2>2, <2>3, FinishKeeps
<1>5. CASE /\ buffer' = pending
           /\ frame' = (frame \/ deltas # <<>>)
           /\ completed' = (completed \/ Ending(events) = "done")
           /\ UNCHANGED <<messages, isStreaming, phase, aborted, mounted>>
  <2>1. /\ received' \in Seq(Seq(Deltas)) /\ Len(received') = Current
        /\ \A i \in 1..Current : i # Current => received'[i] = received[i]
        /\ pending \in Texts
        /\ \A text \in Texts :
             Text(received[Current]) = Joined(text, buffer)
               => Text(received'[Current]) = Joined(text, pending)
    BY <1>1, <1>2, <1>3, HeardIs
  <2>2. Current' = Current
    BY <1>5 DEF Current
  <2> HIDE DEF pending
  <2>3. Types'
    BY <1>1, <1>3, <1>5, <2>1, <2>2 DEF Types, Current
  <2>4. Busy'
    BY <1>1, <1>3, <1>5, <2>2 DEF Busy
  <2>5. Transcript'
    <3> SUFFICES ASSUME mounted, NEW i \in 1..Current, messages[i].role = "assistant"
                 PROVE  Text(received'[i]) =
                          IF messages[i].status = "streaming" THEN Joined(messages[i].text, pending)
                          ELSE messages[i].text
      BY <1>5, <2>2 DEF Transcript
    <3>1. messages[i].status = "streaming" <=> i = Current
      BY <1>1, <1>3 DEF Busy
    <3>2. CASE i = Current
      <4>1. Text(received[Current]) = Joined(messages[Current].text, buffer)
        BY <1>3, <3>1, <3>2 DEF Transcript
      <4>2. messages[Current].text \in Texts
        BY <1>3, MessageTyped DEF Messages
      <4> QED
        BY <2>1, <3>1, <3>2, <4>1, <4>2
    <3>3. CASE i # Current
      BY <1>3, <2>1, <3>1, <3>3 DEF Transcript
    <3> QED
      BY <3>2, <3>3
  <2>6. Bodies'
    BY <1>1, <1>3, <1>5, <2>2 DEF Bodies
  <2> QED
    BY <2>3, <2>4, <2>5, <2>6 DEF IInv
<1> QED
  BY <1>1, <1>4, <1>5

LEMMA SubmitKeeps == ASSUME IInv, Submit PROVE IInv'
<1> DEFINE user == [role |-> "user", text |-> Empty, status |-> "complete"]
           answer == [role |-> "assistant", text |-> Empty, status |-> "streaming"]
           ms == messages \o <<user, answer>>
           rs == received \o <<<<>>, <<>>>>
           n == Current
<1>1. /\ mounted /\ ~isStreaming
      /\ messages' = ms /\ received' = rs
      /\ isStreaming' = TRUE /\ phase' = "fetching" /\ completed' = FALSE /\ aborted' = FALSE
      /\ buffer' = Empty /\ frame' = FALSE
      /\ UNCHANGED <<mounted, bodies>>
  BY DEF Submit
<1>2. /\ Types /\ Busy /\ Transcript /\ Bodies /\ phase = "idle"
  BY <1>1 DEF IInv, Busy
<1>3. n \in Nat /\ messages \in Seq(Messages) /\ received \in Seq(Seq(Deltas)) /\ Len(received) = n
      /\ Len(messages) = n
  BY <1>2, LenProperties DEF Types, Current
<1>4. user \in Messages /\ answer \in Messages /\ <<>> \in Seq(Deltas)
  BY EmptyTyped DEF Messages
<1>5. user.role = "user" /\ user.status = "complete" /\ answer.role = "assistant"
      /\ answer.status = "streaming" /\ answer.text = Empty
  OBVIOUS
<1> HIDE DEF user, answer, n
<1>6. ms \in Seq(Messages) /\ Len(ms) = n + 2
      /\ (\A i \in 1..n : ms[i] = messages[i]) /\ ms[n + 1] = user /\ ms[n + 2] = answer
  BY <1>3, <1>4
<1>7. rs \in Seq(Seq(Deltas)) /\ Len(rs) = n + 2
      /\ (\A i \in 1..n : rs[i] = received[i]) /\ rs[n + 1] = <<>> /\ rs[n + 2] = <<>>
  BY <1>3, <1>4
<1> HIDE DEF ms, rs
<1>8. Current' = n + 2 /\ \A i \in 1..n + 2 : i \in 1..n \/ i = n + 1 \/ i = n + 2
  BY <1>1, <1>3, <1>6 DEF Current
<1>9. \A i \in 1..n : messages[i].status # "streaming"
  BY <1>1, <1>2, <1>3 DEF Busy, n
<1>10. Types'
  <2>1. bodies \in SUBSET (0..n + 2)
    BY <1>2, <1>3 DEF Types
  <2> QED
    BY <1>1, <1>2, <1>6, <1>7, <2>1, EmptyTyped DEF Types
<1>11. Busy'
  <2>1. \A i \in 1..n + 2 : ms[i].status = "streaming" <=> i = n + 2
    BY <1>3, <1>5, <1>6, <1>8, <1>9
  <2>2. n + 2 # 0 /\ n + 2 \in 1..n + 2
    BY <1>3
  <2> QED
    BY <1>1, <1>5, <1>6, <1>8, <2>1, <2>2 DEF Busy
<1>12. Transcript'
  <2> SUFFICES ASSUME NEW i \in 1..n + 2, ms[i].role = "assistant"
               PROVE  Text(rs[i]) =
                        IF ms[i].status = "streaming" THEN Joined(ms[i].text, Empty) ELSE ms[i].text
    BY <1>1, <1>8 DEF Transcript
  <2>1. CASE i \in 1..n
    BY <1>1, <1>2, <1>6, <1>7, <1>9, <2>1 DEF Transcript, n
  <2>2. CASE i = n + 2
    <3>1. Text(<<>>) = Empty /\ Joined(Empty, Empty) = Empty
      BY NoText, EmptyTyped, JoinedProperties DEF Text
    <3> QED
      BY <1>5, <1>6, <1>7, <2>2, <3>1
  <2> QED
    BY <1>5, <1>6, <1>8, <2>1, <2>2
<1>13. Bodies'
  <2>1. ASSUME NEW a \in bodies \ {0} PROVE ms[a].status = "failed"
    <3>1. a \in 1..n
      BY <1>2, <1>3 DEF Types
    <3> QED
      BY <1>1, <1>2, <1>6, <3>1 DEF Bodies
  <2> QED
    BY <1>1, <2>1 DEF Bodies
<1> QED
  BY <1>10, <1>11, <1>12, <1>13 DEF IInv

LEMMA AnsweredKeeps == ASSUME IInv, Answered PROVE IInv'
<1>1. /\ phase = "fetching" /\ phase' = "reading" /\ bodies' = OpenUnlessAborted
      /\ UNCHANGED <<messages, isStreaming, completed, aborted, buffer, frame, mounted, received>>
  BY DEF Answered
<1>2. /\ Types /\ Busy /\ Transcript /\ Bodies
      /\ Current \in Nat /\ Current # 0 /\ Current \in 1..Current
  BY <1>1, Lasts
<1>3. Current' = Current
  BY <1>1 DEF Current
<1>4. Types'
  <2>1. bodies' \in SUBSET (0..Current)
    <3>1. bodies \in SUBSET (0..Current) /\ Current \in 0..Current
      BY <1>2 DEF Types, Current
    <3>2. bodies' \in SUBSET (bodies \union {Current})
      BY <1>1 DEF OpenUnlessAborted
    <3> QED
      BY <3>1, <3>2
  <2> QED
    BY <1>1, <1>2, <2>1 DEF Types, Current
<1>5. Busy'
  BY <1>1, <1>2, <1>3 DEF Busy
<1>6. Transcript'
  BY <1>1, <1>2, <1>3 DEF Transcript
<1>7. Bodies'
  BY <1>1, <1>2, <1>3 DEF Bodies, OpenUnlessAborted
<1> QED
  BY <1>4, <1>5, <1>6, <1>7 DEF IInv

LEMMA FrameKeeps == ASSUME IInv, Frame PROVE IInv'
<1> DEFINE ms == Appended(buffer)
<1>1. /\ frame /\ frame' = FALSE /\ buffer' = Empty
      /\ messages' = IF mounted THEN ms ELSE messages
      /\ UNCHANGED <<isStreaming, phase, completed, aborted, mounted, bodies, received>>
  BY DEF Frame, Show
<1>2. phase # "idle"
  BY <1>1 DEF IInv, Busy
<1>3. /\ Types /\ Busy /\ Transcript /\ Bodies
      /\ Current \in Nat /\ Current # 0 /\ Current \in 1..Current
      /\ messages[Current].role = "assistant"
  BY <1>2, Lasts
<1>4. buffer \in Texts
  BY <1>3 DEF Types
<1>5. /\ ms \in Seq(Messages) /\ Len(ms) = Current
      /\ \A i \in 1..Current : i # Current => ms[i] = messages[i]
      /\ ms[Current].role = messages[Current].role
      /\ ms[Current].text = Joined(messages[Current].text, buffer)
      /\ ms[Current].status = messages[Current].status
  BY <1>3, <1>4, AppendedIs
<1> HIDE DEF ms
<1>6. Current' = Current /\ messages' \in Seq(Messages)
  BY <1>1, <1>3, <1>5 DEF Current, Types
<1>7. \A i \in 1..Current : ms[i].status = messages[i].status /\ ms[i].role = messages[i].role
  BY <1>5
<1>8. Types'
  BY <1>1, <1>3, <1>6, EmptyTyped DEF Types, Current
<1>9. Busy'
  BY <1>1, <1>2, <1>3, <1>6, <1>7 DEF Busy
<1>10. Transcript'
  <2> SUFFICES ASSUME mounted, NEW i \in 1..Current, ms[i].role = "assistant"
               PROVE  Text(received[i]) =
                        IF ms[i].status = "streaming" THEN Joined(ms[i].text, Empty) ELSE ms[i].text
    BY <1>1, <1>6 DEF Transcript
  <2>1. messages[i].status = "streaming" <=> i = Current
    BY <1>2, <1>3 DEF Busy
  <2>2. CASE i = Current
    <3>1. Text(received[Current]) = Joined(messages[Current].text, buffer)
      BY <1>3, <2>1, <2>2 DEF Transcript
    <3>2. messages[Current].text \in Texts
      BY <1>3, MessageTyped DEF Messages
    <3>3. Joined(messages[Current].text, buffer) \in Texts
      BY <1>4, <3>2, JoinedProperties
    <3>4. Joined(Joined(messages[Current].text, buffer), Empty) = Joined(messages[Current].text, buffer)
      BY <3>3, JoinedProperties
    <3> QED
      BY <1>5, <2>1, <2>2, <3>1, <3>4
  <2>3. CASE i # Current
    BY <1>3, <1>5, <2>1, <2>3 DEF Transcript
  <2> QED
    BY <2>2, <2>3
<1>11. Bodies'
  <2>1. ASSUME NEW a \in bodies \ {0} PROVE a \in 1..Current
    BY <1>3 DEF Types, Current
  <2> QED
    BY <1>1, <1>3, <1>6, <1>7, <2>1 DEF Bodies
<1> QED
  BY <1>8, <1>9, <1>10, <1>11 DEF IInv

LEMMA StopKeeps == ASSUME IInv, Stop PROVE IInv'
<1>1. /\ phase # "idle" /\ aborted' = TRUE /\ bodies' = bodies \ {Current}
      /\ UNCHANGED <<messages, isStreaming, phase, completed, buffer, frame, mounted, received>>
  BY DEF Stop, Aborted
<1>2. Types /\ Busy /\ Transcript /\ Bodies
  BY <1>1, Lasts
<1>3. Current' = Current
  BY <1>1 DEF Current
<1>4. Types'
  BY <1>1, <1>2 DEF Types
<1>5. Busy'
  BY <1>1, <1>2, <1>3 DEF Busy
<1>6. Transcript'
  BY <1>1, <1>2, <1>3 DEF Transcript
<1>7. Bodies'
  BY <1>1, <1>2, <1>3 DEF Bodies
<1> QED
  BY <1>4, <1>5, <1>6, <1>7 DEF IInv

LEMMA UnmountKeeps == ASSUME IInv, Unmount PROVE IInv'
<1>1. /\ mounted /\ mounted' = FALSE /\ aborted' = (aborted \/ phase # "idle")
      /\ bodies' = IF phase # "idle" THEN bodies \ {Current} ELSE bodies
      /\ UNCHANGED <<messages, isStreaming, phase, completed, buffer, frame, received>>
  BY DEF Unmount, Aborted
<1>2. Types /\ Busy /\ Transcript /\ Bodies
  BY DEF IInv
<1>3. Current' = Current
  BY <1>1 DEF Current
<1>4. Types'
  BY <1>1, <1>2 DEF Types
<1>5. Busy'
  BY <1>1, <1>2, <1>3 DEF Busy
<1>6. Transcript'
  BY <1>1 DEF Transcript
<1>7. Bodies'
  BY <1>1, <1>2, <1>3 DEF Bodies
<1> QED
  BY <1>4, <1>5, <1>6, <1>7 DEF IInv

LEMMA StartNewConversationKeeps == ASSUME IInv, StartNewConversation PROVE IInv'
<1>1. /\ mounted /\ ~isStreaming
      /\ messages' = <<>> /\ received' = <<>> /\ bodies' \in SUBSET {0}
      /\ UNCHANGED <<isStreaming, mounted, phase, completed, aborted, buffer, frame>>
  BY DEF StartNewConversation, stream
<1>2. Types /\ Busy /\ phase = "idle"
  BY <1>1 DEF IInv, Busy
<1>3. Current' = 0 /\ 1..0 = {}
  BY <1>1 DEF Current
<1>4. Types'
  <2>1. messages' \in Seq(Messages) /\ received' \in Seq(Seq(Deltas)) /\ Len(received') = Len(messages')
        /\ Len(messages') = 0
    BY <1>1
  <2> QED
    BY <1>1, <1>2, <2>1 DEF Types
<1>5. Busy'
  BY <1>1, <1>2, <1>3 DEF Busy
<1>6. Transcript' /\ Bodies'
  BY <1>1, <1>2, <1>3 DEF Transcript, Bodies
<1> QED
  BY <1>4, <1>5, <1>6 DEF IInv

LEMMA BodyEndsKeeps == ASSUME IInv, BodyEnds PROVE IInv'
<1>1. PICK answer \in bodies : ~(phase = "reading" /\ answer = Current) /\ bodies' = bodies \ {answer}
  BY DEF BodyEnds
<1>2. UNCHANGED <<messages, isStreaming, mounted, received, phase, completed, aborted, buffer, frame>>
  BY DEF BodyEnds, stream
<1>3. Types /\ Busy /\ Transcript /\ Bodies
  BY DEF IInv
<1>4. Current' = Current
  BY <1>2 DEF Current
<1>5. Types'
  BY <1>1, <1>2, <1>3 DEF Types
<1>6. Busy' /\ Transcript'
  BY <1>2, <1>3, <1>4 DEF Busy, Transcript
<1>7. Bodies'
  BY <1>1, <1>2, <1>3, <1>4 DEF Bodies
<1> QED
  BY <1>5, <1>6, <1>7 DEF IInv

LEMMA NextIInv == IInv /\ [Next]_vars => IInv'
<1> SUFFICES ASSUME IInv, [Next]_vars PROVE IInv'
  OBVIOUS
<1>1. CASE BodyEnds
  BY <1>1, BodyEndsKeeps
<1>2. CASE Refused
  BY <1>2, RefusedKeeps
<1>3. CASE Submit
  BY <1>3, SubmitKeeps
<1>4. CASE Rejects
  BY <1>4, RejectsKeeps
<1>5. CASE Answered
  BY <1>5, AnsweredKeeps
<1>6. CASE Frame
  BY <1>6, FrameKeeps
<1>7. CASE Stop
  BY <1>7, StopKeeps
<1>8. CASE Unmount
  BY <1>8, UnmountKeeps
<1>9. CASE StartNewConversation
  BY <1>9, StartNewConversationKeeps
<1>10. ASSUME NEW events \in Chunks, Chunk(events) PROVE IInv'
  BY <1>10, ChunkKeeps
<1>11. ASSUME NEW events \in Chunks, End(events) PROVE IInv'
  BY <1>11, EndKeeps
<1>12. CASE UNCHANGED vars
  BY <1>12 DEF vars, IInv, Types, Busy, Transcript, Bodies, Current
<1> QED
  BY <1>1, <1>2, <1>3, <1>4, <1>5, <1>6, <1>7, <1>8, <1>9, <1>10, <1>11, <1>12 DEF Next

LEMMA Invariant == Spec => []IInv
<1>1. Init => IInv
  BY InitIInv
<1>2. IInv /\ [Next]_vars => IInv'
  BY NextIInv
<1> QED
  BY <1>1, <1>2, PTL DEF Spec

-----------------------------------------------------------------------------
(* Theorems. *)

LEMMA MessageNumbers == IInv => DOMAIN messages = 1..Current
BY LenProperties DEF IInv, Types, Current

(* For every number of prompts, deltas and events in a chunk: what is      *)
(* shown of an answer is what was received of it, field by field and in    *)
(* order, all of it once the answer ended and until then all but what      *)
(* waits for the frame (submitPrompt and its delta buffer).                *)
THEOREM TranscriptStaysExact == Spec => []TranscriptIsExact
<1>1. IInv => TranscriptIsExact
  BY MessageNumbers DEF IInv, Transcript, TranscriptIsExact
<1> QED
  BY <1>1, Invariant, PTL

(* The form is busy exactly while a stream runs, whose answer is the only  *)
(* message that streams, and a stream whose page is gone was aborted       *)
(* (submitPrompt, its finally block and the effect of the page).           *)
THEOREM FormIsBusyWhileStreaming == Spec => []BusyWhileStreaming
<1>1. IInv => BusyWhileStreaming
  <2> SUFFICES ASSUME IInv PROVE BusyWhileStreaming
    OBVIOUS
  <2>1. Types /\ Busy /\ DOMAIN messages = 1..Current /\ Current \in Nat
    BY MessageNumbers, LenProperties DEF IInv, Types, Current
  <2>2. ASSUME mounted
        PROVE  {i \in DOMAIN messages : messages[i].status = "streaming"} =
                 IF isStreaming THEN {Current} ELSE {}
    <3>1. \A i \in 1..Current : messages[i].status = "streaming" <=> isStreaming /\ i = Current
      BY <2>1, <2>2 DEF Busy
    <3>2. isStreaming => Current \in 1..Current
      BY <2>1, <2>2 DEF Busy
    <3> QED
      BY <2>1, <3>1, <3>2
  <2>3. mounted => (isStreaming <=> phase # "idle")
    BY <2>1 DEF Busy
  <2>4. ~mounted /\ phase # "idle" => aborted
    BY <2>1 DEF Busy
  <2> QED
    BY <2>2, <2>3, <2>4 DEF BusyWhileStreaming
<1> QED
  BY <1>1, Invariant, PTL

(* The response body of an answer is open only while it is read, unless    *)
(* the answer failed: no body survives a stop, a completion or the page    *)
(* (the signal of the fetch, and readDemoChatStream).                      *)
THEOREM BodiesAreClosed == Spec => []OnlyFailuresLeaveBodies
<1>1. IInv => OnlyFailuresLeaveBodies
  BY DEF IInv, Bodies, OnlyFailuresLeaveBodies
<1> QED
  BY <1>1, Invariant, PTL

-----------------------------------------------------------------------------
(* The limiter: the admissions of a limit within a span of time.           *)

Admissions == [at : Nat, nth : Nat, until : Nat]

UpTill(A, u) == {a \in A : a.until = u}

Since(A, time) == {a \in A : a.at > time}

(* The most admissions in a span of time. *)
Most(span, W, M) == (IF span <= W THEN 2 ELSE 3) * M

(* Every admission lies in its window, and windows of a limit do not meet. *)
Spaced(A, W, now) ==
  /\ \A a \in A : a.at <= now /\ a.at < a.until /\ a.until <= a.at + W
  /\ \A a, b \in A : a.until < b.until => a.until + W <= b.until

(* No window admits more than the maximum. *)
Grouped(A, M) == \A u \in Nat : Cardinality(UpTill(A, u)) <= M

LEMMA UnionIsFew ==
  ASSUME NEW A, NEW B, IsFiniteSet(A), IsFiniteSet(B), NEW m \in Nat, NEW n \in Nat,
         Cardinality(A) <= m, Cardinality(B) <= n
  PROVE  IsFiniteSet(A \union B) /\ Cardinality(A \union B) <= m + n
<1>1. /\ Cardinality(A) \in Nat /\ Cardinality(B) \in Nat /\ Cardinality(A \intersect B) \in Nat
  BY FS_CardinalityType, FS_Intersection
<1>2. /\ IsFiniteSet(A \union B)
      /\ Cardinality(A \union B) = Cardinality(A) + Cardinality(B) - Cardinality(A \intersect B)
  BY FS_Union
<1> QED
  BY <1>1, <1>2

LEMMA SpanHoldsFew ==
  ASSUME NEW A \in SUBSET Admissions, IsFiniteSet(A),
         NEW W \in Nat \ {0}, NEW M \in Nat \ {0}, NEW now \in Nat, NEW span \in Nat,
         Spaced(A, W, now), Grouped(A, M), span <= 2 * W
  PROVE  IsFiniteSet(Since(A, now - span)) /\ Cardinality(Since(A, now - span)) <= Most(span, W, M)
<1> DEFINE R == {a \in A : a.at > now - span}
           G(a) == UpTill(A, a.until)
           few == (IF span <= W THEN 2 ELSE 3) * M
<1> SUFFICES IsFiniteSet(R) /\ Cardinality(R) <= few
  BY DEF Since, Most
<1>1. IsFiniteSet(R) /\ R \subseteq A
  BY FS_Subset
<1>2. \A a \in A : a.at \in Nat /\ a.until \in Nat
  BY DEF Admissions
<1>3. ASSUME NEW a \in A PROVE IsFiniteSet(G(a)) /\ Cardinality(G(a)) \in Nat /\ Cardinality(G(a)) <= M
  <2>1. G(a) \in SUBSET A
    BY DEF UpTill
  <2> QED
    BY <1>2, <2>1, FS_Subset, FS_CardinalityType DEF Grouped
<1>4. \A a \in R : a \in A /\ a.until > now - span /\ a.until <= now + W
  BY <1>2 DEF Spaced
<1>5. \A a, b \in R : a.until # b.until => a.until + W <= b.until \/ b.until + W <= a.until
  <2> SUFFICES ASSUME NEW a \in R, NEW b \in R, a.until # b.until
               PROVE  a.until + W <= b.until \/ b.until + W <= a.until
    OBVIOUS
  <2>1. a.until < b.until \/ b.until < a.until
    BY <1>2
  <2> QED
    BY <2>1 DEF Spaced
<1>6. few \in Nat /\ 2 * M <= few /\ M <= few /\ 0 <= few
  OBVIOUS
<1>7. ASSUME NEW S, IsFiniteSet(S), R \subseteq S, NEW n \in Nat, Cardinality(S) <= n, n <= few
      PROVE  Cardinality(R) <= few
  <2>1. Cardinality(S) \in Nat /\ Cardinality(R) \in Nat /\ Cardinality(R) <= Cardinality(S)
    BY <1>7, <1>1, FS_Subset, FS_CardinalityType
  <2> QED
    BY <1>6, <1>7, <2>1
<1>8. CASE \A a \in R : FALSE
  <2>1. R = {}
    BY <1>8
  <2> QED
    BY <1>1, <1>6, <2>1, FS_EmptySet DEF R
<1>9. CASE \E a \in R : TRUE
  <2>1. PICK a \in R : TRUE
    BY <1>9
  <2>2. CASE R \subseteq G(a)
    BY <1>1, <1>3, <1>6, <1>7, <2>2
  <2>3. CASE \E b \in R : b \notin G(a)
    <3>1. PICK b \in R : b.until # a.until
      BY <2>3 DEF UpTill
    <3>2. IsFiniteSet(G(a) \union G(b)) /\ Cardinality(G(a) \union G(b)) <= M + M
      BY <1>1, <1>3, UnionIsFew
    <3>3. CASE R \subseteq G(a) \union G(b)
      BY <1>1, <1>6, <1>7, <3>2, <3>3
    <3>4. CASE \E c \in R : c \notin G(a) /\ c \notin G(b)
      <4>1. PICK c \in R : c.until # a.until /\ c.until # b.until
        BY <3>4 DEF UpTill
      <4> DEFINE x == a.until
                 y == b.until
                 z == c.until
      <4>2. /\ x \in Nat /\ y \in Nat /\ z \in Nat
            /\ x > now - span /\ y > now - span /\ z > now - span
            /\ x <= now + W /\ y <= now + W /\ z <= now + W
            /\ x + W <= y \/ y + W <= x
            /\ x + W <= z \/ z + W <= x
            /\ y + W <= z \/ z + W <= y
        BY <1>2, <1>4, <1>5, <3>1, <4>1
      <4>3. span > W
        <5> HIDE DEF x, y, z
        <5> QED
          BY <4>2
      <4>4. few = M + M + M
        BY <4>3
      <4>5. /\ IsFiniteSet((G(a) \union G(b)) \union G(c))
            /\ Cardinality((G(a) \union G(b)) \union G(c)) <= M + M + M
        <5> DEFINE P == G(a) \union G(b)
                   Q == G(c)
        <5>1. /\ IsFiniteSet(P) /\ Cardinality(P) <= M + M
              /\ IsFiniteSet(Q) /\ Cardinality(Q) <= M /\ M + M \in Nat
          BY <1>1, <1>3, <3>2
        <5> HIDE DEF P, Q
        <5>2. IsFiniteSet(P \union Q) /\ Cardinality(P \union Q) <= (M + M) + M
          BY <5>1, UnionIsFew
        <5> QED
          BY <5>2 DEF P, Q
      <4>6. R \subseteq (G(a) \union G(b)) \union G(c)
        <5> SUFFICES ASSUME NEW d \in R, d.until # x, d.until # y, d.until # z PROVE FALSE
          BY <1>1 DEF UpTill
        <5> DEFINE u == d.until
        <5>1. /\ u \in Nat /\ u > now - span /\ u <= now + W
              /\ x + W <= u \/ u + W <= x
              /\ y + W <= u \/ u + W <= y
              /\ z + W <= u \/ u + W <= z
          BY <1>2, <1>4, <1>5
        <5> HIDE DEF x, y, z, u
        <5> QED
          BY <4>2, <5>1
      <4> QED
        BY <1>1, <1>7, <4>4, <4>5, <4>6
    <3> QED
      BY <3>3, <3>4
  <2> QED
    BY <2>2, <2>3 DEF UpTill
<1> QED
  BY <1>1, <1>8, <1>9

-----------------------------------------------------------------------------
(* The limits and their keys.                                               *)

NameKinds == {"login", "registration"}
GlobalKinds == {"loginGlobal", "registrationGlobal", "issuance", "view"}
Globals == {Global(kind) : kind \in GlobalKinds}

Keys == {Key(l) : l \in Limited}

LEMMA LimitedProperties ==
  ASSUME NEW limit \in Limited
  PROVE  /\ limit.kind \in Kinds
         /\ Life(limit) \in Nat \ {0} /\ Maximum[limit.kind] \in Nat \ {0}
<1>1. limit.kind \in Kinds
  BY DEF Limited, Global, Of, Kinds
<1>2. \A kind \in DOMAIN Behind : Behind[kind] \in Kinds
  BY DEF Behind, Kinds
<1> QED
  BY <1>1, <1>2, LimitsAssumption DEF Life

LEMMA PrefixesAre ==
  /\ Prefix("loginGlobal") = "login" /\ Prefix("registrationGlobal") = "registration"
  /\ \A kind \in {"login", "registration", "issuance", "view"} : Prefix(kind) = kind
<1>1. DOMAIN Behind = {"login", "registration"}
  BY DEF Behind
<1>2. Behind["login"] = "loginGlobal" /\ Behind["registration"] = "registrationGlobal"
  BY DEF Behind
<1> QED
  BY <1>1, <1>2 DEF Prefix

(* Only limits that are about Everybody share a key, and windows of it     *)
(* last as long for each of them.                                          *)
LEMMA LimitsAndKeys ==
  /\ Globals \subseteq Limited
  /\ \A kind \in NameKinds, name \in Names :
       Of(kind, name) \in Limited /\ Of(kind, name).kind = kind /\ Of(kind, name).name = name
  /\ \A kind \in NameKinds :
       /\ Global(Behind[kind]) \in Globals /\ Global(Behind[kind]).kind = Behind[kind]
       /\ Key(Of(kind, Everybody)) = Key(Global(Behind[kind]))
       /\ Life(Of(kind, Everybody)) = Window[Behind[kind]]
  /\ \A l \in Globals : l.kind \notin NameKinds /\ l.name = Everybody /\ Life(l) = Window[l.kind]
  /\ \A l \in Limited : l.name # Everybody =>
       l.kind \in NameKinds /\ l = Of(l.kind, l.name) /\ Life(l) = Window[l.kind]
  /\ \A l \in Limited : l.name = Everybody => \E g \in Globals : Key(g) = Key(l)
  /\ \A l, m \in Limited : Key(l) = Key(m) =>
       Life(l) = Life(m) /\ (l.name # Everybody => l = m)
  /\ \A l \in Limited : Key(l).name = l.name /\ (l.kind \in NameKinds => Key(l).prefix = l.kind)
<1>1. Limited = Globals \union {Of(kind, name) : kind \in NameKinds, name \in Names}
  BY DEF Limited, Globals, GlobalKinds, NameKinds
<1>2. \A kind : Global(kind).kind = kind /\ Global(kind).name = Everybody
  BY DEF Global
<1>3. \A kind, name : Of(kind, name).kind = kind /\ Of(kind, name).name = name
  BY DEF Of
<1>4. /\ DOMAIN Behind = NameKinds
      /\ Behind["login"] = "loginGlobal" /\ Behind["registration"] = "registrationGlobal"
  BY DEF Behind, NameKinds
<1>5. NameKinds \intersect GlobalKinds = {} /\ \A kind \in NameKinds : Behind[kind] \in GlobalKinds
  BY <1>4 DEF NameKinds, GlobalKinds
<1>6. \A l : Key(l).name = l.name /\ Key(l).prefix = Prefix(l.kind)
  BY DEF Key
<1>7. \A l, m : Key(l) = Key(m) <=> Prefix(l.kind) = Prefix(m.kind) /\ l.name = m.name
  BY DEF Key
<1>8. \A kind \in NameKinds : Prefix(kind) = kind /\ Prefix(Behind[kind]) = kind
  BY <1>4, PrefixesAre DEF NameKinds
<1>9. \A l \in Globals : l.kind \in GlobalKinds /\ l.name = Everybody /\ l = Global(l.kind)
  BY <1>2 DEF Globals
<1>10. \A l \in Globals : Life(l) = Window[l.kind]
  BY <1>4, <1>5, <1>9 DEF Life
<1>11. \A kind \in NameKinds : Life(Of(kind, Everybody)) = Window[Behind[kind]]
  BY <1>3, <1>4 DEF Life
<1>12. \A l \in Limited :
         l \in Globals \/ \E name \in Names : l.kind \in NameKinds /\ l = Of(l.kind, name)
  BY <1>1, <1>3
<1>13. \A l \in Limited : l.name # Everybody =>
         l.kind \in NameKinds /\ l = Of(l.kind, l.name) /\ Life(l) = Window[l.kind]
  BY <1>3, <1>9, <1>12 DEF Life
<1>14. ASSUME NEW l \in Limited, l.name = Everybody
       PROVE  \E g \in Globals : Key(g) = Key(l) /\ Life(g) = Life(l)
  <2>1. CASE l \in Globals
    BY <2>1
  <2>2. CASE l.kind \in NameKinds /\ l = Of(l.kind, Everybody)
    <3>1. Global(Behind[l.kind]) \in Globals
      BY <1>5, <2>2 DEF Globals
    <3>2. Key(Global(Behind[l.kind])) = Key(l)
      BY <1>2, <1>3, <1>7, <1>8, <2>2
    <3>3. Life(Global(Behind[l.kind])) = Life(l)
      BY <1>2, <1>10, <1>11, <2>2, <3>1
    <3> QED
      BY <3>1, <3>2, <3>3
  <2> QED
    BY <1>3, <1>12, <1>14, <2>1, <2>2
<1>15. \A g, h \in Globals : Key(g) = Key(h) => g = h
  <2>1. \A k, m \in GlobalKinds : Prefix(k) = Prefix(m) => k = m
    BY PrefixesAre DEF GlobalKinds
  <2> QED
    BY <1>7, <1>9, <2>1
<1>16. ASSUME NEW l \in Limited, NEW m \in Limited, Key(l) = Key(m)
       PROVE  Life(l) = Life(m) /\ (l.name # Everybody => l = m)
  <2>1. l.name = m.name /\ Prefix(l.kind) = Prefix(m.kind)
    BY <1>7, <1>16
  <2>2. CASE l.name # Everybody
    <3>1. /\ l.kind \in NameKinds /\ l = Of(l.kind, l.name)
          /\ m.kind \in NameKinds /\ m = Of(m.kind, m.name)
      BY <1>13, <2>1, <2>2
    <3>2. l.kind = m.kind
      BY <1>8, <2>1, <3>1
    <3>3. l = m
      BY <2>1, <3>1, <3>2
    <3> QED
      BY <3>3
  <2>3. CASE l.name = Everybody
    <3>1. PICK g \in Globals : Key(g) = Key(l) /\ Life(g) = Life(l)
      BY <1>14, <2>3
    <3>2. PICK h \in Globals : Key(h) = Key(m) /\ Life(h) = Life(m)
      BY <1>14, <2>1, <2>3
    <3> QED
      BY <1>15, <1>16, <2>3, <3>1, <3>2
  <2> QED
    BY <2>2, <2>3
<1>17. Globals \subseteq Limited
       /\ \A kind \in NameKinds, name \in Names : Of(kind, name) \in Limited
  BY <1>1
<1>18. \A kind \in NameKinds :
         Global(Behind[kind]) \in Globals /\ Key(Of(kind, Everybody)) = Key(Global(Behind[kind]))
  BY <1>2, <1>3, <1>5, <1>7, <1>8 DEF Globals
<1>19. \A l \in Globals : l.kind \notin NameKinds
  BY <1>5, <1>9
<1>20. \A l \in Limited : l.name = Everybody => \E g \in Globals : Key(g) = Key(l)
  BY <1>14
<1>21. \A l, m \in Limited : Key(l) = Key(m) =>
         Life(l) = Life(m) /\ (l.name # Everybody => l = m)
  BY <1>16
<1>22. \A l : l.kind \in NameKinds => Key(l).prefix = l.kind
  BY <1>6, <1>8
<1> QED
  BY <1>2, <1>3, <1>6, <1>9, <1>10, <1>11, <1>13, <1>17, <1>18, <1>19, <1>20, <1>21, <1>22

-----------------------------------------------------------------------------
(* The admissions of a limit and the window in force of its key. *)

WindowRecords == [key : Keys, count : Nat \ {0}, resetAt : Nat]

Entries(ws) == {ws[i] : i \in DOMAIN ws}

Unique(ws) == \A i, j \in DOMAIN ws : ws[i].key = ws[j].key => i = j

Live(ws, key, now) == {w \in Entries(ws) : w.key = key /\ w.resetAt > now}

(* Admissions of the present have different numbers. *)
Numbered(A, now) ==
  \A a \in A : a.at = now => a.nth < Cardinality({b \in A : b.at = now})

(* A window in force has counted its admissions, and the others are older. *)
Followed(A, L, W, now) ==
  /\ \A w \in L : /\ Cardinality(UpTill(A, w.resetAt)) <= w.count
                  /\ now < w.resetAt /\ w.resetAt <= now + W
                  /\ \A a \in A : a.until # w.resetAt => a.until + W <= w.resetAt
  /\ L = {} => \A a \in A : a.until <= now

LimitHeld(limit, A, L, now) ==
  /\ A \in SUBSET Admissions /\ IsFiniteSet(A)
  /\ Spaced(A, Life(limit), now) /\ Grouped(A, Maximum[limit.kind]) /\ Numbered(A, now)
  /\ Followed(A, L, Life(limit), now)

(* What an admission does to the window of its key, of which another limit *)
(* may take at the same time.                                              *)
Charge(limit, L, L2, now) ==
  \/ L = {} /\ \E v \in WindowRecords : L2 = {v} /\ v.resetAt = now + Life(limit)
  \/ \E w \in L, v \in WindowRecords : /\ L = {w} /\ w.count < Maximum[limit.kind]
                                       /\ L2 = {v} /\ v.resetAt = w.resetAt /\ v.count > w.count

LEMMA AdmissionKeepsHeld ==
  ASSUME NEW limit \in Limited, NEW A, NEW L \in SUBSET WindowRecords, NEW L2,
         NEW now \in Nat, NEW r,
         LimitHeld(limit, A, L, now), Charge(limit, L, L2, now), \A w \in L2 : w.resetAt = r
  PROVE  LET a0 == [at |-> now, nth |-> Cardinality({b \in A : b.at = now}), until |-> r]
         IN /\ LimitHeld(limit, A \union {a0}, L2, now)
            /\ a0 \notin A /\ a0.at = now
<1> DEFINE W == Life(limit)
           M == Maximum[limit.kind]
           P == {b \in A : b.at = now}
           a0 == [at |-> now, nth |-> Cardinality(P), until |-> r]
           B == A \union {a0}
<1>1. W \in Nat \ {0} /\ M \in Nat \ {0}
  BY LimitedProperties
<1>2. /\ A \in SUBSET Admissions /\ IsFiniteSet(A) /\ Spaced(A, W, now)
      /\ Grouped(A, M) /\ Numbered(A, now) /\ Followed(A, L, W, now)
  BY DEF LimitHeld
<1>3. \A w \in WindowRecords : w.count \in Nat \ {0} /\ w.resetAt \in Nat
  BY DEF WindowRecords
<1>4. /\ r \in Nat /\ now < r /\ r <= now + W
      /\ Cardinality(UpTill(A, r)) <= M - 1
      /\ \A a \in A : a.until # r => a.until + W <= r
      /\ \A w \in L2 : Cardinality(UpTill(A, r)) + 1 <= w.count
      /\ L2 # {}
  <2>1. \A a \in A : a.until \in Nat
    BY <1>2 DEF Admissions
  <2>2. CASE L = {} /\ \E v \in WindowRecords : L2 = {v} /\ v.resetAt = now + W
    <3>1. r = now + W
      BY <2>2
    <3>2. \A a \in A : a.until <= now
      BY <1>2, <2>2 DEF Followed
    <3>3. UpTill(A, r) = {}
      BY <1>1, <2>1, <3>1, <3>2 DEF UpTill
    <3>4. Cardinality(UpTill(A, r)) = 0
      BY <3>3, FS_EmptySet
    <3> QED
      BY <1>1, <1>3, <2>1, <2>2, <3>1, <3>2, <3>4
  <2>3. CASE \E w \in L, v \in WindowRecords :
               /\ L = {w} /\ w.count < M
               /\ L2 = {v} /\ v.resetAt = w.resetAt /\ v.count > w.count
    <3>1. PICK w \in L, v \in WindowRecords :
            /\ L = {w} /\ w.count < M
            /\ L2 = {v} /\ v.resetAt = w.resetAt /\ v.count > w.count
      BY <2>3
    <3>2. r = w.resetAt /\ v \in L2
      BY <3>1
    <3>3. /\ Cardinality(UpTill(A, r)) <= w.count
          /\ now < r /\ r <= now + W
          /\ \A a \in A : a.until # r => a.until + W <= r
      BY <1>2, <3>1, <3>2 DEF Followed
    <3>4. Cardinality(UpTill(A, r)) \in Nat
      BY <1>2, FS_Subset, FS_CardinalityType DEF UpTill
    <3> QED
      BY <1>1, <1>3, <3>1, <3>2, <3>3, <3>4
  <2> QED
    BY <2>2, <2>3 DEF Charge
<1>5. IsFiniteSet(P) /\ Cardinality(P) \in Nat
  BY <1>2, FS_Subset, FS_CardinalityType
<1>6. a0 \in Admissions /\ a0.at = now /\ a0.until = r /\ a0.nth = Cardinality(P)
  BY <1>4, <1>5 DEF Admissions
<1>7. \A a \in A : a.at \in Nat /\ a.until \in Nat /\ a.nth \in Nat
  BY <1>2 DEF Admissions
<1>8. a0 \notin A
  <2>1. ASSUME a0 \in A PROVE FALSE
    <3>1. a0.nth < Cardinality(P)
      BY <1>2, <1>6, <2>1 DEF Numbered
    <3> QED
      BY <1>5, <1>6, <3>1
  <2> QED
    BY <2>1
<1> HIDE DEF a0, W, M
<1>9. B \in SUBSET Admissions /\ IsFiniteSet(B)
  BY <1>2, <1>6, FS_AddElement
<1>10. Spaced(B, W, now)
  <2>1. \A a \in B : a.at <= now /\ a.at < a.until /\ a.until <= a.at + W
    BY <1>1, <1>2, <1>4, <1>6 DEF Spaced
  <2>2. ASSUME NEW a \in B, NEW b \in B, a.until < b.until PROVE a.until + W <= b.until
    <3>1. CASE a \in A /\ b \in A
      BY <1>2, <2>2, <3>1 DEF Spaced
    <3>2. CASE a \in A /\ b = a0
      BY <1>4, <1>6, <1>7, <2>2, <3>2
    <3>3. CASE a = a0 /\ b \in A
      BY <1>1, <1>4, <1>6, <1>7, <2>2, <3>3
    <3>4. CASE a = a0 /\ b = a0
      BY <1>4, <1>6, <2>2, <3>4
    <3> QED
      BY <3>1, <3>2, <3>3, <3>4
  <2> QED
    BY <2>1, <2>2 DEF Spaced
<1>11. /\ UpTill(B, r) = UpTill(A, r) \union {a0}
       /\ Cardinality(UpTill(B, r)) = Cardinality(UpTill(A, r)) + 1
       /\ Cardinality(UpTill(A, r)) \in Nat
  <2>1. UpTill(B, r) = UpTill(A, r) \union {a0}
    BY <1>6 DEF UpTill
  <2>2. IsFiniteSet(UpTill(A, r)) /\ a0 \notin UpTill(A, r)
    BY <1>2, <1>8, FS_Subset DEF UpTill
  <2> QED
    BY <2>1, <2>2, FS_AddElement, FS_CardinalityType
<1>12. \A u : u # r => UpTill(B, u) = UpTill(A, u)
  BY <1>6 DEF UpTill
<1>13. Grouped(B, M)
  <2>1. Cardinality(UpTill(B, r)) <= M
    BY <1>1, <1>4, <1>11
  <2>2. \A u \in Nat : u # r => Cardinality(UpTill(B, u)) <= M
    BY <1>2, <1>12 DEF Grouped
  <2> QED
    BY <2>1, <2>2 DEF Grouped
<1>14. Numbered(B, now)
  <2>1. {b \in B : b.at = now} = P \union {a0}
    BY <1>6
  <2>2. Cardinality({b \in B : b.at = now}) = Cardinality(P) + 1
    BY <1>5, <1>8, <2>1, FS_AddElement
  <2>3. ASSUME NEW a \in B, a.at = now PROVE a.nth < Cardinality(P) + 1
    <3>1. CASE a \in A
      BY <1>2, <1>5, <1>7, <2>3, <3>1 DEF Numbered
    <3>2. CASE a = a0
      BY <1>5, <1>6, <3>2
    <3> QED
      BY <3>1, <3>2
  <2> QED
    BY <2>2, <2>3 DEF Numbered
<1>15. Followed(B, L2, W, now)
  BY <1>4, <1>6, <1>11 DEF Followed
<1>16. LimitHeld(limit, B, L2, now)
  BY <1>9, <1>10, <1>13, <1>14, <1>15 DEF LimitHeld, W, M
<1> QED
  BY <1>6, <1>8, <1>16 DEF a0

(* Another limit of the same key takes from its window. *)
LEMMA ChargeKeepsHeld ==
  ASSUME NEW limit \in Limited, NEW other, NEW A, NEW L \in SUBSET WindowRecords,
         NEW L2 \in SUBSET WindowRecords, NEW now \in Nat,
         LimitHeld(limit, A, L, now), Charge(other, L, L2, now), Life(other) = Life(limit)
  PROVE  LimitHeld(limit, A, L2, now)
<1> DEFINE W == Life(limit)
<1>1. W \in Nat \ {0}
  BY LimitedProperties
<1>2. A \in SUBSET Admissions /\ IsFiniteSet(A) /\ Followed(A, L, W, now)
  BY DEF LimitHeld
<1>3. \A w \in WindowRecords : w.count \in Nat \ {0} /\ w.resetAt \in Nat
  BY DEF WindowRecords
<1>4. \A a \in A : a.until \in Nat
  BY <1>2 DEF Admissions
<1>5. Followed(A, L2, W, now)
  <2>1. CASE L = {} /\ \E v \in WindowRecords : L2 = {v} /\ v.resetAt = now + W
    <3>1. PICK v \in WindowRecords : L2 = {v} /\ v.resetAt = now + W
      BY <2>1
    <3>2. \A a \in A : a.until <= now
      BY <1>2, <2>1 DEF Followed
    <3>3. UpTill(A, v.resetAt) = {}
      BY <1>1, <1>4, <3>1, <3>2 DEF UpTill
    <3>4. Cardinality(UpTill(A, v.resetAt)) = 0
      BY <3>3, FS_EmptySet
    <3> QED
      BY <1>1, <1>3, <1>4, <3>1, <3>2, <3>4 DEF Followed
  <2>2. CASE \E w \in L, v \in WindowRecords :
               L = {w} /\ L2 = {v} /\ v.resetAt = w.resetAt /\ v.count > w.count
    <3>1. PICK w \in L, v \in WindowRecords :
            L = {w} /\ L2 = {v} /\ v.resetAt = w.resetAt /\ v.count > w.count
      BY <2>2
    <3>2. Cardinality(UpTill(A, w.resetAt)) \in Nat
      BY <1>2, FS_Subset, FS_CardinalityType DEF UpTill
    <3>3. /\ Cardinality(UpTill(A, v.resetAt)) <= w.count
          /\ Cardinality(UpTill(A, v.resetAt)) \in Nat
          /\ now < v.resetAt /\ v.resetAt <= now + W
          /\ \A a \in A : a.until # v.resetAt => a.until + W <= v.resetAt
      BY <1>2, <3>1, <3>2 DEF Followed
    <3> QED
      BY <1>3, <3>1, <3>3 DEF Followed
  <2> QED
    BY <2>1, <2>2 DEF Charge
<1> QED
  BY <1>5 DEF LimitHeld

(* The clock goes on, old admissions are forgotten and windows end. *)
LEMMA TickKeepsHeld ==
  ASSUME NEW limit \in Limited, NEW A, NEW B \in SUBSET A, NEW L \in SUBSET WindowRecords,
         NEW now \in Nat,
         LimitHeld(limit, A, L, now)
  PROVE  LimitHeld(limit, B, {w \in L : w.resetAt > now + 1}, now + 1)
<1> DEFINE W == Life(limit)
           M == Maximum[limit.kind]
           L2 == {w \in L : w.resetAt > now + 1}
<1>1. W \in Nat \ {0} /\ M \in Nat \ {0}
  BY LimitedProperties
<1>2. /\ A \in SUBSET Admissions /\ IsFiniteSet(A) /\ Spaced(A, W, now)
      /\ Grouped(A, M) /\ Numbered(A, now) /\ Followed(A, L, W, now)
  BY DEF LimitHeld
<1>3. \A w \in L : w.count \in Nat \ {0} /\ w.resetAt \in Nat
  BY DEF WindowRecords
<1>4. \A a \in A : a.at \in Nat /\ a.until \in Nat /\ a.nth \in Nat
  BY <1>2 DEF Admissions
<1> HIDE DEF W, M
<1>5. B \in SUBSET Admissions /\ IsFiniteSet(B)
  BY <1>2, FS_Subset
<1>6. Spaced(B, W, now + 1)
  BY <1>1, <1>2, <1>4 DEF Spaced
<1>7. ASSUME NEW u
      PROVE  /\ Cardinality(UpTill(B, u)) \in Nat /\ Cardinality(UpTill(A, u)) \in Nat
             /\ Cardinality(UpTill(B, u)) <= Cardinality(UpTill(A, u))
  <2>1. UpTill(B, u) \subseteq UpTill(A, u) /\ UpTill(A, u) \subseteq A
    BY DEF UpTill
  <2>2. IsFiniteSet(UpTill(A, u)) /\ IsFiniteSet(UpTill(B, u))
    BY <1>2, <2>1, FS_Subset
  <2> QED
    BY <2>1, <2>2, FS_Subset, FS_CardinalityType
<1>8. Grouped(B, M)
  BY <1>1, <1>2, <1>7 DEF Grouped
<1>9. Numbered(B, now + 1)
  BY <1>2, <1>4 DEF Numbered, Spaced
<1>10. Followed(B, L2, W, now + 1)
  <2>1. ASSUME NEW w \in L2
        PROVE  /\ Cardinality(UpTill(B, w.resetAt)) <= w.count
               /\ now + 1 < w.resetAt /\ w.resetAt <= (now + 1) + W
               /\ \A a \in B : a.until # w.resetAt => a.until + W <= w.resetAt
    <3>1. /\ Cardinality(UpTill(A, w.resetAt)) <= w.count
          /\ w.resetAt <= now + W
          /\ \A a \in A : a.until # w.resetAt => a.until + W <= w.resetAt
      BY <1>2, <2>1 DEF Followed
    <3>2. /\ Cardinality(UpTill(B, w.resetAt)) \in Nat /\ Cardinality(UpTill(A, w.resetAt)) \in Nat
          /\ Cardinality(UpTill(B, w.resetAt)) <= Cardinality(UpTill(A, w.resetAt))
      BY <1>7
    <3> QED
      BY <1>1, <1>3, <2>1, <3>1, <3>2
  <2>2. ASSUME L2 = {}, NEW a \in B PROVE a.until <= now + 1
    <3>1. CASE L = {}
      BY <1>2, <1>4, <3>1 DEF Followed
    <3>2. CASE \E w \in L : TRUE
      <4>1. PICK w \in L : TRUE
        BY <3>2
      <4>2. ~(w.resetAt > now + 1)
        BY <2>2
      <4>3. a.until = w.resetAt \/ a.until + W <= w.resetAt
        BY <1>2, <2>2 DEF Followed
      <4> QED
        BY <1>1, <1>3, <1>4, <4>2, <4>3
    <3> QED
      BY <3>1, <3>2
  <2> QED
    BY <2>1, <2>2 DEF Followed
<1> QED
  BY <1>5, <1>6, <1>8, <1>9, <1>10 DEF LimitHeld, W, M

LEMMA NothingIsHeld ==
  ASSUME NEW limit \in Limited, NEW now
  PROVE  LimitHeld(limit, {}, {}, now)
<1>1. \A u : UpTill({}, u) = {}
  BY DEF UpTill
<1>2. IsFiniteSet({}) /\ Cardinality({}) = 0 /\ Maximum[limit.kind] \in Nat
  BY FS_EmptySet, LimitedProperties
<1>3. Grouped({}, Maximum[limit.kind])
  BY <1>1, <1>2 DEF Grouped
<1> QED
  BY <1>2, <1>3 DEF LimitHeld, Spaced, Numbered, Followed

-----------------------------------------------------------------------------
(* The map of windows. *)

(* A list of windows of different keys. *)
Mapped(ws) == ws \in Seq(WindowRecords) /\ Unique(ws)

(* Every window in force has one of some keys, fewer than the map holds.   *)
Fits(ws, room) ==
  /\ IsFiniteSet(room) /\ Cardinality(room) < MaxEntries
  /\ \A w \in Entries(ws) : w.resetAt > clock => w.key \in room

(* Some limits are charged, the others keep what their keys have in force, *)
(* or share the key with one that is charged.                              *)
Charged(ws, ws2, limits, now) ==
  \A l \in Limited :
    LET before == Live(ws, Key(l), now)
        after == Live(ws2, Key(l), now)
    IN IF l \in limits THEN Charge(l, before, after, now)
       ELSE \/ after = before
            \/ \E m \in limits : Key(m) = Key(l) /\ Charge(m, before, after, now)

LEMMA FilterMaps ==
  ASSUME NEW ws, Mapped(ws), NEW places \in SUBSET (1..Len(ws))
  PROVE  Mapped(At(ws, places)) /\ Entries(At(ws, places)) = {ws[i] : i \in places}
<1> DEFINE c == Cardinality(places)
           order == Ascending(places)
           s == At(ws, places)
<1>1. /\ c \in Nat /\ s \in Seq(WindowRecords) /\ Len(s) = c
      /\ \A i \in 1..c : order[i] \in places /\ s[i] = ws[order[i]]
      /\ \A p \in places : \E i \in 1..c : order[i] = p
      /\ \A i, j \in 1..c : i < j => order[i] < order[j]
  BY AtProperties DEF Mapped
<1>2. DOMAIN s = 1..c /\ DOMAIN ws = 1..Len(ws) /\ Len(ws) \in Nat
  BY <1>1, LenProperties DEF Mapped
<1> HIDE DEF c, order, s
<1>3. Entries(s) = {ws[i] : i \in places}
  <2>1. \A e : e \in Entries(s) <=> \E i \in 1..c : e = ws[order[i]]
    BY <1>1, <1>2 DEF Entries
  <2>2. ASSUME NEW i \in 1..c PROVE ws[order[i]] \in {ws[p] : p \in places}
    BY <1>1
  <2>3. ASSUME NEW p \in places PROVE \E i \in 1..c : ws[p] = ws[order[i]]
    <3>1. PICK i \in 1..c : order[i] = p
      BY <1>1
    <3> QED
      BY <3>1
  <2> QED
    BY <2>1, <2>2, <2>3
<1>4. Unique(s)
  <2> SUFFICES ASSUME NEW i \in 1..c, NEW j \in 1..c, s[i].key = s[j].key PROVE i = j
    BY <1>2 DEF Unique
  <2> DEFINE p == order[i]
             q == order[j]
  <2>0. p \in 1..Len(ws) /\ q \in 1..Len(ws) /\ ws[p].key = ws[q].key
    BY <1>1
  <2>1. p = q
    BY <1>2, <2>0 DEF Mapped, Unique
  <2>2. ~(i < j) /\ ~(j < i)
    <3>1. p \in Nat /\ q \in Nat
      BY <1>2, <2>0
    <3> QED
      BY <1>1, <2>1, <3>1
  <2> QED
    BY <1>1, <2>2
<1> QED
  BY <1>1, <1>3, <1>4 DEF Mapped, s

LEMMA EntriesAre ==
  ASSUME NEW ws, Mapped(ws)
  PROVE  /\ Entries(ws) \subseteq WindowRecords
         /\ DOMAIN ws = 1..Len(ws) /\ Len(ws) \in Nat
         /\ \A i \in DOMAIN ws : ws[i] \in WindowRecords
         /\ \A v, w \in Entries(ws) : v.key = w.key => v = w
<1>1. DOMAIN ws = 1..Len(ws) /\ Len(ws) \in Nat /\ \A i \in DOMAIN ws : ws[i] \in WindowRecords
  BY LenProperties, ElementOfSeq DEF Mapped
<1> QED
  BY <1>1 DEF Entries, Mapped, Unique

(* prune() forgets no window in force when there is room for all of them.  *)
LEMMA PrunedIs ==
  ASSUME NEW ws, Mapped(ws), NEW room, Fits(ws, room)
  PROVE  /\ Mapped(Pruned(ws))
         /\ Entries(Pruned(ws)) = {w \in Entries(ws) : w.resetAt > clock}
<1> DEFINE places == {i \in DOMAIN ws : ws[i].resetAt > clock}
           live == At(ws, places)
<1>1. places \in SUBSET (1..Len(ws)) /\ DOMAIN ws = 1..Len(ws)
  BY EntriesAre
<1>2. Mapped(live) /\ Entries(live) = {ws[i] : i \in places}
  BY <1>1, FilterMaps
<1>3. Entries(live) = {w \in Entries(ws) : w.resetAt > clock}
  BY <1>2 DEF Entries
<1>4. Len(live) = Cardinality(places) /\ IsFiniteSet(places)
  BY <1>1, AtProperties DEF Mapped
<1>5. Len(live) < MaxEntries
  <2> DEFINE f == [i \in places |-> ws[i].key]
  <2>1. f \in [places -> room]
    BY DEF Fits, Entries
  <2>2. \A i, j \in places : f[i] = f[j] => i = j
    BY DEF Mapped, Unique
  <2> HIDE DEF f, places
  <2>3. f \in Injection(places, room)
    BY <2>1, <2>2 DEF Injection, IsInjective
  <2>4. Cardinality(places) <= Cardinality(room)
    BY <2>3, FS_Injection DEF Fits
  <2>5. Cardinality(places) \in Nat /\ Cardinality(room) \in Nat
    BY <1>4, FS_CardinalityType DEF Fits
  <2> QED
    BY <1>4, <2>4, <2>5, LimitsAssumption DEF Fits
<1>6. Pruned(ws) = live
  BY <1>5 DEF Pruned
<1> QED
  BY <1>2, <1>3, <1>6

(* Even a prune() that evicts leaves a list of windows of different keys.  *)
LEMMA PrunedMaps ==
  ASSUME NEW ws, Mapped(ws)
  PROVE  Mapped(Pruned(ws))
<1> DEFINE places == {i \in DOMAIN ws : ws[i].resetAt > clock}
           live == At(ws, places)
           first == Len(live) - MaxEntries + 2
           last == Len(live)
           newest == SubSeq(live, first, last)
<1>1. places \in SUBSET (1..Len(ws))
  BY EntriesAre
<1>2. Mapped(live)
  BY <1>1, FilterMaps
<1>3. last \in Nat /\ MaxEntries \in Nat \ {0} /\ first \in Int /\ live \in Seq(WindowRecords)
  BY <1>2, EntriesAre, LimitsAssumption DEF Mapped
<1>4. CASE last < MaxEntries
  BY <1>2, <1>4 DEF Pruned
<1>5. CASE ~(last < MaxEntries)
  <2>1. first \in Nat /\ first >= 2
    BY <1>3, <1>5
  <2>2. Pruned(ws) = newest
    BY <1>5 DEF Pruned
  <2> HIDE DEF first, live
  <2>3. newest \in Seq(WindowRecords)
    <3>1. \A i \in first..last : live[i] \in WindowRecords
      BY <1>2, <1>3, <2>1, EntriesAre
    <3> QED
      BY <1>3, <2>1, <3>1, SubSeqProperties
  <2>4. Unique(newest)
    <3>1. \A i \in DOMAIN newest : newest[i] = live[i + first - 1]
                                   /\ i + first - 1 \in 1..last /\ i \in Nat
      BY <1>3, <2>1, SubSeqProperties
    <3>2. DOMAIN live = 1..last
      BY <1>3, LenProperties
    <3>3. \A i, j \in 1..last : live[i].key = live[j].key => i = j
      BY <1>2, <3>2 DEF Mapped, Unique
    <3> HIDE DEF newest
    <3> SUFFICES ASSUME NEW i \in DOMAIN newest, NEW j \in DOMAIN newest,
                        newest[i].key = newest[j].key
                 PROVE  i = j
      BY DEF Unique
    <3>4. i + first - 1 = j + first - 1 /\ i \in Nat /\ j \in Nat
      BY <3>1, <3>3
    <3> QED
      BY <2>1, <3>4
  <2> QED
    BY <2>2, <2>3, <2>4 DEF Mapped
<1> QED
  BY <1>4, <1>5

(* What a call does to the windows that prune() keeps. *)
Took(kept, limit, r) ==
  \/ /\ r.allowed = TRUE /\ \A v \in Entries(kept) : v.key # Key(limit)
     /\ \E fresh \in WindowRecords :
          /\ fresh.key = Key(limit) /\ fresh.resetAt = clock + Window[limit.kind]
          /\ Entries(r.windows) = Entries(kept) \union {fresh}
  \/ /\ r.allowed = TRUE
     /\ \E w \in Entries(kept), after \in WindowRecords :
          /\ w.key = Key(limit) /\ w.count < Maximum[limit.kind]
          /\ after.key = w.key /\ after.resetAt = w.resetAt /\ after.count = w.count + 1
          /\ Entries(r.windows) = (Entries(kept) \ {w}) \union {after}
  \/ r.allowed = FALSE /\ r.windows = kept /\ \E w \in Entries(kept) : w.key = Key(limit)

LEMMA ConsumeTakes ==
  ASSUME NEW ws, Mapped(ws), NEW limit \in Limited, clock \in Nat
  PROVE  LET r == Consume(ws, limit)
         IN Mapped(r.windows) /\ Took(Pruned(ws), limit, r)
<1> DEFINE kept == Pruned(ws)
           key == Key(limit)
           mine == {i \in DOMAIN kept : kept[i].key = key}
           fresh == [key |-> key, count |-> 1, resetAt |-> clock + Window[limit.kind]]
           r == Consume(ws, limit)
<1>1. Mapped(kept)
  BY PrunedMaps
<1>2. /\ Len(kept) \in Nat /\ DOMAIN kept = 1..Len(kept) /\ kept \in Seq(WindowRecords)
      /\ \A i \in DOMAIN kept : kept[i] \in WindowRecords
  BY <1>1, EntriesAre DEF Mapped
<1>3. Window[limit.kind] \in Nat \ {0} /\ Maximum[limit.kind] \in Nat \ {0}
  BY LimitedProperties, LimitsAssumption
<1>4. /\ fresh \in WindowRecords /\ fresh.key = key
      /\ fresh.resetAt = clock + Window[limit.kind]
  BY <1>3 DEF WindowRecords, Keys
<1>5. CASE mine = {}
  <2> DEFINE s == Append(kept, fresh)
  <2>1. r = [allowed |-> TRUE, windows |-> s]
    BY <1>5 DEF Consume
  <2> HIDE DEF kept, fresh, r, key
  <2>2. /\ s \in Seq(WindowRecords) /\ Len(s) = Len(kept) + 1
        /\ DOMAIN s = 1..Len(kept) + 1
        /\ \A i \in 1..Len(kept) : s[i] = kept[i]
        /\ s[Len(kept) + 1] = fresh
    BY <1>2, <1>4
  <2>3. Unique(s)
    <3> SUFFICES ASSUME NEW i \in DOMAIN s, NEW j \in DOMAIN s, s[i].key = s[j].key PROVE i = j
      BY DEF Unique
    <3>1. \A i2 \in 1..Len(kept) : kept[i2].key # key
      BY <1>2, <1>5
    <3>2. CASE i \in 1..Len(kept) /\ j \in 1..Len(kept)
      BY <1>1, <1>2, <2>2, <3>2 DEF Mapped, Unique
    <3> QED
      BY <1>2, <1>4, <2>2, <3>1, <3>2
  <2>4. Entries(s) = Entries(kept) \union {fresh}
    <3>1. \A w \in Entries(s) : w \in Entries(kept) \/ w = fresh
      BY <1>2, <2>2 DEF Entries
    <3>2. \A w \in Entries(kept) : w \in Entries(s)
      BY <1>2, <2>2 DEF Entries
    <3>3. fresh \in Entries(s)
      BY <1>2, <2>2 DEF Entries
    <3> QED
      BY <3>1, <3>2, <3>3
  <2>5. \A w \in Entries(kept) : w.key # key
    BY <1>2, <1>5 DEF Entries
  <2>6. r.windows = s /\ r.allowed = TRUE
    BY <2>1
  <2> HIDE DEF s, mine
  <2>7. Mapped(r.windows)
    BY <2>2, <2>3, <2>6 DEF Mapped
  <2>8. Took(kept, limit, r)
    BY <1>4, <2>4, <2>5, <2>6 DEF Took, key
  <2> QED
    BY <2>7, <2>8 DEF r, kept
<1>6. CASE mine # {}
  <2> DEFINE i == CHOOSE j \in mine : TRUE
             w == kept[i]
             s == [kept EXCEPT ![i] = Counted(@)]
             after == [w EXCEPT !.count = @ + 1]
  <2>1. i \in mine
    BY <1>6
  <2>2. r = IF Exhausted(w, limit) THEN [allowed |-> FALSE, windows |-> kept]
            ELSE [allowed |-> TRUE, windows |-> s]
    BY <1>6 DEF Consume
  <2> HIDE DEF kept, r, i, key
  <2>3. i \in 1..Len(kept) /\ w \in WindowRecords /\ w.key = key /\ w \in Entries(kept)
    BY <1>2, <2>1 DEF Entries
  <2>4. CASE Exhausted(w, limit)
    <3>1. r.windows = kept /\ r.allowed = FALSE
      BY <2>2, <2>4
    <3>2. Took(kept, limit, r)
      BY <2>3, <3>1 DEF Took, key
    <3> QED
      BY <1>1, <3>1, <3>2 DEF r, kept
  <2>5. CASE ~Exhausted(w, limit)
    <3>1. r.windows = s /\ r.allowed = TRUE
      BY <2>2, <2>5
    <3>2. w.count < Maximum[limit.kind]
      BY <1>3, <2>3, <2>5 DEF Exhausted, WindowRecords
    <3>3. /\ after \in WindowRecords /\ after.key = key /\ after.resetAt = w.resetAt
          /\ after.count = w.count + 1
          /\ s = [kept EXCEPT ![i] = after]
      BY <1>2, <2>3, SMTT(30) DEF WindowRecords, Counted
    <3> HIDE DEF after, w
    <3>4. /\ s \in Seq(WindowRecords) /\ DOMAIN s = 1..Len(kept) /\ s[i] = after
          /\ \A j \in 1..Len(kept) : j # i => s[j] = kept[j]
      BY <1>2, <2>3, <3>3, ExceptSeq, LenProperties
    <3>5. \A j \in 1..Len(kept) : s[j].key = kept[j].key
      BY <2>3, <3>3, <3>4 DEF w
    <3> HIDE DEF s
    <3>6. Unique(s)
      BY <1>1, <1>2, <3>4, <3>5 DEF Mapped, Unique
    <3>7. \A v \in Entries(s) : v = after \/ (v \in Entries(kept) /\ v # w)
      <4> SUFFICES ASSUME NEW j \in 1..Len(kept), j # i PROVE s[j] \in Entries(kept) /\ s[j] # w
        BY <3>4 DEF Entries
      <4>1. s[j] = kept[j] /\ kept[j].key # w.key
        BY <1>1, <1>2, <2>3, <3>4 DEF Mapped, Unique, w
      <4> QED
        BY <1>2, <4>1 DEF Entries
    <3>8. \A v \in Entries(kept) : v # w => v \in Entries(s)
      BY <1>2, <2>3, <3>4 DEF Entries, w
    <3>9. after \in Entries(s)
      BY <2>3, <3>4 DEF Entries
    <3>10. Entries(s) = (Entries(kept) \ {w}) \union {after}
      <4>1. w \in Entries(s) => w = after
        BY <3>7
      <4> QED
        BY <3>7, <3>8, <3>9, <4>1
    <3>11. Mapped(r.windows)
      BY <3>1, <3>4, <3>6 DEF Mapped
    <3>12. Took(kept, limit, r)
      BY <2>3, <3>1, <3>2, <3>3, <3>10 DEF Took, key
    <3> QED
      BY <3>11, <3>12 DEF r, kept
  <2> QED
    BY <2>4, <2>5
<1> QED
  BY <1>5, <1>6

(* With room in the map a call charges its limit and leaves the other keys *)
(* what they have in force, if its windows last as long as those of its    *)
(* key or one is in force.                                                 *)
LEMMA ConsumeCharges ==
  ASSUME NEW ws, Mapped(ws), NEW room, Fits(ws, room), NEW limit \in Limited, clock \in Nat,
         Life(limit) = Window[limit.kind] \/ Live(ws, Key(limit), clock) # {}
  PROVE  LET r == Consume(ws, limit)
             before == Live(ws, Key(limit), clock)
             after == Live(r.windows, Key(limit), clock)
         IN /\ Mapped(r.windows) /\ r.allowed \in BOOLEAN
            /\ IF r.allowed THEN Charge(limit, before, after, clock) ELSE after = before
            /\ \A key : key # Key(limit) => Live(r.windows, key, clock) = Live(ws, key, clock)
            /\ \A w \in Entries(r.windows) :
                 w.resetAt > clock =>
                   w.key = Key(limit) \/ \E v \in Entries(ws) : v.key = w.key /\ v.resetAt > clock
<1> DEFINE kept == Pruned(ws)
           k == Key(limit)
           r == Consume(ws, limit)
           E == Entries(kept)
           F == Entries(r.windows)
<1>1. Mapped(kept) /\ E = {w \in Entries(ws) : w.resetAt > clock}
  BY PrunedIs
<1>2. Mapped(r.windows) /\ Took(kept, limit, r)
  BY ConsumeTakes
<1>3. /\ \A w \in E : w \in WindowRecords /\ w.resetAt > clock
      /\ \A v, w \in E : v.key = w.key => v = w
  BY <1>1, EntriesAre
<1>4. \A key, w : w \in Live(ws, key, clock) <=> w \in E /\ w.key = key
  BY <1>1 DEF Live
<1>5. \A key, w : w \in Live(r.windows, key, clock) <=> w \in F /\ w.key = key /\ w.resetAt > clock
  BY DEF Live
<1>6. Window[limit.kind] \in Nat \ {0}
  BY LimitedProperties, LimitsAssumption
<1> DEFINE Goal == /\ r.allowed \in BOOLEAN
                   /\ IF r.allowed THEN Charge(limit, Live(ws, k, clock),
                                               Live(r.windows, k, clock), clock)
                      ELSE Live(r.windows, k, clock) = Live(ws, k, clock)
                   /\ \A key : key # k => Live(r.windows, key, clock) = Live(ws, key, clock)
                   /\ \A w \in F : w.resetAt > clock => w.key = k \/ \E v \in E : v.key = w.key
<1>7. Goal => /\ r.allowed \in BOOLEAN
              /\ IF r.allowed THEN Charge(limit, Live(ws, k, clock),
                                          Live(r.windows, k, clock), clock)
                 ELSE Live(r.windows, k, clock) = Live(ws, k, clock)
              /\ \A key : key # k => Live(r.windows, key, clock) = Live(ws, key, clock)
              /\ \A w \in F :
                   w.resetAt > clock =>
                     w.key = k \/ \E v \in Entries(ws) : v.key = w.key /\ v.resetAt > clock
  BY <1>1
<1> HIDE DEF r, E, F, k, kept
<1>8. ASSUME r.allowed = TRUE, \A v \in E : v.key # k,
             \E fresh \in WindowRecords :
               /\ fresh.key = k /\ fresh.resetAt = clock + Window[limit.kind]
               /\ F = E \union {fresh}
      PROVE  Goal
  <2>1. PICK fresh \in WindowRecords :
          /\ fresh.key = k /\ fresh.resetAt = clock + Window[limit.kind]
          /\ F = E \union {fresh}
    BY <1>8
  <2>2. fresh.resetAt > clock
    BY <1>6, <2>1
  <2>3. Live(ws, k, clock) = {} /\ Live(r.windows, k, clock) = {fresh}
    BY <1>4, <1>5, <1>8, <2>1, <2>2
  <2>4. Life(limit) = Window[limit.kind]
    BY <2>3 DEF k
  <2>5. Charge(limit, Live(ws, k, clock), Live(r.windows, k, clock), clock)
    BY <2>1, <2>3, <2>4 DEF Charge
  <2>6. ASSUME NEW key, key # k PROVE Live(r.windows, key, clock) = Live(ws, key, clock)
    <3>1. \A w : w \in Live(r.windows, key, clock) <=> w \in Live(ws, key, clock)
      BY <1>3, <1>4, <1>5, <2>1, <2>6
    <3> QED
      BY <3>1
  <2>7. \A w \in F : w.key = k \/ \E v \in E : v.key = w.key
    BY <2>1
  <2> QED
    BY <1>8, <2>5, <2>6, <2>7
<1>9. ASSUME r.allowed = TRUE,
             \E w \in E, after \in WindowRecords :
               /\ w.key = k /\ w.count < Maximum[limit.kind]
               /\ after.key = w.key /\ after.resetAt = w.resetAt /\ after.count = w.count + 1
               /\ F = (E \ {w}) \union {after}
      PROVE  Goal
  <2>1. PICK w \in E, after \in WindowRecords :
          /\ w.key = k /\ w.count < Maximum[limit.kind]
          /\ after.key = w.key /\ after.resetAt = w.resetAt /\ after.count = w.count + 1
          /\ F = (E \ {w}) \union {after}
    BY <1>9
  <2>2. after.resetAt > clock /\ w.count \in Nat /\ after.count > w.count
    BY <1>3, <2>1 DEF WindowRecords
  <2>3. Live(ws, k, clock) = {w}
    BY <1>3, <1>4, <2>1
  <2>4. Live(r.windows, k, clock) = {after}
    BY <1>3, <1>5, <2>1, <2>2
  <2>5. Charge(limit, Live(ws, k, clock), Live(r.windows, k, clock), clock)
    BY <2>1, <2>2, <2>3, <2>4 DEF Charge
  <2>6. ASSUME NEW key, key # k PROVE Live(r.windows, key, clock) = Live(ws, key, clock)
    <3>1. \A u : u \in Live(r.windows, key, clock) <=> u \in Live(ws, key, clock)
      BY <1>3, <1>4, <1>5, <2>1, <2>6
    <3> QED
      BY <3>1
  <2>7. \A v \in F : v.key = k \/ \E u \in E : u.key = v.key
    BY <2>1
  <2> QED
    BY <1>9, <2>5, <2>6, <2>7
<1>10. ASSUME r.allowed = FALSE, r.windows = kept PROVE Goal
  <2>1. F = E
    BY <1>10 DEF E, F
  <2>2. \A key : Live(r.windows, key, clock) = Live(ws, key, clock)
    <3>1. \A key, w : w \in Live(r.windows, key, clock) <=> w \in Live(ws, key, clock)
      BY <1>3, <1>4, <1>5, <2>1
    <3> QED
      BY <3>1
  <2> QED
    BY <1>10, <2>1, <2>2
<1>11. Goal
  <2> HIDE DEF Goal
  <2> QED
    BY <1>2, <1>8, <1>9, <1>10 DEF Took, E, F, k
<1> HIDE DEF Goal
<1> QED
  BY <1>2, <1>7, <1>11 DEF r, F, k

-----------------------------------------------------------------------------
(* Every window in force of a name stands for an admission of everybody's  *)
(* limit.                                                                  *)

InUse(ws, kind, now) ==
  {key \in Keys : key.prefix = kind /\ key.name # Everybody /\ Live(ws, key, now) # {}}

StandsFor(f, ws, kind, now, A) ==
  /\ f \in [InUse(ws, kind, now) -> A]
  /\ \A j, k \in InUse(ws, kind, now) : f[j] = f[k] => j = k
  /\ \A key \in InUse(ws, kind, now) : \A w \in Live(ws, key, now) :
       f[key].at + Window[kind] = w.resetAt

Backed(ws, kind, now, A) == \E f : StandsFor(f, ws, kind, now, A)

LEMMA BackedShrinks ==
  ASSUME NEW ws, NEW ws2, NEW kind \in NameKinds, NEW now \in Nat, NEW now2 \in Nat,
         NEW A \in SUBSET Admissions, NEW A2, Backed(ws, kind, now, A),
         \A key \in Keys :
           key.name # Everybody => Live(ws2, key, now2) \subseteq Live(ws, key, now),
         {a \in A : a.at > now2 - Window[kind]} \subseteq A2
  PROVE  Backed(ws2, kind, now2, A2)
<1>1. PICK f : StandsFor(f, ws, kind, now, A)
  BY DEF Backed
<1> DEFINE S == InUse(ws, kind, now)
           T == InUse(ws2, kind, now2)
           g == [key \in T |-> f[key]]
<1>2. T \subseteq S
  BY DEF InUse
<1>3. /\ f \in [S -> A] /\ \A j, k \in S : f[j] = f[k] => j = k
      /\ \A key \in S : \A w \in Live(ws, key, now) : f[key].at + Window[kind] = w.resetAt
  BY <1>1 DEF StandsFor
<1>4. ASSUME NEW key \in T
      PROVE  /\ f[key] \in A2
             /\ \A w \in Live(ws2, key, now2) : f[key].at + Window[kind] = w.resetAt
  <2>1. key \in S /\ Live(ws2, key, now2) \subseteq Live(ws, key, now)
    BY <1>2 DEF InUse
  <2>2. \A w \in Live(ws2, key, now2) : f[key].at + Window[kind] = w.resetAt
    BY <1>3, <2>1
  <2>3. PICK w \in Live(ws2, key, now2) : TRUE
    BY DEF InUse
  <2>4. w.resetAt > now2
    BY DEF Live
  <2>5. f[key] \in A /\ f[key].at \in Nat
    BY <1>3, <2>1 DEF Admissions
  <2>6. Window[kind] \in Nat
    BY LimitsAssumption DEF NameKinds, Kinds
  <2>7. f[key].at > now2 - Window[kind]
    BY <2>2, <2>4, <2>5, <2>6
  <2> QED
    BY <2>2, <2>5, <2>7
<1> HIDE DEF S, T
<1>5. /\ g \in [T -> A2] /\ \A j, k \in T : g[j] = g[k] => j = k
      /\ \A key \in T : \A w \in Live(ws2, key, now2) : g[key].at + Window[kind] = w.resetAt
  BY <1>2, <1>3, <1>4
<1> HIDE DEF g
<1>6. StandsFor(g, ws2, kind, now2, A2)
  BY <1>5 DEF StandsFor, T
<1> QED
  BY <1>6 DEF Backed

LEMMA BackedGrows ==
  ASSUME NEW ws, NEW ws2, NEW kind \in NameKinds, NEW now \in Nat,
         Entries(ws) \subseteq WindowRecords,
         NEW A \in SUBSET Admissions, NEW A2, A \subseteq A2, Backed(ws, kind, now, A),
         NEW limits \in SUBSET Limited, Charged(ws, ws2, limits, now),
         \A j, k \in limits : j.kind = kind /\ k.kind = kind => j = k,
         (\E l \in limits : l.kind = kind) => \E a \in A2 : a \notin A /\ a.at = now
  PROVE  Backed(ws2, kind, now, A2)
<1>1. PICK f : StandsFor(f, ws, kind, now, A)
  BY DEF Backed
<1> DEFINE S == InUse(ws, kind, now)
           T == InUse(ws2, kind, now)
           a0 == CHOOSE a \in A2 : a \notin A /\ a.at = now
           g == [key \in T |-> IF key \in S THEN f[key] ELSE a0]
<1>2. /\ f \in [S -> A] /\ \A j, k \in S : f[j] = f[k] => j = k
      /\ \A key \in S : \A w \in Live(ws, key, now) : f[key].at + Window[kind] = w.resetAt
  BY <1>1 DEF StandsFor
<1>3. \A key \in T : /\ key \in Keys /\ key.prefix = kind /\ key.name # Everybody
                     /\ Live(ws2, key, now) # {}
  BY DEF InUse
<1>4. ASSUME NEW key \in T
      PROVE  \E l \in Limited :
               /\ l.kind = kind /\ Life(l) = Window[kind]
               /\ \/ Live(ws2, key, now) = Live(ws, key, now)
                  \/ l \in limits /\ Charge(l, Live(ws, key, now), Live(ws2, key, now), now)
  <2>1. PICK l \in Limited : Key(l) = key
    BY <1>3 DEF Keys
  <2>2. l.name # Everybody /\ l.kind = kind /\ Life(l) = Window[kind]
    BY <1>3, <2>1, LimitsAndKeys
  <2>3. \A m \in limits : Key(m) = Key(l) => m = l
    BY <2>2, LimitsAndKeys
  <2>4. \/ Live(ws2, key, now) = Live(ws, key, now)
        \/ l \in limits /\ Charge(l, Live(ws, key, now), Live(ws2, key, now), now)
    BY <2>1, <2>3 DEF Charged
  <2> QED
    BY <2>2, <2>4
<1>5. ASSUME NEW j \in T, j \notin S
      PROVE  \E l \in limits : l.kind = kind /\ Key(l) = j
  <2>1. PICK l \in Limited : Key(l) = j
    BY <1>3 DEF Keys
  <2>2. l.name # Everybody /\ l.kind = kind
    BY <1>3, <2>1, LimitsAndKeys
  <2>3. \A m \in limits : Key(m) = Key(l) => m = l
    BY <2>2, LimitsAndKeys
  <2>4. Live(ws, j, now) = {} /\ Live(ws2, j, now) # {}
    BY <1>3, <1>5 DEF InUse
  <2>5. l \in limits
    BY <2>1, <2>3, <2>4 DEF Charged
  <2> QED
    BY <2>1, <2>2, <2>5
<1>6. ASSUME NEW key \in T, key \notin S
      PROVE  /\ a0 \in A2 /\ a0 \notin A /\ a0.at = now
             /\ \A w \in Live(ws2, key, now) : a0.at + Window[kind] = w.resetAt
  <2>1. a0 \in A2 /\ a0 \notin A /\ a0.at = now
    BY <1>5, <1>6
  <2>2. Live(ws, key, now) = {} /\ Live(ws2, key, now) # {}
    BY <1>3, <1>6 DEF InUse
  <2>3. PICK l \in Limited : Life(l) = Window[kind]
                             /\ Charge(l, Live(ws, key, now), Live(ws2, key, now), now)
    BY <1>4, <2>2
  <2>4. \A w \in Live(ws2, key, now) : w.resetAt = now + Window[kind]
    BY <2>2, <2>3 DEF Charge
  <2> QED
    BY <2>1, <2>4
<1>7. ASSUME NEW key \in T, key \in S, NEW w \in Live(ws2, key, now)
      PROVE  f[key].at + Window[kind] = w.resetAt
  <2>1. CASE Live(ws2, key, now) = Live(ws, key, now)
    BY <1>2, <1>7, <2>1
  <2>2. CASE \E l : Charge(l, Live(ws, key, now), Live(ws2, key, now), now)
    <3>1. Live(ws, key, now) # {}
      BY <1>7 DEF InUse
    <3>2. PICK v \in Live(ws, key, now) : w.resetAt = v.resetAt
      BY <2>2, <3>1 DEF Charge
    <3> QED
      BY <1>2, <1>7, <3>2
  <2> QED
    BY <1>4, <2>1, <2>2
<1> HIDE DEF S, T, a0
<1>8. /\ g \in [T -> A2] /\ \A j, k \in T : g[j] = g[k] => j = k
      /\ \A key \in T : \A w \in Live(ws2, key, now) : g[key].at + Window[kind] = w.resetAt
  <2>1. g \in [T -> A2]
    BY <1>2, <1>6
  <2>2. ASSUME NEW j \in T, NEW k \in T, g[j] = g[k] PROVE j = k
    <3>1. CASE j \in S /\ k \in S
      BY <1>2, <2>2, <3>1
    <3>2. CASE j \notin S /\ k \notin S
      <4>1. PICK l \in limits : l.kind = kind /\ Key(l) = j
        BY <1>5, <3>2
      <4>2. PICK m \in limits : m.kind = kind /\ Key(m) = k
        BY <1>5, <3>2
      <4> QED
        BY <4>1, <4>2
    <3>3. CASE j \in S /\ k \notin S
      BY <1>2, <1>6, <2>2, <3>3
    <3>4. CASE j \notin S /\ k \in S
      BY <1>2, <1>6, <2>2, <3>4
    <3> QED
      BY <3>1, <3>2, <3>3, <3>4
  <2>3. ASSUME NEW key \in T, NEW w \in Live(ws2, key, now)
        PROVE  g[key].at + Window[kind] = w.resetAt
    BY <1>6, <1>7
  <2> QED
    BY <2>1, <2>2, <2>3
<1> HIDE DEF g
<1>9. StandsFor(g, ws2, kind, now, A2)
  BY <1>8 DEF StandsFor, T
<1> QED
  BY <1>9 DEF Backed

(* So the names in use are few. *)
LEMMA NamesInUseAreFew ==
  ASSUME NEW ws, NEW kind \in NameKinds, NEW now \in Nat, NEW A, NEW L,
         LimitHeld(Global(Behind[kind]), A, L, now), Backed(ws, kind, now, A)
  PROVE  /\ IsFiniteSet(InUse(ws, kind, now))
         /\ Cardinality(InUse(ws, kind, now)) <= MostNames(kind)
         /\ MostNames(kind) \in Nat
<1> DEFINE global == Global(Behind[kind])
           W == Life(global)
           M == Maximum[global.kind]
           S == InUse(ws, kind, now)
           R == Since(A, now - Window[kind])
<1>1. global \in Limited /\ global.kind = Behind[kind] /\ W = Window[Behind[kind]]
  BY LimitsAndKeys
<1>2. W \in Nat \ {0} /\ M \in Nat \ {0}
  BY <1>1, LimitedProperties
<1>3. Window[kind] \in Nat \ {0} /\ Window[kind] <= 2 * W
  BY <1>1, LimitsAssumption, CapacityAssumption DEF NameKinds, Kinds
<1>4. A \in SUBSET Admissions /\ IsFiniteSet(A) /\ Spaced(A, W, now) /\ Grouped(A, M)
  BY DEF LimitHeld
<1>5. MostNames(kind) = Most(Window[kind], W, M)
  BY <1>1 DEF MostNames, Most
<1> HIDE DEF W, M
<1>6. IsFiniteSet(R) /\ Cardinality(R) <= MostNames(kind)
  <2> DEFINE span == Window[kind]
  <2>1. span \in Nat /\ span <= 2 * W
    BY <1>3
  <2>2. IsFiniteSet(Since(A, now - span)) /\ Cardinality(Since(A, now - span)) <= Most(span, W, M)
    <3> HIDE DEF span
    <3> QED
      BY <1>2, <1>4, <2>1, SpanHoldsFew
  <2> QED
    BY <1>5, <2>2
<1>7. MostNames(kind) \in Nat
  BY <1>2, <1>5 DEF Most
<1>8. PICK f : StandsFor(f, ws, kind, now, A)
  BY DEF Backed
<1>9. ASSUME NEW key \in S PROVE f[key] \in R
  <2>1. f[key] \in A /\ f[key].at \in Nat
    BY <1>4, <1>8 DEF StandsFor, Admissions
  <2>2. PICK w \in Live(ws, key, now) : TRUE
    BY DEF InUse
  <2>3. w.resetAt > now /\ f[key].at + Window[kind] = w.resetAt
    BY <1>8 DEF StandsFor, Live
  <2> QED
    BY <1>3, <2>1, <2>3 DEF Since
<1>10. f \in Injection(S, R)
  <2>1. DOMAIN f = S /\ \A j, k \in S : f[j] = f[k] => j = k
    BY <1>8 DEF StandsFor
  <2>2. f \in [S -> A]
    BY <1>8 DEF StandsFor
  <2> HIDE DEF S, R
  <2>3. f \in [S -> R]
    BY <1>9, <2>2
  <2> QED
    BY <2>1, <2>3 DEF Injection, IsInjective
<1> HIDE DEF S, R
<1>11. IsFiniteSet(S) /\ Cardinality(S) <= Cardinality(R)
  BY <1>6, <1>10, FS_Injection
<1>12. Cardinality(S) \in Nat /\ Cardinality(R) \in Nat
  BY <1>6, <1>11, FS_CardinalityType
<1> QED
  BY <1>6, <1>7, <1>11, <1>12 DEF S

-----------------------------------------------------------------------------
(* The inductive invariant. *)

TokensTyped ==
  /\ clock \in Nat /\ verifying \in [Names -> Nat] /\ reopened \in BOOLEAN
  /\ Mapped(windows)
  /\ admitted \in [Limited -> SUBSET Admissions]
  /\ tokens \in Seq(Nat)

AdmissionsHeld ==
  \A l \in Limited : LimitHeld(l, admitted[l], Live(windows, Key(l), clock), clock)

NamesBacked ==
  \A kind \in NameKinds : Backed(windows, kind, clock, admitted[Global(Behind[kind])])

TokensFit == Len(tokens) <= MaxTokens

LimitsInv == TokensTyped /\ TokensFit /\ (~reopened => AdmissionsHeld /\ NamesBacked)

(* There is room for everybody's window of any call. *)
HasRoom == \A global \in Globals : \E room : Key(global) \in room /\ Fits(windows, room)

LEMMA IntervalHas ==
  ASSUME NEW n \in Nat
  PROVE  IsFiniteSet(1..n) /\ Cardinality(1..n) = n
<1>1. 1 \in Int /\ n \in Int
  OBVIOUS
<1>2. IsFiniteSet(1..n) /\ Cardinality(1..n) = IF 1 > n THEN 0 ELSE n - 1 + 1
  BY <1>1, FS_Interval
<1> QED
  BY <1>2

(* Together the limits leave room in the map. *)
LEMMA ThereIsRoom ==
  ASSUME TokensTyped, AdmissionsHeld, NamesBacked
  PROVE  HasRoom
<1> DEFINE logins == InUse(windows, "login", clock)
           registrations == InUse(windows, "registration", clock)
           everybodys == {Key(global) : global \in Globals}
           room == (everybodys \union logins) \union registrations
<1>1. IsFiniteSet(everybodys) /\ Cardinality(everybodys) <= 4
  <2> DEFINE A == {Key(Global("loginGlobal"))}
             B == {Key(Global("registrationGlobal"))}
             C == {Key(Global("issuance"))}
             D == {Key(Global("view"))}
  <2>1. everybodys = (A \union B) \union (C \union D)
    BY DEF Globals, GlobalKinds
  <2> HIDE DEF everybodys
  <2>2. /\ IsFiniteSet(A) /\ IsFiniteSet(B) /\ IsFiniteSet(C) /\ IsFiniteSet(D)
        /\ Cardinality(A) = 1 /\ Cardinality(B) = 1 /\ Cardinality(C) = 1 /\ Cardinality(D) = 1
    BY FS_Singleton
  <2> HIDE DEF A, B, C, D
  <2>7. Cardinality(A) <= 1 /\ Cardinality(B) <= 1 /\ Cardinality(C) <= 1 /\ Cardinality(D) <= 1
    BY <2>2
  <2>3. IsFiniteSet(A \union B) /\ Cardinality(A \union B) <= 1 + 1
    BY <2>2, <2>7, 1 \in Nat, UnionIsFew
  <2>4. IsFiniteSet(C \union D) /\ Cardinality(C \union D) <= 1 + 1
    BY <2>2, <2>7, 1 \in Nat, UnionIsFew
  <2> DEFINE E == A \union B
             F == C \union D
  <2>5. IsFiniteSet(E) /\ Cardinality(E) <= 2 /\ IsFiniteSet(F) /\ Cardinality(F) <= 2
    BY <2>3, <2>4
  <2> HIDE DEF E, F
  <2>6. IsFiniteSet(E \union F) /\ Cardinality(E \union F) <= 2 + 2
    BY <2>5, UnionIsFew
  <2> QED
    BY <2>1, <2>6 DEF E, F
<1>2. ASSUME NEW kind \in NameKinds
      PROVE  /\ IsFiniteSet(InUse(windows, kind, clock)) /\ MostNames(kind) \in Nat
             /\ Cardinality(InUse(windows, kind, clock)) <= MostNames(kind)
  <2>1. Global(Behind[kind]) \in Limited
    BY LimitsAndKeys
  <2>2. LimitHeld(Global(Behind[kind]), admitted[Global(Behind[kind])],
                  Live(windows, Key(Global(Behind[kind])), clock), clock)
    BY <2>1 DEF AdmissionsHeld
  <2>3. Backed(windows, kind, clock, admitted[Global(Behind[kind])]) /\ clock \in Nat
    BY DEF NamesBacked, TokensTyped
  <2> QED
    BY <2>2, <2>3, NamesInUseAreFew
<1>3. /\ IsFiniteSet(logins) /\ MostNames("login") \in Nat
      /\ Cardinality(logins) <= MostNames("login")
      /\ IsFiniteSet(registrations) /\ MostNames("registration") \in Nat
      /\ Cardinality(registrations) <= MostNames("registration")
  BY <1>2 DEF NameKinds
<1> DEFINE m == MostNames("login")
           n == MostNames("registration")
<1> HIDE DEF logins, registrations, m, n
<1>4. m \in Nat /\ n \in Nat /\ Cardinality(logins) <= m /\ Cardinality(registrations) <= n
  BY <1>3 DEF m, n
<1>5. IsFiniteSet(everybodys \union logins) /\ Cardinality(everybodys \union logins) <= 4 + m
  BY <1>1, <1>3, <1>4, UnionIsFew
<1>6. IsFiniteSet(room) /\ Cardinality(room) <= (4 + m) + n
  <2> DEFINE both == everybodys \union logins
             k == 4 + m
  <2>1. IsFiniteSet(both) /\ Cardinality(both) <= k /\ k \in Nat
    BY <1>4, <1>5
  <2> HIDE DEF both, k
  <2>2. IsFiniteSet(both \union registrations) /\ Cardinality(both \union registrations) <= k + n
    BY <1>3, <1>4, <2>1, UnionIsFew
  <2> QED
    BY <2>2 DEF both, k
<1>7. (4 + m) + n < MaxEntries
  BY CapacityAssumption DEF m, n
<1>8. Cardinality(room) < MaxEntries
  <2>1. Cardinality(room) \in Nat
    BY <1>6, FS_CardinalityType
  <2> HIDE DEF room
  <2> QED
    BY <1>4, <1>6, <1>7, <2>1, LimitsAssumption
<1>9. ASSUME NEW w \in Entries(windows), w.resetAt > clock PROVE w.key \in room
  <2>1. w.key \in Keys
    BY EntriesAre DEF TokensTyped, WindowRecords
  <2>2. w \in Live(windows, w.key, clock)
    BY <1>9 DEF Live
  <2>3. PICK l \in Limited : Key(l) = w.key
    BY <2>1 DEF Keys
  <2>4. CASE l.name = Everybody
    BY <2>3, <2>4, LimitsAndKeys
  <2>5. CASE l.name # Everybody
    <3>1. w.key.prefix \in NameKinds /\ w.key.name # Everybody
      BY <2>3, <2>5, LimitsAndKeys
    <3>2. w.key \in logins \/ w.key \in registrations
      BY <2>1, <2>2, <3>1 DEF NameKinds, InUse, logins, registrations
    <3> QED
      BY <3>2
  <2> QED
    BY <2>4, <2>5
<1>10. \A global \in Globals : Key(global) \in room
  OBVIOUS
<1> HIDE DEF room
<1>11. Fits(windows, room)
  BY <1>6, <1>8, <1>9 DEF Fits
<1> QED
  BY <1>10, <1>11 DEF HasRoom

(* So does a map that is not full. *)
LEMMA RoomUnlessFull ==
  ASSUME TokensTyped, ~MapIsFull
  PROVE  HasRoom
<1> DEFINE places == {i \in DOMAIN windows : windows[i].resetAt > clock}
           inForce == {windows[i].key : i \in places}
<1>1. places \in SUBSET (1..Len(windows)) /\ Len(windows) \in Nat
  BY EntriesAre DEF TokensTyped
<1>2. IsFiniteSet(places) /\ Cardinality(places) \in Nat
  BY <1>1, IntervalHas, FS_Subset, FS_CardinalityType
<1>3. Cardinality(places) + 1 < MaxEntries
  BY <1>2, LimitsAssumption DEF MapIsFull
<1>4. IsFiniteSet(inForce) /\ Cardinality(inForce) <= Cardinality(places)
  <2> DEFINE f == [i \in places |-> windows[i].key]
  <2>1. f \in Surjection(places, inForce)
    BY DEF Surjection
  <2> HIDE DEF places, inForce, f
  <2> QED
    BY <1>2, <2>1, FS_Surjection
<1> SUFFICES ASSUME NEW global \in Globals
             PROVE  \E room : Key(global) \in room /\ Fits(windows, room)
  BY DEF HasRoom
<1> DEFINE mine == {Key(global)}
           room == inForce \union mine
<1>5. IsFiniteSet(mine) /\ Cardinality(mine) <= 1
  <2>1. IsFiniteSet(mine) /\ Cardinality(mine) = 1
    BY FS_Singleton
  <2> HIDE DEF mine
  <2> QED
    BY <2>1
<1>6. \A w \in Entries(windows) : w.resetAt > clock => w.key \in inForce
  BY DEF Entries
<1>7. Key(global) \in mine
  OBVIOUS
<1> HIDE DEF places, inForce, mine
<1>8. IsFiniteSet(room) /\ Cardinality(room) <= Cardinality(places) + 1
  BY <1>2, <1>4, <1>5, 1 \in Nat, UnionIsFew
<1> HIDE DEF room
<1>9. Cardinality(room) < MaxEntries
  <2>1. Cardinality(room) \in Nat
    BY <1>8, FS_CardinalityType
  <2> QED
    BY <1>2, <1>3, <1>8, <2>1, LimitsAssumption
<1>10. Key(global) \in room /\ Fits(windows, room)
  BY <1>6, <1>7, <1>8, <1>9 DEF Fits, room
<1> QED
  BY <1>10

(* What a caller did to the map: it charged some limits, of the names at   *)
(* most one, and that only together with everybody's.                      *)
Called(ws, limits) ==
  /\ Mapped(ws) /\ limits \subseteq Limited /\ Charged(windows, ws, limits, clock)
  /\ \A l \in limits : l.kind \in NameKinds => Global(Behind[l.kind]) \in limits
  /\ \A l, m \in limits : l.kind \in NameKinds /\ m.kind \in NameKinds => l = m

LEMMA GlobalIsCalled ==
  ASSUME TokensTyped, HasRoom, NEW global \in Globals
  PROVE  LET g == Consume(windows, global)
         IN /\ Called(g.windows, IF g.allowed THEN {global} ELSE {})
            /\ g.allowed \in BOOLEAN
<1> DEFINE g == Consume(windows, global)
           limits == IF g.allowed THEN {global} ELSE {}
<1>1. PICK room : Key(global) \in room /\ Fits(windows, room)
  BY DEF HasRoom
<1>2. /\ global \in Limited /\ global.kind \notin NameKinds /\ Mapped(windows) /\ clock \in Nat
      /\ Life(global) = Window[global.kind]
  BY LimitsAndKeys DEF TokensTyped
<1>3. /\ Mapped(g.windows) /\ g.allowed \in BOOLEAN
      /\ IF g.allowed THEN Charge(global, Live(windows, Key(global), clock),
                                  Live(g.windows, Key(global), clock), clock)
         ELSE Live(g.windows, Key(global), clock) = Live(windows, Key(global), clock)
      /\ \A key : key # Key(global) => Live(g.windows, key, clock) = Live(windows, key, clock)
  BY <1>1, <1>2, ConsumeCharges
<1> HIDE DEF g
<1>4. Charged(windows, g.windows, limits, clock)
  <2> SUFFICES ASSUME NEW l \in Limited
               PROVE  LET before == Live(windows, Key(l), clock)
                          after == Live(g.windows, Key(l), clock)
                      IN IF l \in limits THEN Charge(l, before, after, clock)
                         ELSE \/ after = before
                              \/ \E m \in limits : Key(m) = Key(l)
                                                   /\ Charge(m, before, after, clock)
    BY DEF Charged
  <2>1. CASE Key(l) # Key(global)
    BY <1>3, <2>1
  <2>2. CASE Key(l) = Key(global)
    BY <1>3, <2>2
  <2> QED
    BY <2>1, <2>2
<1>5. Called(g.windows, limits)
  BY <1>2, <1>3, <1>4 DEF Called
<1> QED
  BY <1>3, <1>5 DEF g

(* Two limits of one key: what both take is a charge of either. *)
LEMMA ChargesAdd ==
  ASSUME NEW limit, NEW other, NEW L \in SUBSET WindowRecords, NEW L1 \in SUBSET WindowRecords,
         NEW L2 \in SUBSET WindowRecords, NEW now \in Nat, Life(other) = Life(limit),
         Charge(limit, L, L1, now), Charge(other, L1, L2, now)
  PROVE  /\ Charge(limit, L, L2, now)
         /\ Maximum[other.kind] \in Nat => Charge(other, L, L2, now)
<1>1. \A w \in L \union L1 \union L2 : w.count \in Nat \ {0} /\ w.resetAt \in Nat
  BY DEF WindowRecords
<1>2. PICK w \in L1, v \in WindowRecords : /\ L1 = {w} /\ w.count < Maximum[other.kind]
                                           /\ L2 = {v} /\ v.resetAt = w.resetAt /\ v.count > w.count
  <2>1. L1 # {}
    BY DEF Charge
  <2> QED
    BY <2>1 DEF Charge
<1>3. CASE L = {} /\ w.resetAt = now + Life(limit)
  BY <1>2, <1>3 DEF Charge
<1>4. CASE \E u \in L : L = {u} /\ u.count < Maximum[limit.kind] /\ w.resetAt = u.resetAt
                        /\ w.count > u.count
  <2>1. PICK u \in L : L = {u} /\ u.count < Maximum[limit.kind] /\ w.resetAt = u.resetAt
                       /\ w.count > u.count
    BY <1>4
  <2>2. v.resetAt = u.resetAt /\ v.count > u.count
    BY <1>1, <1>2, <2>1
  <2>3. Maximum[other.kind] \in Nat => u.count < Maximum[other.kind]
    BY <1>1, <1>2, <2>1
  <2> QED
    BY <1>2, <2>1, <2>2, <2>3 DEF Charge
<1>5. \/ L = {} /\ w.resetAt = now + Life(limit)
      \/ \E u \in L : L = {u} /\ u.count < Maximum[limit.kind] /\ w.resetAt = u.resetAt
                      /\ w.count > u.count
  BY <1>2 DEF Charge
<1> QED
  BY <1>3, <1>4, <1>5

LEMMA BothAreCalled ==
  ASSUME TokensTyped, HasRoom, NEW kind \in NameKinds, NEW name \in Names
  PROVE  LET r == LimitBoth(Global(Behind[kind]), Of(kind, name))
         IN Called(r.windows, r.admitted)
<1> DEFINE global == Global(Behind[kind])
           limit == Of(kind, name)
           g == Consume(windows, global)
           n == Consume(g.windows, limit)
           r == LimitBoth(global, limit)
           W(key) == Live(windows, key, clock)
           G(key) == Live(g.windows, key, clock)
           N(key) == Live(n.windows, key, clock)
<1>1. global \in Globals /\ global \in Limited /\ global.kind \notin NameKinds
      /\ Life(global) = Window[global.kind]
  BY LimitsAndKeys
<1>2. /\ limit \in Limited /\ limit.kind = kind /\ limit.name = name
      /\ global = Global(Behind[limit.kind])
  BY LimitsAndKeys
<1>3. /\ Key(limit) # Key(global) => limit.name # Everybody
      /\ limit.name # Everybody => Life(limit) = Window[limit.kind]
      /\ Key(limit) = Key(global) => Life(limit) = Life(global)
  <2>1. name = Everybody => Key(limit) = Key(global)
    BY LimitsAndKeys
  <2>2. limit.name # Everybody => Life(limit) = Window[limit.kind]
    BY <1>2, LimitsAndKeys
  <2>3. Key(limit) = Key(global) => Life(limit) = Life(global)
    BY <1>1, <1>2, LimitsAndKeys
  <2> QED
    BY <1>2, <2>1, <2>2, <2>3
<1>4. Mapped(windows) /\ clock \in Nat
  BY DEF TokensTyped
<1>5. PICK room : Key(global) \in room /\ Fits(windows, room)
  BY <1>1 DEF HasRoom
<1>6. /\ Mapped(g.windows) /\ g.allowed \in BOOLEAN
      /\ IF g.allowed THEN Charge(global, W(Key(global)), G(Key(global)), clock)
         ELSE G(Key(global)) = W(Key(global))
      /\ \A key : key # Key(global) => G(key) = W(key)
      /\ \A w \in Entries(g.windows) :
           w.resetAt > clock =>
             w.key = Key(global) \/ \E v \in Entries(windows) : v.key = w.key /\ v.resetAt > clock
  <2> HIDE DEF global
  <2> QED
    BY <1>1, <1>4, <1>5, ConsumeCharges
<1> HIDE DEF global, limit, g
<1>7. Fits(g.windows, room)
  BY <1>5, <1>6 DEF Fits
<1>8. g.allowed => /\ Mapped(n.windows) /\ n.allowed \in BOOLEAN
                   /\ IF n.allowed THEN Charge(limit, G(Key(limit)), N(Key(limit)), clock)
                      ELSE N(Key(limit)) = G(Key(limit))
                   /\ \A key : key # Key(limit) => N(key) = G(key)
  <2> SUFFICES ASSUME g.allowed
               PROVE  /\ Mapped(n.windows) /\ n.allowed \in BOOLEAN
                      /\ IF n.allowed THEN Charge(limit, G(Key(limit)), N(Key(limit)), clock)
                         ELSE N(Key(limit)) = G(Key(limit))
                      /\ \A key : key # Key(limit) => N(key) = G(key)
    OBVIOUS
  <2>1. Life(limit) = Window[limit.kind] \/ G(Key(limit)) # {}
    <3>1. Key(limit) = Key(global) => G(Key(limit)) # {}
      BY <1>6 DEF Charge
    <3> QED
      BY <1>3, <3>1
  <2>2. Life(limit) = Window[limit.kind] \/ Live(g.windows, Key(limit), clock) # {}
    BY <2>1
  <2> QED
    BY <1>2, <1>4, <1>6, <1>7, <2>2, ConsumeCharges
<1>9. CASE ~g.allowed
  <2>1. r.windows = g.windows /\ r.admitted = {}
    BY <1>9 DEF LimitBoth, g
  <2> HIDE DEF r
  <2>2. \A key : G(key) = W(key)
    BY <1>6, <1>9
  <2>3. Charged(windows, g.windows, {}, clock)
    BY <2>2 DEF Charged
  <2> QED
    BY <1>6, <2>1, <2>3 DEF Called, r, global, limit
<1>10. CASE g.allowed
  <2> DEFINE limits == IF n.allowed THEN {global, limit} ELSE {global}
  <2>1. r.windows = n.windows /\ r.admitted = limits
    BY <1>10 DEF LimitBoth, g
  <2>2. /\ \A ws, key : Mapped(ws) => Live(ws, key, clock) \in SUBSET WindowRecords
        /\ Maximum[limit.kind] \in Nat
    BY <1>2, EntriesAre, LimitedProperties DEF Live
  <2>3. \A key : /\ W(key) \in SUBSET WindowRecords /\ G(key) \in SUBSET WindowRecords
                 /\ N(key) \in SUBSET WindowRecords
    BY <1>4, <1>6, <1>8, <1>10, <2>2
  <2> HIDE DEF n, r, W, G, N
  <2>4. ASSUME NEW l \in Limited
        PROVE  IF l \in limits THEN Charge(l, W(Key(l)), N(Key(l)), clock)
               ELSE \/ N(Key(l)) = W(Key(l))
                    \/ \E m \in limits : Key(m) = Key(l) /\ Charge(m, W(Key(l)), N(Key(l)), clock)
    <3>1. CASE Key(l) # Key(global) /\ Key(l) # Key(limit)
      BY <1>6, <1>8, <1>10, <3>1
    <3>2. CASE Key(l) = Key(global) /\ Key(l) # Key(limit)
      <4>1. N(Key(l)) = G(Key(l)) /\ Charge(global, W(Key(l)), G(Key(l)), clock)
        BY <1>6, <1>8, <1>10, <3>2
      <4> QED
        BY <3>2, <4>1
    <3>3. CASE Key(l) # Key(global) /\ Key(l) = Key(limit)
      <4>1. G(Key(l)) = W(Key(l))
        BY <1>6, <3>3
      <4>2. IF n.allowed THEN Charge(limit, W(Key(l)), N(Key(l)), clock)
            ELSE N(Key(l)) = W(Key(l))
        BY <1>8, <1>10, <3>3, <4>1
      <4> QED
        BY <3>3, <4>2
    <3>4. CASE Key(l) = Key(global) /\ Key(l) = Key(limit)
      <4>1. Charge(global, W(Key(l)), G(Key(l)), clock)
        BY <1>6, <1>10, <3>4
      <4>2. CASE ~n.allowed
        <5>1. N(Key(l)) = G(Key(l))
          BY <1>8, <1>10, <3>4, <4>2
        <5> QED
          BY <3>4, <4>1, <4>2, <5>1
      <4>3. CASE n.allowed
        <5>1. Charge(limit, G(Key(l)), N(Key(l)), clock)
          BY <1>8, <1>10, <3>4, <4>3
        <5>2. Life(limit) = Life(global)
          BY <1>3, <3>4
        <5>3. /\ Charge(global, W(Key(l)), N(Key(l)), clock)
              /\ Charge(limit, W(Key(l)), N(Key(l)), clock)
          BY <1>4, <2>2, <2>3, <4>1, <5>1, <5>2, ChargesAdd
        <5> QED
          BY <3>4, <4>3, <5>3
      <4> QED
        BY <1>8, <1>10, <4>2, <4>3
    <3> QED
      BY <3>1, <3>2, <3>3, <3>4
  <2>5. Charged(windows, n.windows, limits, clock)
    <3> HIDE DEF limits
    <3> QED
      BY <2>4 DEF Charged, W, N
  <2>6. limits \subseteq Limited /\ \A l \in limits : l = global \/ l = limit
    BY <1>1, <1>2
  <2>7. \A l \in limits : l.kind \in NameKinds => l = limit /\ Global(Behind[l.kind]) \in limits
    <3>1. global \in limits
      OBVIOUS
    <3> HIDE DEF limits
    <3> QED
      BY <1>1, <1>2, <2>6, <3>1
  <2> HIDE DEF limits
  <2>8. Called(n.windows, limits)
    BY <1>8, <1>10, <2>5, <2>6, <2>7 DEF Called
  <2> QED
    BY <2>1, <2>8 DEF r, global, limit
<1> QED
  BY <1>6, <1>9, <1>10

(* A call leaves a list of windows of different keys, whatever the room.   *)
LEMMA CallsMap ==
  ASSUME TokensTyped, NEW global \in Limited
  PROVE  /\ Mapped(Consume(windows, global).windows)
         /\ \A limit \in Limited : Mapped(LimitBoth(global, limit).windows)
<1>1. Mapped(windows) /\ clock \in Nat
  BY DEF TokensTyped
<1>2. Mapped(Consume(windows, global).windows)
  BY <1>1, ConsumeTakes
<1>3. ASSUME NEW limit \in Limited PROVE Mapped(LimitBoth(global, limit).windows)
  <2> DEFINE g == Consume(windows, global)
             n == Consume(g.windows, limit)
  <2>1. LimitBoth(global, limit).windows \in {g.windows, n.windows}
    BY DEF LimitBoth
  <2>2. Mapped(n.windows)
    <3> HIDE DEF g
    <3>1. Mapped(g.windows)
      BY <1>2 DEF g
    <3> QED
      BY <1>1, <3>1, ConsumeTakes
  <2> HIDE DEF g, n
  <2> QED
    BY <1>2, <2>1, <2>2 DEF g
<1> QED
  BY <1>2, <1>3

-----------------------------------------------------------------------------
(* Every step keeps the invariant. *)

LEMMA RememberedIsLong ==
  ASSUME NEW kind \in NameKinds
  PROVE  LET span == Remembered(Global(Behind[kind]))
         IN span \in Nat /\ span >= Window[kind]
<1> DEFINE global == Global(Behind[kind])
           lives == {Life(global)} \union
                      {Window[name] : name \in {n \in DOMAIN Behind : Behind[n] = global.kind}}
<1>1. \A n \in DOMAIN Behind : Behind[n] = Behind[kind] => n = kind
  BY DEF Behind, NameKinds
<1>2. kind \in DOMAIN Behind /\ kind \in Kinds
  BY DEF Behind, NameKinds, Kinds
<1>3. global \in Limited /\ global.kind = Behind[kind]
  BY LimitsAndKeys
<1> DEFINE long == Life(global)
<1>4. lives = {long, Window[kind]}
  BY <1>1, <1>2, <1>3
<1>5. long \in Nat /\ Window[kind] \in Nat
  BY <1>2, <1>3, LimitedProperties, LimitsAssumption
<1>6. Remembered(global) = CHOOSE life \in lives : \A other \in lives : other <= life
  BY DEF Remembered
<1> HIDE DEF global, lives, long
<1>7. \E life \in lives : \A other \in lives : other <= life
  <2>1. CASE long <= Window[kind]
    BY <1>4, <1>5, <2>1
  <2>2. CASE Window[kind] <= long
    BY <1>4, <1>5, <2>2
  <2> QED
    BY <1>5, <2>1, <2>2
<1>8. Remembered(global) \in lives /\ \A other \in lives : other <= Remembered(global)
  BY <1>6, <1>7
<1> QED
  BY <1>4, <1>5, <1>8 DEF global

LEMMA CallKeepsHeld ==
  ASSUME TokensTyped, AdmissionsHeld, NamesBacked, ~reopened,
         NEW limits, Called(windows', limits), Admit(limits), clock' = clock
  PROVE  AdmissionsHeld' /\ NamesBacked' /\ admitted' \in [Limited -> SUBSET Admissions]
<1>1. /\ Mapped(windows) /\ Mapped(windows') /\ clock \in Nat /\ limits \subseteq Limited
      /\ admitted \in [Limited -> SUBSET Admissions] /\ Charged(windows, windows', limits, clock)
  BY DEF TokensTyped, Called
<1>2. \A key : /\ Live(windows, key, clock) \in SUBSET WindowRecords
               /\ Live(windows', key, clock) \in SUBSET WindowRecords
  BY <1>1, EntriesAre DEF Live
<1>3. ASSUME NEW l \in Limited, l \in limits
      PROVE  /\ LimitHeld(l, admitted[l] \union {Admission(l)},
                          Live(windows', Key(l), clock), clock)
             /\ Admission(l) \notin admitted[l] /\ Admission(l).at = clock
  <2> DEFINE key == Key(l)
             L == Live(windows, key, clock)
             L2 == Live(windows', key, clock)
             i == CHOOSE j \in DOMAIN windows' : windows'[j].key = key
             r == windows'[i].resetAt
  <2>1. Charge(l, L, L2, clock) /\ LimitHeld(l, admitted[l], L, clock)
    BY <1>1, <1>3 DEF Charged, AdmissionsHeld
  <2>2. L \in SUBSET WindowRecords /\ L2 \in SUBSET WindowRecords
    BY <1>2
  <2>3. PICK w : w \in L2
    BY <2>1 DEF Charge
  <2>4. w \in Entries(windows') /\ w.key = key
    BY <2>3 DEF Live
  <2>5. \E j \in DOMAIN windows' : windows'[j].key = key
    BY <2>4 DEF Entries
  <2>6. windows'[i] \in Entries(windows') /\ windows'[i].key = key
    BY <2>5 DEF Entries
  <2>7. \A v \in L2 : v.resetAt = r
    <3> SUFFICES ASSUME NEW v \in L2 PROVE v = windows'[i]
      OBVIOUS
    <3>1. v \in Entries(windows') /\ v.key = key
      BY DEF Live
    <3> HIDE DEF i
    <3> QED
      BY <1>1, <2>6, <3>1, EntriesAre
  <2>8. Admission(l) = [at |-> clock, nth |-> Cardinality({b \in admitted[l] : b.at = clock}),
                        until |-> r]
    BY DEF Admission
  <2> DEFINE A == admitted[l]
             a0 == [at |-> clock, nth |-> Cardinality({b \in A : b.at = clock}), until |-> r]
  <2>9. Admission(l) = a0
    BY <2>8
  <2>10. /\ L \in SUBSET WindowRecords /\ L2 \in SUBSET WindowRecords /\ clock \in Nat
         /\ LimitHeld(l, A, L, clock) /\ Charge(l, L, L2, clock) /\ \A v \in L2 : v.resetAt = r
    BY <1>1, <2>1, <2>2, <2>7
  <2> HIDE DEF L, L2, r, A, key, i
  <2>11. LimitHeld(l, A \union {a0}, L2, clock) /\ a0 \notin A /\ a0.at = clock
    BY <2>10, AdmissionKeepsHeld, SMTT(30)
  <2> HIDE DEF a0
  <2> QED
    BY <2>9, <2>11 DEF A, L2, key
<1>4. \A l \in Limited :
        admitted'[l] = IF l \in limits THEN admitted[l] \union {Admission(l)} ELSE admitted[l]
  BY DEF Admit
<1>5. ASSUME NEW l \in Limited
      PROVE  LimitHeld(l, admitted'[l], Live(windows', Key(l), clock), clock)
  <2> DEFINE before == Live(windows, Key(l), clock)
             after == Live(windows', Key(l), clock)
  <2>1. CASE l \in limits
    BY <1>3, <1>4, <2>1
  <2>2. CASE l \notin limits /\ after = before
    BY <1>1, <1>4, <2>2 DEF AdmissionsHeld
  <2>3. CASE l \notin limits /\ \E m \in limits : Key(m) = Key(l) /\ Charge(m, before, after, clock)
    <3>1. PICK m \in limits : Key(m) = Key(l) /\ Charge(m, before, after, clock)
      BY <2>3
    <3>2. Life(m) = Life(l)
      BY <1>1, <3>1, LimitsAndKeys
    <3>3. LimitHeld(l, admitted[l], before, clock) /\ admitted'[l] = admitted[l]
      BY <1>4, <2>3 DEF AdmissionsHeld
    <3>4. before \in SUBSET WindowRecords /\ after \in SUBSET WindowRecords
      BY <1>2
    <3> HIDE DEF before, after
    <3>5. LimitHeld(l, admitted[l], after, clock)
      BY <1>1, <3>1, <3>2, <3>3, <3>4, ChargeKeepsHeld
    <3> QED
      BY <3>3, <3>5 DEF after
  <2> QED
    BY <1>1, <2>1, <2>2, <2>3 DEF Charged
<1>6. AdmissionsHeld'
  BY <1>5 DEF AdmissionsHeld
<1>7. ASSUME NEW kind \in NameKinds
      PROVE  Backed(windows', kind, clock, admitted'[Global(Behind[kind])])
  <2> DEFINE global == Global(Behind[kind])
             A == admitted[global]
             A2 == admitted'[global]
  <2>1. global \in Limited
    BY LimitsAndKeys
  <2>2. A \in SUBSET Admissions /\ A \subseteq A2 /\ Backed(windows, kind, clock, A)
    BY <1>1, <1>4, <2>1 DEF NamesBacked
  <2>3. Entries(windows) \subseteq WindowRecords
    BY <1>1, EntriesAre
  <2>4. \A j, k \in limits : j.kind = kind /\ k.kind = kind => j = k
    BY DEF Called
  <2>5. ASSUME NEW l \in limits, l.kind = kind
        PROVE  \E a \in A2 : a \notin A /\ a.at = clock
    <3>1. global \in limits
      BY <2>5 DEF Called
    <3> QED
      BY <1>3, <1>4, <2>1, <3>1
  <2> HIDE DEF A, A2
  <2> QED
    BY <1>1, <2>2, <2>3, <2>4, <2>5, BackedGrows DEF A2
<1>8. NamesBacked'
  BY <1>7 DEF NamesBacked
<1>9. admitted' \in [Limited -> SUBSET Admissions]
  <2>1. admitted' = [l \in Limited |-> admitted'[l]]
    BY DEF Admit
  <2>2. \A l \in Limited : admitted'[l] \in SUBSET Admissions
    BY <1>5 DEF LimitHeld
  <2> QED
    BY <2>1, <2>2
<1> QED
  BY <1>6, <1>8, <1>9

(* An issuance cleans every expired token, so that all those left are in   *)
(* force.                                                                  *)
LEMMA CleaningIsComplete ==
  ASSUME tokens \in Seq(Nat), Len(tokens) <= MaxTokens, clock \in Nat,
         NEW cleaned \in SUBSET Expired(tokens), Cleans(tokens, cleaned)
  PROVE  LET rows == Without(tokens, cleaned)
         IN /\ rows \in Seq(Nat) /\ Len(rows) <= MaxTokens
            /\ Cardinality(InForce(rows)) = Len(rows)
<1> DEFINE rows == Without(tokens, cleaned)
           expired == Expired(tokens)
           places == DOMAIN tokens \ cleaned
<1>1. DOMAIN tokens = 1..Len(tokens) /\ Len(tokens) \in Nat /\ MaxTokens \in Nat
  BY LenProperties, LimitsAssumption
<1>2. IsFiniteSet(DOMAIN tokens) /\ Cardinality(DOMAIN tokens) = Len(tokens)
  BY <1>1, IntervalHas
<1>3. /\ IsFiniteSet(expired) /\ Cardinality(expired) \in Nat
      /\ Cardinality(expired) <= Len(tokens)
  <2>1. expired \subseteq DOMAIN tokens
    BY DEF Expired
  <2> HIDE DEF expired
  <2> QED
    BY <1>2, <2>1, FS_Subset, FS_CardinalityType
<1>4. Cardinality(cleaned) = Cardinality(expired)
  <2>1. Cardinality(cleaned) =
          IF Cardinality(expired) < MaxCleaned THEN Cardinality(expired) ELSE MaxCleaned
    BY DEF Cleans
  <2> HIDE DEF expired
  <2> QED
    BY <1>1, <1>3, <2>1, CleaningAssumption
<1>5. cleaned = expired
  <2> HIDE DEF expired
  <2>1. cleaned \in SUBSET expired
    BY DEF expired
  <2> QED
    BY <1>3, <1>4, <2>1, FS_Subset
<1>6. places \in SUBSET (1..Len(tokens)) /\ \A i \in places : tokens[i] > clock
  <2>1. \A i \in DOMAIN tokens : tokens[i] \in Nat
    BY <1>1, ElementOfSeq
  <2> QED
    BY <1>1, <1>5, <2>1 DEF Expired
<1>7. /\ rows \in Seq(Nat) /\ Len(rows) = Cardinality(places)
      /\ \A i \in 1..Cardinality(places) : rows[i] > clock
  <2>1. rows = At(tokens, places)
    BY DEF Without
  <2> HIDE DEF rows, places
  <2>2. /\ At(tokens, places) \in Seq(Nat) /\ Len(At(tokens, places)) = Cardinality(places)
        /\ \A i \in 1..Cardinality(places) :
             /\ Ascending(places)[i] \in places
             /\ At(tokens, places)[i] = tokens[Ascending(places)[i]]
    BY <1>6, AtProperties
  <2> QED
    BY <1>6, <2>1, <2>2
<1>8. Len(rows) <= MaxTokens
  <2>1. Cardinality(places) <= Cardinality(DOMAIN tokens) /\ Cardinality(places) \in Nat
    BY <1>2, FS_Subset, FS_CardinalityType
  <2> HIDE DEF rows, places
  <2> QED
    BY <1>1, <1>2, <1>7, <2>1
<1> HIDE DEF rows
<1>9. InForce(rows) = 1..Len(rows) /\ Len(rows) \in Nat
  BY <1>7, LenProperties DEF InForce
<1>10. Cardinality(InForce(rows)) = Len(rows)
  BY <1>9, IntervalHas
<1> QED
  BY <1>7, <1>8, <1>10 DEF rows

Call(name) == Login(name) \/ Register(name)
Calls == (\E name \in Names : Call(name)) \/ RegisterInvalid \/ View \/ Issue \/ IssueFails

LEMMA CallersCall ==
  ASSUME TokensTyped, HasRoom, Calls
  PROVE  \E limits : Called(windows', limits) /\ Admit(limits)
<1>1. \A kind \in {"registrationGlobal", "view", "issuance"} : Global(kind) \in Globals
  BY DEF Globals, GlobalKinds
<1>2. ASSUME NEW name \in Names, Login(name)
      PROVE  \E limits : Called(windows', limits) /\ Admit(limits)
  <2> DEFINE r == LimitBoth(Global("loginGlobal"), Of("login", name))
  <2>1. "login" \in NameKinds /\ Behind["login"] = "loginGlobal"
    BY DEF NameKinds, Behind
  <2>2. Called(r.windows, r.admitted)
    BY <2>1, BothAreCalled
  <2>3. windows' = r.windows /\ Admit(r.admitted)
    BY <1>2 DEF Login
  <2> HIDE DEF r
  <2> QED
    BY <2>2, <2>3
<1>3. ASSUME NEW name \in Names, Register(name)
      PROVE  \E limits : Called(windows', limits) /\ Admit(limits)
  <2> DEFINE r == LimitBoth(Global("registrationGlobal"), Of("registration", name))
  <2>1. "registration" \in NameKinds /\ Behind["registration"] = "registrationGlobal"
    BY DEF NameKinds, Behind
  <2>2. Called(r.windows, r.admitted)
    BY <2>1, BothAreCalled
  <2>3. windows' = r.windows /\ Admit(r.admitted)
    BY <1>3 DEF Register
  <2> HIDE DEF r
  <2> QED
    BY <2>2, <2>3
<1>4. ASSUME NEW global \in Globals,
             windows' = Consume(windows, global).windows,
             Admit(IF Consume(windows, global).allowed THEN {global} ELSE {})
      PROVE  \E limits : Called(windows', limits) /\ Admit(limits)
  <2> DEFINE g == Consume(windows, global)
             limits == IF g.allowed THEN {global} ELSE {}
  <2>1. Called(g.windows, limits)
    BY GlobalIsCalled
  <2> HIDE DEF g
  <2>2. Called(windows', limits) /\ Admit(limits)
    BY <1>4, <2>1 DEF g
  <2> QED
    BY <1>4, <2>2
<1>5. CASE RegisterInvalid
  BY <1>1, <1>4, <1>5 DEF RegisterInvalid
<1>6. CASE View
  BY <1>1, <1>4, <1>6 DEF View
<1>7. CASE Issue
  BY <1>1, <1>4, <1>7 DEF Issue
<1>8. CASE IssueFails
  BY <1>1, <1>4, <1>8 DEF IssueFails
<1> QED
  BY <1>2, <1>3, <1>5, <1>6, <1>7, <1>8 DEF Calls, Call

LEMMA CallsKeepInv ==
  ASSUME LimitsInv, Calls
  PROVE  LimitsInv'
<1>1. /\ TokensTyped /\ TokensFit /\ reopened \in BOOLEAN
      /\ tokens \in Seq(Nat) /\ clock \in Nat /\ verifying \in [Names -> Nat]
      /\ admitted \in [Limited -> SUBSET Admissions]
  BY DEF LimitsInv, TokensTyped
<1>2. clock' = clock /\ reopened' = reopened /\ \E limits : Admit(limits)
  <2>1. clock' = clock
    BY DEF Calls, Call, Login, Register, RegisterInvalid, View, Issue, IssueFails
  <2>2. \E limits : Admit(limits)
    <3>1. CASE \E name \in Names : Login(name)
      BY <3>1 DEF Login
    <3>2. CASE \E name \in Names : Register(name)
      BY <3>2 DEF Register
    <3>3. CASE RegisterInvalid
      BY <3>3 DEF RegisterInvalid
    <3>4. CASE View
      BY <3>4 DEF View
    <3>5. CASE Issue
      BY <3>5 DEF Issue
    <3>6. CASE IssueFails
      BY <3>6 DEF IssueFails
    <3> QED
      BY <3>1, <3>2, <3>3, <3>4, <3>5, <3>6 DEF Calls, Call
  <2> QED
    BY <2>1, <2>2 DEF Admit
<1>3. Mapped(windows')
  <2>1. \A kind \in {"loginGlobal", "registrationGlobal", "view", "issuance"} :
          Global(kind) \in Limited
    BY DEF Limited
  <2>2. \A name \in Names : Of("login", name) \in Limited /\ Of("registration", name) \in Limited
    BY DEF Limited
  <2>3. CASE \E global \in Limited : windows' = Consume(windows, global).windows
    BY <1>1, <2>3, CallsMap
  <2>4. CASE \E global, limit \in Limited : windows' = LimitBoth(global, limit).windows
    BY <1>1, <2>4, CallsMap
  <2>5. \/ \E global \in Limited : windows' = Consume(windows, global).windows
        \/ \E global, limit \in Limited : windows' = LimitBoth(global, limit).windows
    <3>1. CASE \E name \in Names : Login(name)
      BY <2>1, <2>2, <3>1 DEF Login
    <3>2. CASE \E name \in Names : Register(name)
      BY <2>1, <2>2, <3>2 DEF Register
    <3>3. CASE RegisterInvalid
      BY <2>1, <3>3 DEF RegisterInvalid
    <3>4. CASE View
      BY <2>1, <3>4 DEF View
    <3>5. CASE Issue
      BY <2>1, <3>5 DEF Issue
    <3>6. CASE IssueFails
      BY <2>1, <3>6 DEF IssueFails
    <3> QED
      BY <3>1, <3>2, <3>3, <3>4, <3>5, <3>6 DEF Calls, Call
  <2> QED
    BY <2>3, <2>4, <2>5
<1>4. /\ ~reopened => AdmissionsHeld' /\ NamesBacked'
      /\ admitted' \in [Limited -> SUBSET Admissions]
  <2>1. CASE ~reopened
    <3>1. AdmissionsHeld /\ NamesBacked
      BY <2>1 DEF LimitsInv
    <3>2. PICK limits : Called(windows', limits) /\ Admit(limits)
      BY <1>1, <3>1, ThereIsRoom, CallersCall
    <3> QED
      BY <1>1, <1>2, <2>1, <3>1, <3>2, CallKeepsHeld
  <2>2. CASE reopened
    BY <1>1, <1>2, <2>2 DEF Admit
  <2> QED
    BY <2>1, <2>2
<1>5. verifying' \in [Names -> Nat]
  BY <1>1 DEF Calls, Call, Login, Register, RegisterInvalid, View, Issue, IssueFails
<1>6. tokens' \in Seq(Nat) /\ TokensFit'
  <2>1. CASE UNCHANGED tokens
    BY <1>1, <2>1 DEF TokensFit
  <2>2. CASE Issue /\ tokens' # tokens
    <3>1. PICK cleaned \in SUBSET Expired(tokens) :
            /\ Cleans(tokens, cleaned)
            /\ tokens' = IF Cardinality(InForce(Without(tokens, cleaned))) >= MaxTokens
                           THEN Without(tokens, cleaned)
                         ELSE Append(Without(tokens, cleaned), clock + TokenLife)
      BY <2>2 DEF Issue
    <3> DEFINE rows == Without(tokens, cleaned)
    <3>2. rows \in Seq(Nat) /\ Len(rows) <= MaxTokens /\ Cardinality(InForce(rows)) = Len(rows)
      BY <1>1, <3>1, CleaningIsComplete DEF TokensFit
    <3> HIDE DEF rows
    <3>3. tokens' = rows \/ (Len(rows) < MaxTokens /\ tokens' = Append(rows, clock + TokenLife))
      <4>1. Len(rows) \in Nat /\ MaxTokens \in Nat
        BY <3>2, LenProperties, LimitsAssumption
      <4> QED
        BY <3>1, <3>2, <4>1 DEF rows
    <3>4. clock + TokenLife \in Nat /\ MaxTokens \in Nat
      BY <1>1, LimitsAssumption
    <3>5. CASE tokens' = rows
      BY <3>2, <3>5 DEF TokensFit
    <3>6. CASE Len(rows) < MaxTokens /\ tokens' = Append(rows, clock + TokenLife)
      BY <3>2, <3>4, <3>6 DEF TokensFit
    <3> QED
      BY <3>3, <3>5, <3>6
  <2>3. UNCHANGED tokens \/ Issue
    BY DEF Calls, Call, Login, Register, RegisterInvalid, View, IssueFails
  <2> QED
    BY <2>1, <2>2, <2>3
<1> QED
  BY <1>1, <1>2, <1>3, <1>4, <1>5, <1>6 DEF LimitsInv, TokensTyped

LEMMA SuccessKeepsInv ==
  ASSUME LimitsInv, NEW name \in Names, LoginSucceeds(name)
  PROVE  LimitsInv'
<1> DEFINE limit == Of("login", name)
           key == Key(limit)
           places == {i \in DOMAIN windows : windows[i].key # key}
<1>1. /\ TokensTyped /\ TokensFit /\ reopened \in BOOLEAN
      /\ clock \in Nat /\ verifying \in [Names -> Nat] /\ Mapped(windows)
      /\ admitted \in [Limited -> SUBSET Admissions]
  BY DEF LimitsInv, TokensTyped
<1>2. /\ verifying[name] > 0 /\ verifying' = [verifying EXCEPT ![name] = @ - 1]
      /\ windows' = At(windows, places) /\ reopened' = (reopened \/ name = Everybody)
      /\ admitted' = IF reopened' THEN [l \in Limited |-> {}] ELSE [admitted EXCEPT ![limit] = {}]
      /\ UNCHANGED <<tokens, setUp, clock>>
  BY DEF LoginSucceeds, Cleared
<1>3. limit \in Limited /\ limit.kind = "login" /\ limit.name = name
  BY LimitsAndKeys DEF NameKinds
<1>4. places \in SUBSET (1..Len(windows))
  BY <1>1, EntriesAre
<1>5. Mapped(windows') /\ Entries(windows') = {windows[i] : i \in places}
  BY <1>1, <1>2, <1>4, FilterMaps
<1>6. Entries(windows') = {w \in Entries(windows) : w.key # key}
  BY <1>5 DEF Entries
<1> HIDE DEF limit, key, places
<1>7. /\ Live(windows', key, clock) = {}
      /\ \A other : other # key => Live(windows', other, clock) = Live(windows, other, clock)
  BY <1>6 DEF Live
<1>8. verifying' \in [Names -> Nat] /\ admitted' \in [Limited -> SUBSET Admissions]
  <2>1. verifying[name] \in Nat /\ verifying[name] > 0
    BY <1>1, <1>2
  <2>2. verifying' = [verifying EXCEPT ![name] = verifying[name] - 1]
    BY <1>2
  <2>3. verifying' \in [Names -> Nat]
    BY <1>1, <2>1, <2>2
  <2>4. admitted' \in [Limited -> SUBSET Admissions]
    BY <1>1, <1>2
  <2> QED
    BY <2>3, <2>4
<1>9. ASSUME ~reopened' PROVE AdmissionsHeld' /\ NamesBacked'
  <2>1. AdmissionsHeld /\ NamesBacked /\ limit.name # Everybody
    BY <1>1, <1>2, <1>3, <1>9 DEF LimitsInv
  <2>2. \A l \in Limited : admitted'[l] = IF l = limit THEN {} ELSE admitted[l]
    BY <1>1, <1>2, <1>9
  <2>3. \A l \in Limited : Key(l) = key => l = limit
    BY <1>3, <2>1, LimitsAndKeys DEF key
  <2>4. AdmissionsHeld'
    <3> SUFFICES ASSUME NEW l \in Limited
                 PROVE  LimitHeld(l, admitted'[l], Live(windows', Key(l), clock), clock)
      BY <1>2 DEF AdmissionsHeld
    <3>1. CASE l = limit
      BY <1>3, <1>7, <2>2, <3>1, NothingIsHeld DEF key
    <3>2. CASE l # limit
      BY <1>1, <1>7, <2>1, <2>2, <2>3, <3>2 DEF AdmissionsHeld
    <3> QED
      BY <3>1, <3>2
  <2>5. NamesBacked'
    <3> SUFFICES ASSUME NEW kind \in NameKinds
                 PROVE  Backed(windows', kind, clock, admitted'[Global(Behind[kind])])
      BY <1>2 DEF NamesBacked
    <3> DEFINE global == Global(Behind[kind])
    <3>1. global \in Limited /\ global # limit
      BY <1>3, LimitsAndKeys DEF NameKinds
    <3>2. admitted'[global] = admitted[global] /\ admitted[global] \in SUBSET Admissions
      BY <1>1, <2>2, <3>1
    <3>3. \A other \in Keys : Live(windows', other, clock) \subseteq Live(windows, other, clock)
      BY <1>7
    <3>4. Backed(windows, kind, clock, admitted[global])
      BY <2>1 DEF NamesBacked
    <3> DEFINE A == admitted[global]
    <3>5. A \in SUBSET Admissions /\ {a \in A : a.at > clock - Window[kind]} \subseteq A
      BY <3>2
    <3> HIDE DEF global, A
    <3>6. Backed(windows', kind, clock, A)
      BY <1>1, <3>3, <3>4, <3>5, BackedShrinks DEF A
    <3> QED
      BY <3>2, <3>6 DEF global, A
  <2> QED
    BY <2>4, <2>5
<1> QED
  BY <1>1, <1>2, <1>5, <1>8, <1>9 DEF LimitsInv, TokensTyped, TokensFit

LEMMA TickKeepsInv ==
  ASSUME LimitsInv, Tick
  PROVE  LimitsInv'
<1>1. /\ TokensTyped /\ TokensFit /\ reopened \in BOOLEAN
      /\ clock \in Nat /\ verifying \in [Names -> Nat] /\ Mapped(windows)
      /\ admitted \in [Limited -> SUBSET Admissions]
  BY DEF LimitsInv, TokensTyped
<1>2. /\ clock' = clock + 1 /\ UNCHANGED <<windows, tokens, setUp, verifying, reopened>>
      /\ admitted' = [l \in Limited |->
           {a \in admitted[l] : a.at > clock + 1 - Remembered(l)}]
  BY DEF Tick
<1>3. \A l \in Limited : admitted'[l] \in SUBSET admitted[l]
  BY <1>2
<1>4. \A key : Live(windows, key, clock + 1) =
                {w \in Live(windows, key, clock) : w.resetAt > clock + 1}
  <2>1. \A w \in Entries(windows) : w.resetAt \in Nat
    BY <1>1, EntriesAre DEF WindowRecords
  <2> QED
    BY <1>1, <2>1 DEF Live
<1>5. ASSUME ~reopened PROVE AdmissionsHeld'
  <2> SUFFICES ASSUME NEW l \in Limited
               PROVE  LimitHeld(l, admitted'[l], Live(windows, Key(l), clock + 1), clock + 1)
    BY <1>2 DEF AdmissionsHeld
  <2> DEFINE A == admitted[l]
             B == admitted'[l]
             L == Live(windows, Key(l), clock)
  <2>1. L \in SUBSET WindowRecords
    BY <1>1, EntriesAre DEF Live
  <2>2. LimitHeld(l, A, L, clock) /\ B \in SUBSET A
    BY <1>3, <1>5 DEF AdmissionsHeld, LimitsInv
  <2> HIDE DEF A, B, L
  <2>3. LimitHeld(l, B, {w \in L : w.resetAt > clock + 1}, clock + 1)
    BY <1>1, <2>1, <2>2, TickKeepsHeld
  <2> QED
    BY <1>4, <2>3 DEF B, L
<1>6. ASSUME ~reopened PROVE NamesBacked'
  <2> SUFFICES ASSUME NEW kind \in NameKinds
               PROVE  Backed(windows, kind, clock + 1, admitted'[Global(Behind[kind])])
    BY <1>2 DEF NamesBacked
  <2> DEFINE global == Global(Behind[kind])
             A == admitted[global]
             B == admitted'[global]
  <2>1. global \in Limited
    BY LimitsAndKeys
  <2>2. A \in SUBSET Admissions /\ Backed(windows, kind, clock, A)
    BY <1>1, <1>6, <2>1 DEF NamesBacked, LimitsInv
  <2>3. B = {a \in A : a.at > clock + 1 - Remembered(global)}
    BY <1>2, <2>1
  <2>4. /\ Remembered(global) \in Nat /\ Window[kind] \in Nat
        /\ Remembered(global) >= Window[kind]
    BY RememberedIsLong, LimitsAssumption DEF NameKinds, Kinds
  <2>5. \A a \in A : a.at \in Nat
    BY <2>2 DEF Admissions
  <2> HIDE DEF A, B, global
  <2>6. {a \in A : a.at > (clock + 1) - Window[kind]} \subseteq B
    BY <1>1, <2>3, <2>4, <2>5
  <2>7. \A key \in Keys : Live(windows, key, clock + 1) \subseteq Live(windows, key, clock)
    BY <1>4
  <2> DEFINE next == clock + 1
  <2>8. next \in Nat
    BY <1>1
  <2> HIDE DEF next
  <2>9. Backed(windows, kind, next, B)
    BY <1>1, <2>2, <2>6, <2>7, <2>8, BackedShrinks DEF next
  <2> QED
    BY <2>9 DEF next, B, global
<1>7. admitted' \in [Limited -> SUBSET Admissions]
  <2>1. \A l \in Limited : admitted[l] \in SUBSET Admissions
    BY <1>1
  <2> QED
    BY <1>2, <2>1
<1>8. clock' \in Nat
  BY <1>1, <1>2
<1> QED
  BY <1>1, <1>2, <1>5, <1>6, <1>7, <1>8 DEF LimitsInv, TokensTyped, TokensFit

LEMMA NothingIsLive ==
  /\ Mapped(<<>>) /\ \A key, now : Live(<<>>, key, now) = {}
  /\ \A kind, now : Backed(<<>>, kind, now, {})
<1>1. Entries(<<>>) = {} /\ Unique(<<>>) /\ <<>> \in Seq(WindowRecords)
  BY EmptySeq DEF Entries, Unique
<1>2. \A key, now : Live(<<>>, key, now) = {}
  BY <1>1 DEF Live
<1>3. ASSUME NEW kind, NEW now PROVE Backed(<<>>, kind, now, {})
  <2> DEFINE f == [key \in {} |-> {}]
  <2>1. InUse(<<>>, kind, now) = {}
    BY <1>2 DEF InUse
  <2>2. f \in [{} -> {}]
    OBVIOUS
  <2> HIDE DEF f
  <2>3. StandsFor(f, <<>>, kind, now, {})
    BY <2>1, <2>2 DEF StandsFor
  <2> QED
    BY <2>3 DEF Backed
<1> QED
  BY <1>1, <1>2, <1>3 DEF Mapped

LEMMA StartIsHeld ==
  ASSUME clock \in Nat, windows = <<>>, admitted = [l \in Limited |-> {}]
  PROVE  /\ Mapped(windows) /\ AdmissionsHeld /\ NamesBacked
         /\ admitted \in [Limited -> SUBSET Admissions]
<1>1. AdmissionsHeld
  BY NothingIsLive, NothingIsHeld DEF AdmissionsHeld
<1>2. NamesBacked
  <2>1. \A kind \in NameKinds : admitted[Global(Behind[kind])] = {}
    BY LimitsAndKeys
  <2> QED
    BY <2>1, NothingIsLive DEF NamesBacked
<1> QED
  BY <1>1, <1>2, NothingIsLive

-----------------------------------------------------------------------------
(* The theorems. *)

(* The types of the state and, until a user called Everybody logs in, the  *)
(* admissions of every limit beside the window in force of its key, and    *)
(* the admission behind every window of a name, are kept by every step of  *)
(* the limiter, its callers and the tokens.                                *)
THEOREM LimitsInvariant == TokensSpec => []LimitsInv
<1>1. TokensInit => LimitsInv
  <2> SUFFICES ASSUME TokensInit PROVE LimitsInv
    OBVIOUS
  <2>1. /\ clock \in Nat /\ windows = <<>> /\ admitted = [l \in Limited |-> {}]
        /\ verifying \in [Names -> Nat] /\ tokens = <<>> /\ reopened = FALSE
    BY DEF TokensInit
  <2>2. tokens \in Seq(Nat) /\ Len(tokens) = 0 /\ MaxTokens \in Nat
    BY <2>1, EmptySeq, LimitsAssumption
  <2>3. /\ Mapped(windows) /\ AdmissionsHeld /\ NamesBacked
        /\ admitted \in [Limited -> SUBSET Admissions]
    BY <2>1, StartIsHeld
  <2>4. TokensTyped
    BY <2>1, <2>2, <2>3 DEF TokensTyped
  <2> QED
    BY <2>1, <2>2, <2>3, <2>4 DEF LimitsInv, TokensFit
<1>2. LimitsInv /\ [TokensNext]_tokensVars => LimitsInv'
  <2> SUFFICES ASSUME LimitsInv, [TokensNext]_tokensVars PROVE LimitsInv'
    OBVIOUS
  <2>1. CASE Calls
    BY <2>1, CallsKeepInv
  <2>2. CASE \E name \in Names : LoginSucceeds(name)
    BY <2>2, SuccessKeepsInv
  <2>3. CASE \E name \in Names : LoginFails(name)
    <3>1. verifying' \in [Names -> Nat]
      BY <2>3 DEF LimitsInv, TokensTyped, LoginFails
    <3>2. UNCHANGED <<windows, tokens, clock, admitted, reopened>>
      BY <2>3 DEF LoginFails
    <3> QED
      BY <3>1, <3>2 DEF LimitsInv, TokensTyped, AdmissionsHeld, NamesBacked, TokensFit
  <2>4. CASE SetUp
    BY <2>4 DEF SetUp, LimitsInv, TokensTyped, AdmissionsHeld, NamesBacked, TokensFit
  <2>5. CASE Restart
    <3>1. /\ windows' = <<>> /\ admitted' = [l \in Limited |-> {}]
          /\ verifying' \in [Names -> Nat] /\ clock' = clock /\ tokens' = tokens
          /\ reopened' = FALSE
      BY <2>5 DEF Restart
    <3>2. clock \in Nat /\ tokens \in Seq(Nat) /\ TokensFit
      BY DEF LimitsInv, TokensTyped
    <3>3. AdmissionsHeld'
      BY <3>1, NothingIsLive, NothingIsHeld DEF AdmissionsHeld
    <3>4. NamesBacked'
      <4>1. \A kind \in NameKinds : admitted'[Global(Behind[kind])] = {}
        BY <3>1, LimitsAndKeys
      <4> QED
        BY <3>1, <4>1, NothingIsLive DEF NamesBacked
    <3>5. Mapped(windows') /\ admitted' \in [Limited -> SUBSET Admissions]
      BY <3>1, NothingIsLive
    <3> QED
      BY <3>1, <3>2, <3>3, <3>4, <3>5 DEF LimitsInv, TokensTyped, TokensFit
  <2>6. CASE Tick
    BY <2>6, TickKeepsInv
  <2>7. CASE UNCHANGED tokensVars
    BY <2>7 DEF tokensVars, LimitsInv, TokensTyped, AdmissionsHeld, NamesBacked, TokensFit
  <2> QED
    BY <2>1, <2>2, <2>3, <2>4, <2>5, <2>6, <2>7 DEF TokensNext, Calls, Call
<1> QED
  BY <1>1, <1>2, PTL DEF TokensSpec

(* Until a user called Everybody logs in, no limit is admitted more than   *)
(* twice its maximum within the time of one window (consumeRateLimit), and *)
(* the table never holds more tokens than may be in force                  *)
(* (issueDemoApiToken).                                                    *)
THEOREM LimitsAlwaysHold == TokensSpec => []LimitsHold
<1>1. LimitsInv => LimitsHold
  <2> SUFFICES ASSUME LimitsInv, ~reopened, NEW l \in Limited
               PROVE  Cardinality({a \in admitted[l] : a.at > clock - Life(l)})
                        <= 2 * Maximum[l.kind]
    BY DEF LimitsHold, LimitsInv, TokensFit
  <2> DEFINE A == admitted[l]
             W == Life(l)
             M == Maximum[l.kind]
  <2>1. W \in Nat \ {0} /\ M \in Nat \ {0}
    BY LimitedProperties
  <2>2. /\ A \in SUBSET Admissions /\ IsFiniteSet(A) /\ clock \in Nat
        /\ Spaced(A, W, clock) /\ Grouped(A, M)
    BY DEF LimitsInv, AdmissionsHeld, LimitHeld, TokensTyped
  <2> HIDE DEF A, W, M
  <2>3. W \in Nat /\ W <= 2 * W
    BY <2>1
  <2>4. Cardinality(Since(A, clock - W)) <= Most(W, W, M)
    BY <2>1, <2>2, <2>3, SpanHoldsFew
  <2>5. Most(W, W, M) = 2 * M
    BY <2>1 DEF Most
  <2> QED
    BY <2>4, <2>5 DEF Since, A, W, M
<1> QED
  BY <1>1, LimitsInvariant, PTL

LEMMA NothingInForceIsForgotten ==
  ASSUME LimitsInv, [TokensNext]_tokensVars, NEW i \in DOMAIN windows, windows[i].resetAt > clock'
  PROVE  \/ \E j \in DOMAIN windows' :
              /\ windows'[j].key = windows[i].key
              /\ windows'[j].resetAt = windows[i].resetAt
              /\ windows'[j].count >= windows[i].count
         \/ windows' = <<>>
         \/ \E name \in Names :
              windows[i].key = Key(Of("login", name)) /\ verifying'[name] < verifying[name]
         \/ reopened /\ MapIsFull
<1> DEFINE w == windows[i]
<1>1. /\ Mapped(windows) /\ w \in Entries(windows) /\ w \in WindowRecords
      /\ w.key \in Keys /\ w.count \in Nat /\ TokensTyped
  <2>1. Mapped(windows) /\ w \in Entries(windows)
    BY DEF LimitsInv, TokensTyped, Entries
  <2> QED
    BY <2>1, EntriesAre DEF WindowRecords, LimitsInv
<1>2. CASE UNCHANGED windows
  BY <1>1, <1>2
<1>3. CASE Calls /\ ~(reopened /\ MapIsFull)
  <2>1. HasRoom
    BY <1>1, <1>3, ThereIsRoom, RoomUnlessFull DEF LimitsInv
  <2>2. PICK limits : Called(windows', limits)
    BY <1>1, <1>3, <2>1, CallersCall
  <2>3. clock' = clock
    BY <1>3 DEF Calls, Call, Login, Register, RegisterInvalid, View, Issue, IssueFails
  <2>4. w \in Live(windows, w.key, clock)
    BY <1>1, <2>3 DEF Live
  <2>5. PICK l \in Limited : Key(l) = w.key
    BY <1>1 DEF Keys
  <2>6. \/ Live(windows', w.key, clock) = Live(windows, w.key, clock)
        \/ \E m : Charge(m, Live(windows, w.key, clock), Live(windows', w.key, clock), clock)
    BY <2>2, <2>5 DEF Called, Charged
  <2>7. PICK v \in Live(windows', w.key, clock) : v.resetAt = w.resetAt /\ v.count >= w.count
    <3>1. CASE Live(windows', w.key, clock) = Live(windows, w.key, clock)
      BY <1>1, <2>4, <3>1
    <3>2. CASE \E m : Charge(m, Live(windows, w.key, clock), Live(windows', w.key, clock), clock)
      <4>1. PICK v : /\ Live(windows', w.key, clock) = {v}
                     /\ v.resetAt = w.resetAt /\ v.count > w.count
        BY <2>4, <3>2 DEF Charge
      <4>2. v.count \in Nat
        BY <2>2, <4>1, EntriesAre DEF Called, Live, WindowRecords
      <4> QED
        BY <1>1, <4>1, <4>2
    <3> QED
      BY <2>6, <3>1, <3>2
  <2>8. PICK j \in DOMAIN windows' : windows'[j] = v
    BY DEF Live, Entries
  <2>9. v.key = w.key
    BY DEF Live
  <2> QED
    BY <2>7, <2>8, <2>9
<1>4. ASSUME NEW name \in Names, LoginSucceeds(name)
      PROVE  \/ \E j \in DOMAIN windows' : windows'[j] = w
             \/ w.key = Key(Of("login", name)) /\ verifying'[name] < verifying[name]
  <2> DEFINE places == {k \in DOMAIN windows : windows[k].key # Key(Of("login", name))}
  <2>1. CASE w.key = Key(Of("login", name))
    <3>1. verifying[name] \in Nat /\ verifying'[name] = verifying[name] - 1
      BY <1>4 DEF LoginSucceeds, LimitsInv, TokensTyped
    <3> QED
      BY <2>1, <3>1
  <2>2. CASE w.key # Key(Of("login", name))
    <3>1. places \in SUBSET (1..Len(windows)) /\ windows' = At(windows, places)
      BY <1>1, <1>4, EntriesAre DEF LoginSucceeds, Cleared
    <3>2. Entries(windows') = {windows[k] : k \in places}
      BY <1>1, <3>1, FilterMaps
    <3>3. w \in Entries(windows')
      BY <2>2, <3>2
    <3> QED
      BY <3>3 DEF Entries
  <2> QED
    BY <2>1, <2>2
<1>5. CASE \E name \in Names : LoginSucceeds(name)
  <2>1. PICK name \in Names : LoginSucceeds(name)
    BY <1>5
  <2>2. CASE \E j \in DOMAIN windows' : windows'[j] = w
    BY <1>1, <2>2
  <2>3. CASE w.key = Key(Of("login", name)) /\ verifying'[name] < verifying[name]
    BY <2>3
  <2> QED
    BY <1>4, <2>1, <2>2, <2>3
<1>6. Restart => windows' = <<>>
  BY DEF Restart
<1>7. \/ UNCHANGED windows \/ Calls \/ Restart
      \/ \E name \in Names : LoginSucceeds(name)
  BY DEF TokensNext, tokensVars, Calls, Call, LoginFails, SetUp, Tick
<1> QED
  BY <1>2, <1>3, <1>5, <1>6, <1>7

(* No limit in force is forgotten but by a restart of the process or for a *)
(* login that succeeds, which takes everybody's for a user called          *)
(* Everybody: from then on, also to make room in a map that is full.       *)
THEOREM NoWindowIsForgotten == TokensSpec => NoWindowForgotten
<1>1. LimitsInv /\ [TokensNext]_tokensVars =>
        \A i \in DOMAIN windows :
          windows[i].resetAt > clock' =>
            \/ \E j \in DOMAIN windows' :
                 /\ windows'[j].key = windows[i].key
                 /\ windows'[j].resetAt = windows[i].resetAt
                 /\ windows'[j].count >= windows[i].count
            \/ windows' = <<>>
            \/ \E name \in Names :
                 windows[i].key = Key(Of("login", name)) /\ verifying'[name] < verifying[name]
            \/ reopened /\ MapIsFull
  BY NothingInForceIsForgotten
<1> QED
  BY <1>1, LimitsInvariant, PTL DEF TokensSpec, NoWindowForgotten

=============================================================================
