----------------------------- MODULE StoreProofs -----------------------------
(***************************************************************************)
(* Proofs about what is kept in the database.  First the accounts, for     *)
(* every set of users, names, sessions, keys and calls, every cap and      *)
(* every lifetime; then the counts of the analytics recorder, for every    *)
(* set of hours and requests and every limit of the pending map.           *)
(***************************************************************************)
EXTENDS Accounts, Analytics, FiniteSetTheorems, TLAPS

(* What a call in flight has read: the user it is about exists (users are  *)
(* never deleted), and it began at a time of the clock.                    *)
CallOK(call) ==
  call.op # "none" =>
    /\ call.op \in {"bootstrap", "register"} => call.name \in Names
    /\ call.op \notin {"bootstrap", "register"} => call.user \in Existing
    /\ call.stage = "hashing" => call.now \in 1..MaxTime

CallsOK == calls = [c \in Calls |-> calls[c]] /\ \A c \in Calls : CallOK(calls[c])

FiniteSessions == \A id \in Ids : IsFiniteSet(SessionsOf(id))

(* A key that was retired can be seen to be so: it expired or was revoked. *)
Gone(k) == Issued(k) /\ (keys[k].revoked \/ keys[k].expires <= clock)
RetiredAreGone == \A k \in retired : Gone(k)

IInv ==
  /\ TypeOK /\ CallsOK
  /\ OneAdministrator /\ NamesUnique
  /\ FiniteSessions /\ SessionsWithinCap
  /\ RetiredAreGone

(* The part of the invariant each argument starts from. *)
Rows == TypeOK /\ CallsOK

-----------------------------------------------------------------------------
(* Times. *)

LEMMA ConstantsAreNumbers ==
  /\ MaxSessions \in Nat /\ MaxSessions > 0
  /\ NormalLife \in Nat /\ NormalLife > 0 /\ RestrictedLife \in Nat /\ RestrictedLife > 0
  /\ TemporaryLife \in Nat /\ TemporaryLife > 0 /\ KeyLife \in Nat /\ KeyLife > 0
  /\ MaxTime \in Nat /\ MaxTime > 0
BY CapsAssumption, LivesAssumption

LEMMA TimesAreLate ==
  ASSUME NEW now \in 1..MaxTime
  PROVE  /\ now \in Times /\ now + NormalLife \in Times /\ now + RestrictedLife \in Times
         /\ now + TemporaryLife \in Times /\ now + KeyLife \in Times
         /\ now # Null /\ now + TemporaryLife # Null /\ now + KeyLife # Null
BY ConstantsAreNumbers DEF Times, Null

LEMMA TimesAreNumbers == Times \subseteq Nat /\ Null \in Nat /\ Null \notin Times
BY ConstantsAreNumbers DEF Times, Null

-----------------------------------------------------------------------------
(* Sessions. *)

(* createBrowserSession leaves rows it found, and adds one with a new id.  *)
LEMMA SessionIsInserted ==
  ASSUME TypeOK, NEW rows \in SUBSET sessions, NEW id \in Ids, NEW restricted,
         NEW now \in 1..MaxTime, CreateSession(rows, id, restricted, now)
  PROVE  \E new \in [id : SessionIds, user : {id}, created : Times, expires : Times] :
           /\ \A s \in sessions : s.id # new.id
           /\ sessions' \subseteq rows \union {new}
<1> DEFINE live == {s \in rows : s.expires > now}
           active == {s \in live : s.user = id}
           life == IF restricted THEN RestrictedLife ELSE NormalLife
           new == [id |-> FreshId, user |-> id, created |-> now, expires |-> now + life]
<1>1. PICK rest \in SUBSET active : sessions' = (live \ active) \union rest \union {new}
  BY Zenon DEF CreateSession
<1>2. FreshId \in FreshIds
  <2>1. FreshIds # {}
    BY Zenon DEF CreateSession
  <2> QED
    BY <2>1 DEF FreshId
<1>3. FreshId \in SessionIds /\ \A s \in sessions : s.id # FreshId
  BY <1>2 DEF FreshIds
<1>4. now \in Times /\ now + life \in Times
  BY TimesAreLate
<1>5. new \in [id : SessionIds, user : {id}, created : Times, expires : Times]
  BY <1>3, <1>4
<1>6. sessions' \subseteq rows \union {new}
  BY <1>1
<1>7. \A s \in sessions : s.id # new.id
  BY <1>3
<1> HIDE DEF new
<1> QED
  BY <1>5, <1>6, <1>7

(* Deleting keeps the caps. *)
LEMMA FewerSessions ==
  ASSUME FiniteSessions, SessionsWithinCap, sessions' \subseteq sessions
  PROVE  FiniteSessions' /\ SessionsWithinCap'
<1> SUFFICES ASSUME NEW id \in Ids
             PROVE  IsFiniteSet(SessionsOf(id)') /\ Cardinality(SessionsOf(id)') <= MaxSessions
  BY DEF FiniteSessions, SessionsWithinCap
<1>1. SessionsOf(id)' \subseteq SessionsOf(id)
  BY DEF SessionsOf
<1>2. IsFiniteSet(SessionsOf(id)) /\ Cardinality(SessionsOf(id)) <= MaxSessions
  BY DEF FiniteSessions, SessionsWithinCap
<1>3. /\ IsFiniteSet(SessionsOf(id)')
      /\ Cardinality(SessionsOf(id)') <= Cardinality(SessionsOf(id))
  BY <1>1, <1>2, FS_Subset
<1>4. Cardinality(SessionsOf(id)') \in Nat /\ Cardinality(SessionsOf(id)) \in Nat
  BY <1>2, <1>3, FS_CardinalityType
<1> QED
  BY <1>2, <1>3, <1>4, ConstantsAreNumbers

(* What is left of a set after the excess is gone has room for one. *)
LEMMA RoomAfterEviction ==
  ASSUME NEW active, IsFiniteSet(active), NEW rest \in SUBSET active,
         RestAfterEviction(active, rest)
  PROVE  IsFiniteSet(rest) /\ Cardinality(rest) < MaxSessions
<1>1. IsFiniteSet(rest) /\ Cardinality(rest) <= Cardinality(active)
  BY FS_Subset
<1>2. Cardinality(active \ rest) = Cardinality(active) - Cardinality(active \cap rest)
  BY FS_Difference
<1>3. active \cap rest = rest
  OBVIOUS
<1>4. Cardinality(rest) \in Nat /\ Cardinality(active) \in Nat
  BY <1>1, FS_CardinalityType
<1>5. Cardinality(active \ rest) =
        IF Cardinality(active) - MaxSessions + 1 > 0
          THEN Cardinality(active) - MaxSessions + 1 ELSE 0
  BY DEF RestAfterEviction, Newest
<1> DEFINE a == Cardinality(active)
           r == Cardinality(rest)
<1>6. (IF a - MaxSessions + 1 > 0 THEN a - MaxSessions + 1 ELSE 0) = a - r
  BY <1>2, <1>3, <1>5
<1>7. a \in Nat /\ r \in Nat /\ r <= a
  BY <1>1, <1>4
<1> HIDE DEF a, r
<1>8. r < MaxSessions
  BY <1>6, <1>7, ConstantsAreNumbers
<1> QED
  BY <1>1, <1>8 DEF r

(* createBrowserSession keeps the cap of its user, and takes from others.  *)
LEMMA CapIsKept ==
  ASSUME TypeOK, FiniteSessions, SessionsWithinCap,
         NEW rows \in SUBSET sessions, NEW id \in Ids, NEW restricted, NEW now,
         CreateSession(rows, id, restricted, now)
  PROVE  FiniteSessions' /\ SessionsWithinCap'
<1> DEFINE live == {s \in rows : s.expires > now}
           active == {s \in live : s.user = id}
           life == IF restricted THEN RestrictedLife ELSE NormalLife
           new == [id |-> FreshId, user |-> id, created |-> now, expires |-> now + life]
<1>1. PICK rest \in SUBSET active :
        /\ RestAfterEviction(active, rest)
        /\ sessions' = (live \ active) \union rest \union {new}
  BY Zenon DEF CreateSession
<1>2. new.user = id
  OBVIOUS
<1> HIDE DEF new
<1> SUFFICES ASSUME NEW x \in Ids
             PROVE  IsFiniteSet(SessionsOf(x)') /\ Cardinality(SessionsOf(x)') <= MaxSessions
  BY DEF FiniteSessions, SessionsWithinCap
<1>3. IsFiniteSet(SessionsOf(x)) /\ Cardinality(SessionsOf(x)) <= MaxSessions
  BY DEF FiniteSessions, SessionsWithinCap
<1>4. CASE x = id
  <2>1. active \subseteq SessionsOf(id)
    BY DEF SessionsOf
  <2>2. IsFiniteSet(active)
    BY <2>1, <1>3, <1>4, FS_Subset
  <2>3. IsFiniteSet(rest) /\ Cardinality(rest) < MaxSessions
    BY <1>1, <2>2, RoomAfterEviction
  <2>4. SessionsOf(id)' = rest \union {new}
    BY <1>1, <1>2 DEF SessionsOf
  <2>5. /\ IsFiniteSet(rest \union {new})
        /\ Cardinality(rest \union {new}) =
             IF new \in rest THEN Cardinality(rest) ELSE Cardinality(rest) + 1
    BY <2>3, FS_AddElement
  <2>6. Cardinality(rest) \in Nat
    BY <2>3, FS_CardinalityType
  <2>7. Cardinality(rest \union {new}) <= MaxSessions
    BY <2>3, <2>5, <2>6, ConstantsAreNumbers
  <2> QED
    BY <1>4, <2>4, <2>5, <2>7
<1>5. CASE x # id
  <2>1. SessionsOf(x)' \subseteq SessionsOf(x)
    BY <1>1, <1>2, <1>5 DEF SessionsOf
  <2>2. /\ IsFiniteSet(SessionsOf(x)')
        /\ Cardinality(SessionsOf(x)') <= Cardinality(SessionsOf(x))
    BY <2>1, <1>3, FS_Subset
  <2>3. Cardinality(SessionsOf(x)') \in Nat /\ Cardinality(SessionsOf(x)) \in Nat
    BY <1>3, <2>2, FS_CardinalityType
  <2> QED
    BY <1>3, <2>2, <2>3, ConstantsAreNumbers
<1> QED
  BY <1>4, <1>5

-----------------------------------------------------------------------------
(* Users and calls. *)

(* Operations that leave name and role of every user, and the status of    *)
(* administrators, keep what depends on them.                              *)
LEMMA SameUsers ==
  ASSUME TypeOK, OneAdministrator, NamesUnique, users' \in [Ids -> UserRows],
         \A id \in Ids : users'[id].name = users[id].name /\ users'[id].role = users[id].role,
         \A id \in Administrators : users'[id].status = users[id].status
  PROVE  Existing' = Existing /\ OneAdministrator' /\ NamesUnique'
<1>1. Existing' = Existing
  BY DEF Existing, Exists
<1>2. Administrators' = Administrators
  BY <1>1 DEF Administrators, Existing
<1>3. OneAdministrator'
  BY <1>1, <1>2 DEF OneAdministrator
<1>4. NamesUnique'
  BY <1>1 DEF NamesUnique, Existing
<1> QED
  BY <1>1, <1>3, <1>4

(* A new user of an unused name joins the others.                          *)
LEMMA UserIsAdded ==
  ASSUME TypeOK, NamesUnique, NEW id \in Ids, ~Exists(id),
         NEW name \in Names, Named(name) = {}, NEW role \in {"admin", "member"},
         users' = [users EXCEPT ![id] = Row(name, role)]
  PROVE  /\ users' \in [Ids -> UserRows]
         /\ Existing' = Existing \union {id} /\ NamesUnique'
         /\ \A x \in Existing : users'[x] = users[x]
         /\ users'[id] = Row(name, role)
<1>1. Row(name, role) \in UserRows /\ Row(name, role).role = role /\ Row(name, role).name = name
  BY DEF Row, UserRows, Null
<1>2. /\ users' \in [Ids -> UserRows] /\ users'[id] = Row(name, role)
      /\ \A x \in Ids : x # id => users'[x] = users[x]
  BY <1>1 DEF TypeOK
<1>3. Existing' = Existing \union {id}
  BY <1>1, <1>2 DEF Existing, Exists
<1>4. id \notin Existing
  BY DEF Existing
<1>5. NamesUnique'
  BY <1>1, <1>2, <1>3, <1>4 DEF NamesUnique, Named, Existing
<1> QED
  BY <1>2, <1>3, <1>4, <1>5 DEF Existing

(* A new password changes two fields of one row. *)
LEMMA PasswordIsWritten ==
  ASSUME users \in [Ids -> UserRows], NEW id \in Ids,
         NEW must \in BOOLEAN, NEW until \in Times \union {Null},
         users' = [users EXCEPT ![id] = [@ EXCEPT !.must = must, !.until = until]]
  PROVE  /\ users' \in [Ids -> UserRows]
         /\ \A x \in Ids : /\ users'[x].name = users[x].name /\ users'[x].role = users[x].role
                           /\ users'[x].status = users[x].status
         /\ \A x \in Ids : x # id => users'[x] = users[x]
         /\ users'[id].must = must /\ users'[id].until = until
<1> DEFINE old == users[id]
           row == [old EXCEPT !.must = must, !.until = until]
<1>1. old \in UserRows
  OBVIOUS
<1>2. users' = [users EXCEPT ![id] = row]
  OBVIOUS
<1> HIDE DEF old
<1>3. row \in UserRows
  BY <1>1 DEF UserRows
<1>4. /\ row.name = old.name /\ row.role = old.role
      /\ row.status = old.status /\ row.must = must /\ row.until = until
  BY <1>1 DEF UserRows
<1> HIDE DEF row
<1>5. /\ users' \in [Ids -> UserRows] /\ users'[id] = row
      /\ \A x \in Ids : x # id => users'[x] = users[x]
  BY <1>2, <1>3
<1> QED
  BY <1>4, <1>5 DEF old

LEMMA CallIsKept ==
  ASSUME TypeOK, CallsOK, NEW c \in Calls, Existing \subseteq Existing',
         calls' = [calls EXCEPT ![c] = calls'[c]],
         CallOK(calls[c])', calls'[c].op \in Operations \union {"none"}
  PROVE  CallsOK' /\ \A d \in Calls : calls'[d].op \in Operations \union {"none"}
<1>1. calls' = [d \in Calls |-> calls'[d]] /\ \A d \in Calls : d # c => calls'[d] = calls[d]
  BY DEF CallsOK
<1>2. ASSUME NEW d \in Calls PROVE CallOK(calls[d])'
  <2>1. CASE d = c
    BY <2>1
  <2>2. CASE d # c
    <3>1. calls'[d] = calls[d]
      BY <1>1, <2>2
    <3>2. CallOK(calls[d])
      BY DEF CallsOK
    <3> QED
      BY <3>1, <3>2 DEF CallOK
  <2> QED
    BY <2>1, <2>2
<1>3. CallsOK'
  BY <1>1, <1>2, Zenon DEF CallsOK
<1>4. \A d \in Calls : calls'[d].op \in Operations \union {"none"}
  BY <1>1 DEF TypeOK
<1> QED
  BY <1>3, <1>4

LEMMA CallReturns ==
  ASSUME TypeOK, CallsOK, NEW c \in Calls, Existing \subseteq Existing', Return(c)
  PROVE  CallsOK' /\ \A d \in Calls : calls'[d].op \in Operations \union {"none"}
<1>1. calls'[c] = Idle /\ calls' = [calls EXCEPT ![c] = calls'[c]]
  BY DEF CallsOK, Return
<1>2. CallOK(calls[c])' /\ calls'[c].op \in Operations \union {"none"}
  BY <1>1 DEF CallOK, Idle
<1> QED
  BY <1>1, <1>2, CallIsKept

(* What At tells of the call that goes on. *)
LEMMA CallGoesOn ==
  ASSUME CallsOK, NEW c \in Calls, NEW op, NEW stage, op # "none", At(c, op, stage)
  PROVE  /\ op \in {"bootstrap", "register"} => calls[c].name \in Names
         /\ op \notin {"bootstrap", "register"} => calls[c].user \in Existing
         /\ stage = "hashing" => calls[c].now \in 1..MaxTime
BY DEF CallsOK, CallOK, At

-----------------------------------------------------------------------------
(* What every step keeps.                                                   *)

Rights ==
  \A s \in sessions :
    Reads(s) /\ s \in sessions' /\ s.expires > clock' =>
      Reads(s)' /\ users'[s.user].must = users[s.user].must

KeysStayGone ==
  \A k \in KeyIds : /\ Gone(k) => Gone(k)'
                    /\ Authenticates(k) /\ ~Authenticates(k)' => Gone(k)'

Invariants == TypeOK /\ CallsOK /\ OneAdministrator /\ NamesUnique
                /\ FiniteSessions /\ SessionsWithinCap

Kept == Invariants' /\ Rights /\ KeysStayGone

LEMMA KeysUntouched ==
  ASSUME TypeOK, UNCHANGED <<keys, clock>>,
         \A x \in Existing : users'[x].status = users[x].status
  PROVE  KeysStayGone
<1> SUFFICES ASSUME NEW k \in KeyIds
             PROVE  /\ Gone(k) => Gone(k)'
                    /\ Authenticates(k) /\ ~Authenticates(k)' => Gone(k)'
  BY DEF KeysStayGone
<1>1. Gone(k) => Gone(k)'
  BY DEF Gone, Issued
<1>2. Authenticates(k) => Authenticates(k)'
  BY DEF Authenticates, Issued, TypeOK
<1> QED
  BY <1>1, <1>2

(* A call begins, goes on to its hash, or is refused: no row changes. *)
LEMMA CallStep ==
  ASSUME Invariants, retired' \subseteq KeyIds, NEW c \in Calls,
         UNCHANGED <<users, sessions, keys, clock>>,
         calls' = [calls EXCEPT ![c] = calls'[c]],
         CallOK(calls[c])', calls'[c].op \in Operations \union {"none"}
  PROVE  Kept
<1>1. Existing' = Existing
  BY DEF Existing, Exists
<1>2. CallsOK' /\ \A d \in Calls : calls'[d].op \in Operations \union {"none"}
  BY <1>1, CallIsKept DEF Invariants
<1>3. TypeOK'
  BY <1>1, <1>2 DEF Invariants, TypeOK, Exists, Issued
<1>4. OneAdministrator' /\ NamesUnique'
  BY <1>1 DEF Invariants, OneAdministrator, NamesUnique, Administrators
<1>5. FiniteSessions' /\ SessionsWithinCap'
  BY FewerSessions DEF Invariants
<1>6. Rights
  BY DEF Rights, Reads
<1>7. KeysStayGone
  BY KeysUntouched DEF Invariants
<1> QED
  BY <1>2, <1>3, <1>4, <1>5, <1>6, <1>7 DEF Kept, Invariants

LEMMA RefusedStep ==
  ASSUME Invariants, retired' \subseteq KeyIds, NEW c \in Calls, Refused(c)
  PROVE  Kept
<1>1. calls'[c] = Idle /\ calls' = [calls EXCEPT ![c] = calls'[c]]
  BY DEF Refused, Return, Invariants, CallsOK
<1>2. CallOK(calls[c])' /\ calls'[c].op \in Operations \union {"none"}
  BY <1>1 DEF CallOK, Idle
<1> QED
  BY <1>1, <1>2, CallStep DEF Refused

LEMMA AuthorizeStep ==
  ASSUME Invariants, retired' \subseteq KeyIds, NEW c \in Calls, NEW s \in sessions,
         NEW op \in Operations, Authorize(c, s, op)
  PROVE  Kept
<1>1. /\ calls'[c] = [op |-> op, stage |-> "authorized", user |-> s.user]
      /\ calls' = [calls EXCEPT ![c] = calls'[c]]
  BY DEF Authorize, Begin, Invariants, CallsOK
<1>2. s.user \in Existing /\ Existing' = Existing
  BY DEF Authorize, Invariants, TypeOK, Existing, Exists
<1>3. op \notin {"bootstrap", "register"}
  BY DEF Authorize, Granted
<1>4. CallOK(calls[c])' /\ calls'[c].op \in Operations \union {"none"}
  BY <1>1, <1>2, <1>3 DEF CallOK
<1> QED
  BY <1>1, <1>4, CallStep DEF Authorize

LEMMA HashStep ==
  ASSUME Invariants, retired' \subseteq KeyIds, NEW c \in Calls, NEW name \in Names,
         Bootstrap(c, name) \/ Register(c, name)
  PROVE  Kept
<1>1. PICK op \in {"bootstrap", "register"} : Hash(c, op, name)
  BY DEF Bootstrap, Register
<1>2. /\ calls'[c] = [op |-> op, stage |-> "hashing", name |-> name, now |-> clock]
      /\ calls' = [calls EXCEPT ![c] = calls'[c]] /\ op \in Operations
  BY <1>1 DEF Hash, Begin, Invariants, CallsOK
<1>3. clock \in 1..MaxTime
  BY DEF Invariants, TypeOK
<1>4. CallOK(calls[c])' /\ calls'[c].op \in Operations \union {"none"}
  BY <1>1, <1>2, <1>3 DEF CallOK
<1> QED
  BY <1>1, <1>2, <1>4, CallStep DEF Hash

LEMMA LoginStep ==
  ASSUME Invariants, retired' \subseteq KeyIds, NEW c \in Calls, NEW id \in Ids, Login(c, id)
  PROVE  Kept
<1>1. /\ calls'[c] = [op |-> "login", stage |-> "hashing", user |-> id, row |-> users[id],
                      now |-> clock]
      /\ calls' = [calls EXCEPT ![c] = calls'[c]] /\ "login" \in Operations
  BY DEF Login, Begin, Invariants, CallsOK
<1>2. id \in Existing /\ Existing' = Existing /\ clock \in 1..MaxTime
  BY DEF Login, Invariants, TypeOK, Existing, Exists
<1>3. CallOK(calls[c])' /\ calls'[c].op \in Operations \union {"none"}
  BY <1>1, <1>2 DEF CallOK
<1> QED
  BY <1>1, <1>3, CallStep DEF Login

LEMMA ChangePasswordStep ==
  ASSUME Invariants, retired' \subseteq KeyIds, NEW c \in Calls, ChangePassword(c)
  PROVE  Kept
<1>1. /\ calls'[c] = [op |-> "change", stage |-> "hashing", user |-> calls[c].user, now |-> clock]
      /\ calls' = [calls EXCEPT ![c] = calls'[c]]
  BY DEF ChangePassword, Invariants, CallsOK
<1>2. calls[c].user \in Existing /\ calls[c].op = "change"
  BY CallGoesOn DEF ChangePassword, Invariants, At
<1>3. Existing' = Existing /\ clock \in 1..MaxTime /\ "change" \in Operations \union {"none"}
  BY <1>2 DEF ChangePassword, Invariants, TypeOK, Existing, Exists
<1>4. CallOK(calls[c])' /\ calls'[c].op \in Operations \union {"none"}
  BY <1>1, <1>2, <1>3 DEF CallOK
<1> QED
  BY <1>1, <1>4, CallStep DEF ChangePassword

LEMMA TargetStep ==
  ASSUME Invariants, retired' \subseteq KeyIds, NEW c \in Calls, NEW id \in Ids,
         IssueTemporary(c, id) \/ Recover(c, id)
  PROVE  Kept
<1>1. PICK op \in {"temporary", "recover"} :
        /\ calls'[c] = [op |-> op, stage |-> "hashing", user |-> id, now |-> clock]
        /\ calls' = [calls EXCEPT ![c] = calls'[c]] /\ op \in Operations \union {"none"}
  <2>1. CASE IssueTemporary(c, id)
    BY <2>1 DEF IssueTemporary, At, Invariants, CallsOK, TypeOK
  <2>2. CASE Recover(c, id)
    BY <2>2 DEF Recover, Begin, Invariants, CallsOK
  <2> QED
    BY <2>1, <2>2
<1>2. UNCHANGED <<users, sessions, keys, clock>> /\ id \in Existing
  BY DEF IssueTemporary, Recover, Members, Administrators
<1>3. Existing' = Existing /\ clock \in 1..MaxTime
  BY <1>2 DEF Invariants, TypeOK, Existing, Exists
<1>4. CallOK(calls[c])' /\ calls'[c].op \in Operations \union {"none"}
  BY <1>1, <1>2, <1>3 DEF CallOK
<1> QED
  BY <1>1, <1>2, <1>4, CallStep

-----------------------------------------------------------------------------
(* The writes.                                                              *)

LEMMA BootstrappedStep ==
  ASSUME Invariants, retired' \subseteq KeyIds, NEW c \in Calls, NEW id \in Ids,
         Bootstrapped(c, id)
  PROVE  Kept
<1> USE DEF Invariants
<1>1. calls[c].name \in Names
  BY CallGoesOn DEF Bootstrapped
<1>2. ~Exists(id) /\ Named(calls[c].name) = {}
  BY DEF Bootstrapped, Existing, Named
<1>3. /\ users' \in [Ids -> UserRows]
      /\ Existing' = {id} /\ NamesUnique'
      /\ users'[id] = Row(calls[c].name, "admin")
  <2>1. users' = [users EXCEPT ![id] = Row(calls[c].name, "admin")] /\ Existing = {}
    BY DEF Bootstrapped
  <2> QED
    BY <1>1, <1>2, <2>1, UserIsAdded
<1>4. sessions = {} /\ sessions' = {}
  BY DEF Bootstrapped, TypeOK
<1>5. CallsOK' /\ \A d \in Calls : calls'[d].op \in Operations \union {"none"}
  BY CallReturns DEF Bootstrapped
<1>6. OneAdministrator'
  BY <1>3 DEF OneAdministrator, Administrators, Row
<1>7. TypeOK'
  <2>1. \A x \in Ids :
          /\ Exists(x)' => users'[x].name \in Names /\ users'[x].status # "none"
          /\ ~Exists(x)' => users'[x].status = "none"
          /\ users'[x].must <=> users'[x].until # Null
    BY <1>1, <1>3 DEF Bootstrapped, TypeOK, Exists, Row
  <2>2. UNCHANGED <<sessions, keys, clock>> /\ \A k \in KeyIds : ~Issued(k)
    BY DEF Bootstrapped, TypeOK
  <2> QED
    BY <1>3, <1>4, <1>5, <2>1, <2>2 DEF TypeOK, Issued
<1>8. FiniteSessions' /\ SessionsWithinCap'
  BY <1>4, FewerSessions
<1>9. Rights
  BY <1>4 DEF Rights
<1>10. KeysStayGone
  BY KeysUntouched DEF Bootstrapped
<1> QED
  BY <1>3, <1>5, <1>6, <1>7, <1>8, <1>9, <1>10 DEF Kept

LEMMA RegisteredStep ==
  ASSUME Invariants, retired' \subseteq KeyIds, NEW c \in Calls, NEW id \in Ids,
         Registered(c, id)
  PROVE  Kept
<1> USE DEF Invariants
<1>1. calls[c].name \in Names /\ calls[c].now \in 1..MaxTime
  BY CallGoesOn DEF Registered
<1>2. /\ users' \in [Ids -> UserRows]
      /\ Existing' = Existing \union {id} /\ NamesUnique'
      /\ \A x \in Existing : users'[x] = users[x]
      /\ users'[id] = Row(calls[c].name, "member")
  <2>1. /\ users' = [users EXCEPT ![id] = Row(calls[c].name, "member")]
        /\ ~Exists(id) /\ Named(calls[c].name) = {}
    BY DEF Registered
  <2> QED
    BY <1>1, <2>1, UserIsAdded
<1>3. PICK new \in [id : SessionIds, user : {id}, created : Times, expires : Times] :
        /\ \A s \in sessions : s.id # new.id
        /\ sessions' \subseteq sessions \union {new}
  BY <1>1, SessionIsInserted DEF Registered
<1>4. CallsOK' /\ \A d \in Calls : calls'[d].op \in Operations \union {"none"}
  BY <1>2, CallReturns DEF Registered
<1>5. id \notin Existing
  BY DEF Registered, Existing
<1>6. OneAdministrator'
  <2>1. Administrators' = Administrators
    BY <1>2, <1>5 DEF Administrators, Row
  <2> QED
    BY <1>2, <2>1 DEF OneAdministrator, Registered, Administrators
<1>7. TypeOK'
  <2>1. \A x \in Ids :
          /\ Exists(x)' => users'[x].name \in Names /\ users'[x].status # "none"
          /\ ~Exists(x)' => users'[x].status = "none"
          /\ users'[x].must <=> users'[x].until # Null
    BY <1>1, <1>2 DEF Registered, TypeOK, Exists, Row
  <2>2. sessions' \subseteq [id : SessionIds, user : Existing', created : Times, expires : Times]
    BY <1>2, <1>3 DEF TypeOK
  <2>3. UNCHANGED <<keys, clock>> /\ \A k \in KeyIds : Issued(k) => keys[k].user \in Existing'
    BY <1>2 DEF Registered, TypeOK
  <2> QED
    BY <1>2, <1>4, <2>1, <2>2, <2>3 DEF TypeOK, Issued
<1>8. FiniteSessions' /\ SessionsWithinCap'
  BY CapIsKept DEF Registered
<1>9. Rights
  BY <1>2 DEF Rights, Reads, Registered, TypeOK
<1>10. KeysStayGone
  BY <1>2, KeysUntouched DEF Registered
<1> QED
  BY <1>2, <1>4, <1>6, <1>7, <1>8, <1>9, <1>10 DEF Kept

LEMMA LoggedInStep ==
  ASSUME Invariants, retired' \subseteq KeyIds, NEW c \in Calls, LoggedIn(c)
  PROVE  Kept
<1> USE DEF Invariants
<1> DEFINE id == calls[c].user
<1>1. id \in Existing /\ calls[c].now \in 1..MaxTime
  BY CallGoesOn DEF LoggedIn
<1>2. Existing' = Existing /\ id \in Ids
  BY <1>1 DEF LoggedIn, Existing, Exists
<1>3. PICK new \in [id : SessionIds, user : {id}, created : Times, expires : Times] :
        sessions' \subseteq sessions \union {new}
  BY <1>1, <1>2, SessionIsInserted DEF LoggedIn
<1>4. CallsOK' /\ \A d \in Calls : calls'[d].op \in Operations \union {"none"}
  BY <1>2, CallReturns DEF LoggedIn
<1>5. TypeOK'
  <2>1. sessions' \subseteq [id : SessionIds, user : Existing', created : Times, expires : Times]
    BY <1>1, <1>2, <1>3 DEF TypeOK
  <2> QED
    BY <1>2, <1>4, <2>1 DEF LoggedIn, TypeOK, Exists, Issued
<1>6. OneAdministrator' /\ NamesUnique'
  BY <1>2 DEF LoggedIn, OneAdministrator, NamesUnique, Administrators
<1>7. FiniteSessions' /\ SessionsWithinCap'
  BY <1>2, CapIsKept DEF LoggedIn
<1>8. Rights
  BY DEF Rights, Reads, LoggedIn
<1>9. KeysStayGone
  BY KeysUntouched DEF LoggedIn
<1> QED
  BY <1>4, <1>5, <1>6, <1>7, <1>8, <1>9 DEF Kept

(* The password changes with the sessions of its user: those that stay     *)
(* belong to others, and the new one has an id no session had.             *)
LEMMA PasswordChangedStep ==
  ASSUME Invariants, retired' \subseteq KeyIds, NEW c \in Calls, PasswordChanged(c)
  PROVE  Kept
<1> USE DEF Invariants
<1> DEFINE id == calls[c].user
           rows == sessions \ SessionsOf(id)
<1>1. id \in Existing /\ id \in Ids /\ calls[c].now \in 1..MaxTime
  BY CallGoesOn DEF PasswordChanged, Existing
<1>2. /\ users' = [users EXCEPT ![id] = [@ EXCEPT !.must = FALSE, !.until = Null]]
      /\ CreateSession(rows, id, FALSE, calls[c].now)
  BY DEF PasswordChanged
<1> HIDE DEF id, rows
<1>3. /\ users' \in [Ids -> UserRows]
      /\ \A x \in Ids : /\ users'[x].name = users[x].name /\ users'[x].role = users[x].role
                        /\ users'[x].status = users[x].status
      /\ \A x \in Ids : x # id => users'[x] = users[x]
      /\ users'[id].must = FALSE /\ users'[id].until = Null
  BY <1>1, <1>2, PasswordIsWritten DEF TypeOK
<1>4. Existing' = Existing /\ OneAdministrator' /\ NamesUnique'
  BY <1>3, SameUsers DEF Administrators, Existing
<1>5. PICK new \in [id : SessionIds, user : {id}, created : Times, expires : Times] :
        /\ \A s \in sessions : s.id # new.id
        /\ sessions' \subseteq rows \union {new}
  <2>1. rows \in SUBSET sessions
    BY DEF rows
  <2> QED
    BY <1>1, <1>2, <2>1, SessionIsInserted
<1>6. CallsOK' /\ \A d \in Calls : calls'[d].op \in Operations \union {"none"}
  BY <1>4, CallReturns DEF PasswordChanged
<1>7. TypeOK'
  <2>1. \A x \in Ids :
          /\ Exists(x)' => users'[x].name \in Names /\ users'[x].status # "none"
          /\ ~Exists(x)' => users'[x].status = "none"
          /\ users'[x].must <=> users'[x].until # Null
    BY <1>3 DEF TypeOK, Exists
  <2>2. sessions' \subseteq [id : SessionIds, user : Existing', created : Times, expires : Times]
    BY <1>1, <1>4, <1>5 DEF TypeOK, rows
  <2> QED
    BY <1>3, <1>4, <1>6, <2>1, <2>2 DEF PasswordChanged, TypeOK, Issued
<1>8. FiniteSessions' /\ SessionsWithinCap'
  <2>1. rows \in SUBSET sessions
    BY DEF rows
  <2> QED
    BY <1>1, <1>2, <2>1, CapIsKept
<1>9. Rights
  <2> SUFFICES ASSUME NEW s \in sessions, Reads(s), s \in sessions', s.expires > clock'
               PROVE  Reads(s)' /\ users'[s.user].must = users[s.user].must
    BY DEF Rights
  <2>1. s \in rows /\ s.user \in Ids
    BY <1>5 DEF TypeOK, Existing
  <2>2. s.user # id
    BY <2>1 DEF SessionsOf, rows
  <2> QED
    BY <1>3, <2>1, <2>2 DEF Reads
<1>10. KeysStayGone
  BY <1>3, KeysUntouched DEF PasswordChanged, Existing
<1> QED
  BY <1>4, <1>6, <1>7, <1>8, <1>9, <1>10 DEF Kept

LEMMA TemporaryIssuedStep ==
  ASSUME Invariants, retired' \subseteq KeyIds, NEW c \in Calls, TemporaryIssued(c)
  PROVE  Kept
<1> USE DEF Invariants
<1> DEFINE id == calls[c].user
           until == calls[c].now + TemporaryLife
<1>1. id \in Existing /\ id \in Ids /\ calls[c].now \in 1..MaxTime
  BY CallGoesOn DEF TemporaryIssued, Existing
<1>2. /\ users' = [users EXCEPT ![id] = [@ EXCEPT !.must = TRUE, !.until = until]]
      /\ sessions' = sessions \ SessionsOf(id)
  BY DEF TemporaryIssued, WriteTemporary
<1>3. until \in Times /\ until # Null
  BY <1>1, TimesAreLate
<1> HIDE DEF id, until
<1>4. /\ users' \in [Ids -> UserRows]
      /\ \A x \in Ids : /\ users'[x].name = users[x].name /\ users'[x].role = users[x].role
                        /\ users'[x].status = users[x].status
      /\ \A x \in Ids : x # id => users'[x] = users[x]
      /\ users'[id].must = TRUE /\ users'[id].until # Null
  BY <1>1, <1>2, <1>3, PasswordIsWritten DEF TypeOK
<1>5. Existing' = Existing /\ OneAdministrator' /\ NamesUnique'
  BY <1>4, SameUsers DEF Administrators, Existing
<1>6. CallsOK' /\ \A d \in Calls : calls'[d].op \in Operations \union {"none"}
  BY <1>5, CallReturns DEF TemporaryIssued
<1>7. TypeOK'
  <2>1. \A x \in Ids :
          /\ Exists(x)' => users'[x].name \in Names /\ users'[x].status # "none"
          /\ ~Exists(x)' => users'[x].status = "none"
          /\ users'[x].must <=> users'[x].until # Null
    BY <1>4 DEF TypeOK, Exists
  <2>2. sessions' \subseteq [id : SessionIds, user : Existing', created : Times, expires : Times]
    BY <1>2, <1>5 DEF TypeOK
  <2> QED
    BY <1>4, <1>5, <1>6, <2>1, <2>2 DEF TemporaryIssued, TypeOK, Issued
<1>8. FiniteSessions' /\ SessionsWithinCap'
  BY <1>2, FewerSessions
<1>9. Rights
  <2> SUFFICES ASSUME NEW s \in sessions, Reads(s), s \in sessions', s.expires > clock'
               PROVE  Reads(s)' /\ users'[s.user].must = users[s.user].must
    BY DEF Rights
  <2>1. s.user # id /\ s.user \in Ids
    BY <1>2 DEF SessionsOf, TypeOK, Existing
  <2> QED
    BY <1>4, <2>1 DEF Reads
<1>10. KeysStayGone
  BY <1>4, KeysUntouched DEF TemporaryIssued, Existing
<1> QED
  BY <1>5, <1>6, <1>7, <1>8, <1>9, <1>10 DEF Kept

LEMMA LogoutStep ==
  ASSUME Invariants, retired' \subseteq KeyIds, NEW s \in sessions, Logout(s)
  PROVE  Kept
<1> USE DEF Invariants
<1>1. UNCHANGED <<users, keys, calls, clock>> /\ sessions' \subseteq sessions
  BY DEF Logout
<1>2. Existing' = Existing
  BY <1>1 DEF Existing, Exists
<1>3. TypeOK'
  BY <1>1, <1>2 DEF TypeOK, Exists, Issued
<1>4. CallsOK'
  BY <1>1, <1>2 DEF CallsOK, CallOK
<1>5. OneAdministrator' /\ NamesUnique'
  BY <1>1, <1>2 DEF OneAdministrator, NamesUnique, Administrators
<1>6. FiniteSessions' /\ SessionsWithinCap'
  BY <1>1, FewerSessions
<1>7. Rights
  BY <1>1 DEF Rights, Reads
<1>8. KeysStayGone
  BY <1>1, KeysUntouched
<1> QED
  BY <1>3, <1>4, <1>5, <1>6, <1>7, <1>8 DEF Kept

(* A member is disabled with his sessions and the keys that still work.    *)
LEMMA DisableStep ==
  ASSUME Invariants, retired' \subseteq KeyIds, NEW c \in Calls, NEW id \in Ids, Disable(c, id)
  PROVE  Kept
<1> USE DEF Invariants
<1>1. /\ id \in Existing /\ id \notin Administrators
      /\ users' = [users EXCEPT ![id].status = "disabled"]
      /\ sessions' = sessions \ SessionsOf(id)
      /\ keys' = RevokedOf(id) /\ clock' = clock
  BY DEF Disable, Members
<1>2. /\ users' \in [Ids -> UserRows]
      /\ \A x \in Ids : /\ users'[x].name = users[x].name /\ users'[x].role = users[x].role
                        /\ users'[x].must = users[x].must /\ users'[x].until = users[x].until
      /\ \A x \in Ids : x # id => users'[x] = users[x]
      /\ users'[id].status = "disabled"
  BY <1>1 DEF TypeOK, UserRows
<1>3. Existing' = Existing /\ OneAdministrator' /\ NamesUnique'
  BY <1>1, <1>2, SameUsers DEF Administrators, Existing
<1>4. /\ keys' \in [KeyIds -> [user : Ids \union {"none"}, revoked : BOOLEAN,
                               expires : Times \union {Null}]]
      /\ \A k \in KeyIds : /\ keys'[k].user = keys[k].user
                            /\ keys'[k].expires = keys[k].expires
                            /\ (keys[k].revoked => keys'[k].revoked)
                            /\ (Issued(k) /\ keys[k].user = id /\ keys[k].expires > clock
                                  => keys'[k].revoked)
                            /\ (keys[k].user # id => keys'[k] = keys[k])
  BY <1>1 DEF TypeOK, RevokedOf
<1>5. CallsOK' /\ \A d \in Calls : calls'[d].op \in Operations \union {"none"}
  BY <1>3, CallReturns DEF Disable
<1>6. TypeOK'
  <2>1. \A x \in Ids :
          /\ Exists(x)' => users'[x].name \in Names /\ users'[x].status # "none"
          /\ ~Exists(x)' => users'[x].status = "none"
          /\ users'[x].must <=> users'[x].until # Null
    BY <1>1, <1>2 DEF TypeOK, Exists, Existing
  <2>2. sessions' \subseteq [id : SessionIds, user : Existing', created : Times, expires : Times]
    BY <1>1, <1>3 DEF TypeOK
  <2>3. \A k \in KeyIds : Issued(k)' => keys'[k].user \in Existing'
    BY <1>3, <1>4 DEF TypeOK, Issued
  <2> QED
    BY <1>1, <1>2, <1>4, <1>5, <2>1, <2>2, <2>3 DEF TypeOK
<1>7. FiniteSessions' /\ SessionsWithinCap'
  BY <1>1, FewerSessions
<1>8. Rights
  <2> SUFFICES ASSUME NEW s \in sessions, Reads(s), s \in sessions', s.expires > clock'
               PROVE  Reads(s)' /\ users'[s.user].must = users[s.user].must
    BY DEF Rights
  <2>1. s.user # id /\ s.user \in Ids
    BY <1>1 DEF SessionsOf, TypeOK, Existing
  <2> QED
    BY <1>2, <2>1 DEF Reads
<1>9. KeysStayGone
  <2> SUFFICES ASSUME NEW k \in KeyIds
               PROVE  /\ Gone(k) => Gone(k)'
                      /\ Authenticates(k) /\ ~Authenticates(k)' => Gone(k)'
    BY DEF KeysStayGone
  <2>1. Gone(k) => Gone(k)'
    BY <1>1, <1>4 DEF Gone, Issued
  <2>2. ASSUME Authenticates(k), keys[k].user = id PROVE Gone(k)'
    BY <1>1, <1>4, <2>2 DEF Authenticates, Gone, Issued
  <2>3. ASSUME Authenticates(k), keys[k].user # id PROVE Authenticates(k)'
    <3>1. keys[k].user \in Ids
      BY <2>3 DEF Authenticates, TypeOK, Existing
    <3> QED
      BY <1>1, <1>2, <1>4, <2>3, <3>1 DEF Authenticates, Issued
  <2> QED
    BY <2>1, <2>2, <2>3
<1> QED
  BY <1>3, <1>5, <1>6, <1>7, <1>8, <1>9 DEF Kept

(* Enabling gives access again, and takes it from nobody.                  *)
LEMMA EnableStep ==
  ASSUME Invariants, retired' \subseteq KeyIds, NEW c \in Calls, NEW id \in Ids, Enable(c, id)
  PROVE  Kept
<1> USE DEF Invariants
<1>1. /\ id \in Existing /\ id \notin Administrators
      /\ users' = [users EXCEPT ![id].status = "active"]
      /\ UNCHANGED <<sessions, keys, clock>>
  BY DEF Enable, Members
<1>2. /\ users' \in [Ids -> UserRows]
      /\ \A x \in Ids : /\ users'[x].name = users[x].name /\ users'[x].role = users[x].role
                        /\ users'[x].must = users[x].must /\ users'[x].until = users[x].until
      /\ \A x \in Ids : x # id => users'[x] = users[x]
      /\ users'[id].status = "active"
  BY <1>1 DEF TypeOK, UserRows
<1>3. Existing' = Existing /\ OneAdministrator' /\ NamesUnique'
  BY <1>1, <1>2, SameUsers DEF Administrators, Existing
<1>4. CallsOK' /\ \A d \in Calls : calls'[d].op \in Operations \union {"none"}
  BY <1>3, CallReturns DEF Enable
<1>5. TypeOK'
  <2>1. \A x \in Ids :
          /\ Exists(x)' => users'[x].name \in Names /\ users'[x].status # "none"
          /\ ~Exists(x)' => users'[x].status = "none"
          /\ users'[x].must <=> users'[x].until # Null
    BY <1>1, <1>2 DEF TypeOK, Exists, Existing
  <2> QED
    BY <1>1, <1>2, <1>3, <1>4, <2>1 DEF TypeOK, Issued
<1>6. FiniteSessions' /\ SessionsWithinCap'
  BY <1>1, FewerSessions
<1>7. Rights
  BY <1>1, <1>2 DEF Rights, Reads, TypeOK, Existing
<1>8. KeysStayGone
  <2> SUFFICES ASSUME NEW k \in KeyIds
               PROVE  /\ Gone(k) => Gone(k)'
                      /\ Authenticates(k) => Authenticates(k)'
    BY DEF KeysStayGone
  <2>1. Gone(k) => Gone(k)'
    BY <1>1 DEF Gone, Issued
  <2>2. Authenticates(k) => Authenticates(k)'
    BY <1>1, <1>2 DEF Authenticates, Issued, TypeOK, Existing
  <2> QED
    BY <2>1, <2>2
<1> QED
  BY <1>3, <1>4, <1>5, <1>6, <1>7, <1>8 DEF Kept

(* Steps that change keys or the clock only.                               *)
LEMMA UsersUntouched ==
  ASSUME Invariants, UNCHANGED <<users, sessions>>
  PROVE  /\ Existing' = Existing /\ OneAdministrator' /\ NamesUnique'
         /\ FiniteSessions' /\ SessionsWithinCap'
<1>1. Existing' = Existing
  BY DEF Existing, Exists
<1>2. OneAdministrator' /\ NamesUnique'
  BY <1>1 DEF Invariants, OneAdministrator, NamesUnique, Administrators
<1>3. FiniteSessions' /\ SessionsWithinCap'
  BY FewerSessions DEF Invariants
<1> QED
  BY <1>1, <1>2, <1>3

LEMMA CreateKeyStep ==
  ASSUME Invariants, retired' \subseteq KeyIds, NEW c \in Calls, NEW k \in KeyIds, CreateKey(c, k)
  PROVE  Kept
<1> USE DEF Invariants
<1> DEFINE key == [user |-> calls[c].user, revoked |-> FALSE, expires |-> clock + KeyLife]
<1>1. calls[c].user \in Existing
  BY CallGoesOn DEF CreateKey
<1>2. /\ UNCHANGED <<users, sessions, clock>> /\ ~Issued(k)
      /\ keys' = [keys EXCEPT ![k] = key] /\ Return(c)
  BY DEF CreateKey
<1>3. clock + KeyLife \in Times /\ clock + KeyLife # Null
  BY TimesAreLate DEF TypeOK
<1>4. /\ key \in [user : Ids \union {"none"}, revoked : BOOLEAN, expires : Times \union {Null}]
      /\ key.user \in Existing
  BY <1>1, <1>3 DEF Existing
<1> HIDE DEF key
<1>5. /\ Existing' = Existing /\ OneAdministrator' /\ NamesUnique'
      /\ FiniteSessions' /\ SessionsWithinCap'
  BY <1>2, UsersUntouched
<1>6. CallsOK' /\ \A d \in Calls : calls'[d].op \in Operations \union {"none"}
  BY <1>2, <1>5, CallReturns
<1>7. /\ keys'[k] = key /\ \A j \in KeyIds : j # k => keys'[j] = keys[j]
      /\ keys' \in [KeyIds -> [user : Ids \union {"none"}, revoked : BOOLEAN,
                               expires : Times \union {Null}]]
  BY <1>2, <1>4 DEF TypeOK
<1>8. TypeOK'
  <2>1. \A j \in KeyIds : Issued(j)' => keys'[j].user \in Existing'
    BY <1>4, <1>5, <1>7 DEF TypeOK, Issued
  <2> QED
    BY <1>2, <1>5, <1>6, <1>7, <2>1 DEF TypeOK, Exists
<1>9. Rights
  BY <1>2 DEF Rights, Reads
<1>10. KeysStayGone
  BY <1>2, <1>7 DEF KeysStayGone, Gone, Authenticates, Issued
<1> QED
  BY <1>5, <1>6, <1>8, <1>9, <1>10 DEF Kept

LEMMA RevokeKeyStep ==
  ASSUME Invariants, retired' \subseteq KeyIds, NEW c \in Calls, NEW k \in KeyIds, RevokeKey(c, k)
  PROVE  Kept
<1> USE DEF Invariants
<1>1. /\ UNCHANGED <<users, sessions, clock>> /\ Issued(k)
      /\ keys' = [keys EXCEPT ![k].revoked = TRUE] /\ Return(c)
  BY DEF RevokeKey
<1>2. /\ Existing' = Existing /\ OneAdministrator' /\ NamesUnique'
      /\ FiniteSessions' /\ SessionsWithinCap'
  BY <1>1, UsersUntouched
<1>3. CallsOK' /\ \A d \in Calls : calls'[d].op \in Operations \union {"none"}
  BY <1>1, <1>2, CallReturns
<1>4. /\ keys' \in [KeyIds -> [user : Ids \union {"none"}, revoked : BOOLEAN,
                               expires : Times \union {Null}]]
      /\ keys'[k].user = keys[k].user /\ keys'[k].expires = keys[k].expires
      /\ keys'[k].revoked = TRUE
      /\ \A j \in KeyIds : j # k => keys'[j] = keys[j]
  BY <1>1 DEF TypeOK
<1>5. TypeOK'
  <2>1. \A j \in KeyIds : Issued(j)' => keys'[j].user \in Existing'
    BY <1>2, <1>4 DEF TypeOK, Issued
  <2> QED
    BY <1>1, <1>2, <1>3, <1>4, <2>1 DEF TypeOK, Exists
<1>6. Rights
  BY <1>1 DEF Rights, Reads
<1>7. KeysStayGone
  BY <1>1, <1>4 DEF KeysStayGone, Gone, Authenticates, Issued
<1> QED
  BY <1>2, <1>3, <1>5, <1>6, <1>7 DEF Kept

LEMMA TickStep ==
  ASSUME Invariants, retired' \subseteq KeyIds, Tick
  PROVE  Kept
<1> USE DEF Invariants
<1>1. /\ UNCHANGED <<users, sessions, keys, calls>> /\ clock' = clock + 1
      /\ clock \in 1..MaxTime /\ clock' \in 1..MaxTime
  BY ConstantsAreNumbers DEF Tick, TypeOK
<1>2. /\ Existing' = Existing /\ OneAdministrator' /\ NamesUnique'
      /\ FiniteSessions' /\ SessionsWithinCap'
  BY <1>1, UsersUntouched
<1>3. CallsOK'
  BY <1>1, <1>2 DEF CallsOK, CallOK
<1>4. TypeOK'
  BY <1>1, <1>2 DEF TypeOK, Exists, Issued
<1>5. Rights
  <2>1. UNCHANGED users
    BY <1>1
  <2> QED
    BY <2>1 DEF Rights, Reads
<1>6. KeysStayGone
  <2>1. \A k \in KeyIds : keys[k].expires \in Nat
    BY TimesAreNumbers DEF TypeOK
  <2> QED
    BY <1>1, <2>1 DEF KeysStayGone, Gone, Authenticates, Issued
<1> QED
  BY <1>2, <1>3, <1>4, <1>5, <1>6 DEF Kept

-----------------------------------------------------------------------------
(* The invariant. *)

LEMMA StepKeeps ==
  ASSUME Invariants, retired' \subseteq KeyIds, Step
  PROVE  Kept
<1>1. CASE \E c \in Calls : Refused(c)
  BY <1>1, RefusedStep
<1>2. CASE \E c \in Calls, s \in sessions, op \in Operations : Authorize(c, s, op)
  BY <1>2, AuthorizeStep
<1>3. CASE \E c \in Calls, name \in Names : Bootstrap(c, name) \/ Register(c, name)
  BY <1>3, HashStep
<1>4. CASE \E c \in Calls : LoggedIn(c)
  BY <1>4, LoggedInStep
<1>5. CASE \E c \in Calls : ChangePassword(c)
  BY <1>5, ChangePasswordStep
<1>6. CASE \E c \in Calls : PasswordChanged(c)
  BY <1>6, PasswordChangedStep
<1>7. CASE \E c \in Calls : TemporaryIssued(c)
  BY <1>7, TemporaryIssuedStep
<1>8. CASE \E c \in Calls, id \in Ids : Bootstrapped(c, id)
  BY <1>8, BootstrappedStep
<1>9. CASE \E c \in Calls, id \in Ids : Registered(c, id)
  BY <1>9, RegisteredStep
<1>10. CASE \E c \in Calls, id \in Ids : Login(c, id)
  BY <1>10, LoginStep
<1>11. CASE \E c \in Calls, id \in Ids : Disable(c, id)
  BY <1>11, DisableStep
<1>12. CASE \E c \in Calls, id \in Ids : Enable(c, id)
  BY <1>12, EnableStep
<1>13. CASE \E c \in Calls, id \in Ids : IssueTemporary(c, id) \/ Recover(c, id)
  BY <1>13, TargetStep
<1>14. CASE \E c \in Calls, k \in KeyIds : CreateKey(c, k)
  BY <1>14, CreateKeyStep
<1>15. CASE \E c \in Calls, k \in KeyIds : RevokeKey(c, k)
  BY <1>15, RevokeKeyStep
<1>16. CASE \E s \in sessions : Logout(s)
  BY <1>16, LogoutStep
<1>17. CASE Tick
  BY <1>17, TickStep
<1> QED
  BY <1>1, <1>2, <1>3, <1>4, <1>5, <1>6, <1>7, <1>8, <1>9, <1>10, <1>11, <1>12, <1>13,
     <1>14, <1>15, <1>16, <1>17, Zenon DEF Step

LEMMA InitIInv == Init => IInv
<1> SUFFICES ASSUME Init PROVE IInv
  OBVIOUS
<1>1. Existing = {} /\ \A k \in KeyIds : ~Issued(k)
  BY DEF Init, Existing, Exists, NoUser, Issued, NoKey, Null
<1>2. NoUser \in UserRows
  BY DEF NoUser, UserRows, Null
<1>3. users \in [Ids -> UserRows]
  BY <1>2 DEF Init
<1>4. TypeOK
  BY <1>1, <1>3, ConstantsAreNumbers DEF Init, TypeOK, Exists, NoUser, NoKey, Idle, Null
<1>5. CallsOK
  BY DEF Init, CallsOK, CallOK, Idle
<1>6. OneAdministrator /\ NamesUnique
  BY <1>1 DEF OneAdministrator, NamesUnique, Administrators
<1>7. FiniteSessions /\ SessionsWithinCap
  <2>1. \A id \in Ids : SessionsOf(id) = {}
    BY DEF Init, SessionsOf
  <2> QED
    BY <2>1, FS_EmptySet, ConstantsAreNumbers DEF FiniteSessions, SessionsWithinCap
<1>8. RetiredAreGone
  BY DEF Init, RetiredAreGone
<1> QED
  BY <1>4, <1>5, <1>6, <1>7, <1>8 DEF IInv

(* A step keeps the invariant, the rights of open sessions, and the end of *)
(* a key that ended.                                                       *)
LEMMA NextKeeps ==
  ASSUME IInv, [Next]_vars
  PROVE  IInv' /\ Rights
<1>1. Invariants /\ RetiredAreGone /\ retired \subseteq KeyIds
  BY DEF IInv, Invariants, TypeOK
<1>2. CASE Next
  <2>1. retired' = retired \union {k \in KeyIds : Authenticates(k) /\ ~Authenticates(k)'} /\ Step
    BY <1>2 DEF Next
  <2>2. Kept
    BY <1>1, <2>1, StepKeeps
  <2>3. RetiredAreGone'
    BY <1>1, <2>1, <2>2, Zenon DEF RetiredAreGone, Kept, KeysStayGone
  <2> QED
    BY <2>2, <2>3 DEF Kept, Invariants, IInv
<1>3. CASE UNCHANGED vars
  <2>1. UNCHANGED <<users, sessions, keys, calls, clock, retired>>
    BY <1>3 DEF vars
  <2>2. /\ Existing' = Existing /\ OneAdministrator' /\ NamesUnique'
        /\ FiniteSessions' /\ SessionsWithinCap'
    BY <1>1, <2>1, UsersUntouched
  <2>3. CallsOK' /\ TypeOK'
    BY <1>1, <2>1, <2>2 DEF Invariants, CallsOK, CallOK, TypeOK, Exists, Issued
  <2>4. RetiredAreGone'
    BY <1>1, <2>1 DEF RetiredAreGone, Gone, Issued
  <2>5. Rights
    BY <2>1 DEF Rights, Reads
  <2> QED
    BY <2>2, <2>3, <2>4, <2>5 DEF IInv
<1> QED
  BY <1>2, <1>3

-----------------------------------------------------------------------------
(* The rows of users, sessions and keys have their types, and belong to    *)
(* users (createPersonalApiKey, createBrowserSession).                     *)
THEOREM TypeCorrect == Spec => []TypeOK
<1>1. IInv => TypeOK
  BY DEF IInv
<1> QED
  BY <1>1, InitIInv, NextKeeps, PTL DEF Spec

(* bootstrapAdministrator, registerMember and the resets never leave two   *)
(* administrators, none beside members, or a disabled one.                 *)
THEOREM AdministratorIsOne == Spec => []OneAdministrator
<1>1. IInv => OneAdministrator
  BY DEF IInv
<1> QED
  BY <1>1, InitIInv, NextKeeps, PTL DEF Spec

(* registerMember and bootstrapAdministrator never give a name twice.      *)
THEOREM NamesAreUnique == Spec => []NamesUnique
<1>1. IInv => NamesUnique
  BY DEF IInv
<1> QED
  BY <1>1, InitIInv, NextKeeps, PTL DEF Spec

(* createBrowserSession keeps its cap, with whatever time it is called.    *)
THEOREM SessionsAreCapped == Spec => []SessionsWithinCap
<1>1. IInv => SessionsWithinCap
  BY DEF IInv
<1> QED
  BY <1>1, InitIInv, NextKeeps, PTL DEF Spec

(* No operation changes what an open session may do.                       *)
THEOREM RightsAreKept == Spec => SessionsKeepTheirRights
<1>1. IInv /\ [Next]_vars => [Rights]_vars
  BY NextKeeps
<1> QED
  BY <1>1, InitIInv, NextKeeps, PTL DEF Spec, SessionsKeepTheirRights, Rights

(* A personal key that ended is never accepted again.                      *)
THEOREM KeysEndForGood == Spec => []RetiredForGood
<1>1. IInv => RetiredForGood
  <2> SUFFICES ASSUME IInv, NEW k \in retired PROVE ~Authenticates(k)
    BY DEF RetiredForGood
  <2>1. k \in KeyIds /\ Gone(k)
    BY DEF IInv, TypeOK, RetiredAreGone
  <2>2. keys[k].expires \in Nat /\ clock \in Nat
    <3>1. keys[k].expires \in Times \union {Null} /\ clock \in 1..MaxTime
      BY <2>1 DEF IInv, TypeOK
    <3>2. keys[k].expires \in Nat
      BY <3>1, TimesAreNumbers, Zenon
    <3>3. clock \in Nat
      BY <3>1, ConstantsAreNumbers
    <3> QED
      BY <3>2, <3>3
  <2> QED
    BY <2>1, <2>2 DEF Gone, Authenticates
<1> QED
  BY <1>1, InitIInv, NextKeeps, PTL DEF Spec

-----------------------------------------------------------------------------
(* The analytics recorder.                                                 *)

CountTypes ==
  /\ pending \in [Keys -> Nat] /\ stored \in [Keys -> Nat]
  /\ accepted \in [Keys -> Nat] /\ lost \in [Keys -> Nat]
  /\ timer \in BOOLEAN

(* Every count is in one place, and the timer is armed while any is        *)
(* pending: the second needs that counts are numbers, nothing else.        *)
AnalyticsInv == CountTypes /\ NothingMiscounted /\ TimerWhilePending

LEMMA NoCountsProperties ==
  NoCounts \in [Keys -> Nat] /\ \A k \in Keys : NoCounts[k] = 0
BY DEF NoCounts

LEMMA PlusProperties ==
  ASSUME NEW f \in [Keys -> Nat], NEW h \in [Keys -> Nat]
  PROVE  /\ Plus(f, h) \in [Keys -> Nat]
         /\ \A k \in Keys : Plus(f, h)[k] = f[k] + h[k]
BY DEF Plus

LEMMA InitCounts == AnalyticsInit => AnalyticsInv
<1> SUFFICES ASSUME AnalyticsInit PROVE AnalyticsInv
  OBVIOUS
<1>1. CountTypes
  BY NoCountsProperties DEF AnalyticsInit, CountTypes
<1>2. NothingMiscounted
  BY NoCountsProperties DEF AnalyticsInit, NothingMiscounted
<1>3. TimerWhilePending
  BY DEF AnalyticsInit, TimerWhilePending
<1> QED
  BY <1>1, <1>2, <1>3 DEF AnalyticsInv

(* record() adds one to a count and to what was accepted. *)
LEMMA RecordCounts ==
  ASSUME AnalyticsInv, NEW k \in Keys, Record(k), UNCHANGED <<stored, lost>>
  PROVE  AnalyticsInv'
<1>1. CASE Room(k)
  <2>1. /\ pending' = [pending EXCEPT ![k] = @ + 1]
        /\ accepted' = [accepted EXCEPT ![k] = @ + 1]
        /\ timer' = TRUE
    BY <1>1 DEF Record
  <2>2. CountTypes'
    BY <2>1 DEF AnalyticsInv, CountTypes
  <2>3. NothingMiscounted'
    BY <2>1 DEF AnalyticsInv, CountTypes, NothingMiscounted
  <2>4. pending'[k] # NoCounts[k]
    BY <2>1 DEF AnalyticsInv, CountTypes, NoCounts
  <2> QED
    BY <2>1, <2>2, <2>3, <2>4 DEF AnalyticsInv, TimerWhilePending
<1>2. CASE ~Room(k)
  BY <1>2 DEF Record, AnalyticsInv, CountTypes, NothingMiscounted, TimerWhilePending
<1> QED
  BY <1>1, <1>2

(* A flush moves everything pending into the table, or nothing. *)
LEMMA FlushCounts ==
  ASSUME AnalyticsInv, FlushSucceeds \/ FlushFails
  PROVE  AnalyticsInv'
<1>1. CASE FlushSucceeds
  <2>1. CountTypes'
    BY <1>1, NoCountsProperties, PlusProperties DEF AnalyticsInv, CountTypes, FlushSucceeds, Persisted
  <2>2. NothingMiscounted'
    BY <1>1, NoCountsProperties, PlusProperties
    DEF AnalyticsInv, CountTypes, NothingMiscounted, FlushSucceeds, Persisted
  <2> QED
    BY <1>1, <2>1, <2>2 DEF AnalyticsInv, TimerWhilePending, FlushSucceeds
<1>2. CASE FlushFails
  BY <1>2 DEF FlushFails, AnalyticsInv, CountTypes, NothingMiscounted, TimerWhilePending
<1> QED
  BY <1>1, <1>2

LEMMA RestartCounts ==
  ASSUME AnalyticsInv, Restart
  PROVE  AnalyticsInv'
<1>1. CountTypes'
  BY NoCountsProperties, PlusProperties DEF AnalyticsInv, CountTypes, Restart
<1>2. NothingMiscounted'
  BY NoCountsProperties, PlusProperties DEF AnalyticsInv, CountTypes, NothingMiscounted, Restart
<1> QED
  BY <1>1, <1>2 DEF AnalyticsInv, TimerWhilePending, Restart

LEMMA NextCounts == AnalyticsInv /\ [AnalyticsNext]_analyticsVars => AnalyticsInv'
<1> SUFFICES ASSUME AnalyticsInv, [AnalyticsNext]_analyticsVars PROVE AnalyticsInv'
  OBVIOUS
<1>1. ASSUME NEW hour \in Hours, NEW metric \in Metrics, Visited(hour, metric)
      PROVE  AnalyticsInv'
  BY <1>1, RecordCounts DEF Visited, Keys
<1>2. ASSUME NEW hour \in Hours, NEW r \in Requests, Started(r, hour)
      PROVE  AnalyticsInv'
  BY <1>2, RecordCounts DEF Started, Keys, Metrics
<1>3. ASSUME NEW hour \in Hours, NEW r \in Requests, NEW outcome \in Outcomes,
             Ended(r, hour, outcome)
      PROVE  AnalyticsInv'
  <2>1. MetricFor(outcome) \in Metrics
    BY DEF MetricFor, Metrics
  <2> QED
    BY <1>3, <2>1, RecordCounts DEF Ended, Keys
<1>4. CASE TimerFires \/ SummaryRead
  BY <1>4, FlushCounts DEF TimerFires, SummaryRead
<1>5. CASE Restart
  BY <1>5, RestartCounts
<1>6. CASE UNCHANGED analyticsVars
  BY <1>6 DEF analyticsVars, AnalyticsInv, CountTypes, NothingMiscounted, TimerWhilePending
<1> QED
  BY <1>1, <1>2, <1>3, <1>4, <1>5, <1>6 DEF AnalyticsNext

LEMMA CountsInductive == AnalyticsSpec => []AnalyticsInv
BY InitCounts, NextCounts, PTL DEF AnalyticsSpec

(* No flush, failed flush, retry or restart loses or doubles a count:      *)
(* every count record() accepted is pending, in its row, or died with its  *)
(* process.                                                                *)
THEOREM CountsConserved == AnalyticsSpec => []NothingMiscounted
<1>1. AnalyticsInv => NothingMiscounted
  BY DEF AnalyticsInv
<1> QED
  BY CountsInductive, <1>1, PTL

(* The flush timer is armed exactly while counts are pending. *)
THEOREM TimerCorrect == AnalyticsSpec => []TimerWhilePending
<1>1. AnalyticsInv => TimerWhilePending
  BY DEF AnalyticsInv
<1> QED
  BY CountsInductive, <1>1, PTL


-----------------------------------------------------------------------------
(* Sums over the table, as cardinalities.                                  *)

LEMMA UnitsAre ==
  ASSUME NEW c \in [Keys -> Nat], NEW M \in SUBSET Metrics
  PROVE  \A e : e \in Units(c, M) <=>
           \E k \in Keys : k[2] \in M /\ \E i \in 1..c[k] : e = <<k, i>>
<1> TAKE e
<1>1. ASSUME e \in Units(c, M)
      PROVE  \E k \in Keys : k[2] \in M /\ \E i \in 1..c[k] : e = <<k, i>>
  <2>1. PICK k \in Hours \X M : e \in {k} \X (1..c[k])
    BY <1>1 DEF Units
  <2>2. k \in Keys /\ k[2] \in M
    BY DEF Keys
  <2>3. PICK i \in 1..c[k] : e = <<k, i>>
    BY <2>1
  <2> QED
    BY <2>2, <2>3
<1>2. ASSUME NEW k \in Keys, k[2] \in M, NEW i \in 1..c[k], e = <<k, i>>
      PROVE  e \in Units(c, M)
  <2>1. k \in Hours \X M
    BY <1>2 DEF Keys
  <2>2. e \in {k} \X (1..c[k])
    BY <1>2
  <2> QED
    BY <2>1, <2>2 DEF Units
<1> QED
  BY <1>1, <1>2

LEMMA NoUnits ==
  ASSUME NEW M \in SUBSET Metrics
  PROVE  IsFiniteSet(Units(NoCounts, M)) /\ Count(NoCounts, M) = 0
<1>1. Units(NoCounts, M) = {}
  <2>1. \A k \in Keys : 1..NoCounts[k] = {}
    BY NoCountsProperties
  <2> QED
    BY <2>1, UnitsAre, NoCountsProperties
<1> QED
  BY <1>1, FS_EmptySet DEF Count

(* One count more of a metric that is summed, or of another one. *)
LEMMA OneUnitMore ==
  ASSUME NEW c \in [Keys -> Nat], NEW M \in SUBSET Metrics, NEW k \in Keys,
         IsFiniteSet(Units(c, M))
  PROVE  LET d == [c EXCEPT ![k] = @ + 1]
         IN /\ IsFiniteSet(Units(d, M))
            /\ Count(c, M) \in Nat
            /\ Count(d, M) = Count(c, M) + IF k[2] \in M THEN 1 ELSE 0
<1> DEFINE d == [c EXCEPT ![k] = @ + 1]
<1>1. /\ d \in [Keys -> Nat]
      /\ d[k] = c[k] + 1
      /\ \A h \in Keys \ {k} : d[h] = c[h]
  OBVIOUS
<1>2. Count(c, M) \in Nat
  BY FS_CardinalityType DEF Count
<1> HIDE DEF d
<1>3. CASE k[2] \in M
  <2> DEFINE new == <<k, c[k] + 1>>
  <2>1. new \notin Units(c, M)
    <3> SUFFICES ASSUME new \in Units(c, M) PROVE FALSE
      OBVIOUS
    <3>1. PICK h \in Keys, i \in Nat : i \in 1..c[h] /\ new = <<h, i>>
      BY UnitsAre
    <3>2. h = k /\ i = c[k] + 1 /\ c[k] \in Nat
      BY <3>1
    <3> QED
      BY <3>1, <3>2
  <2>2. Units(d, M) = Units(c, M) \union {new}
    <3>1. ASSUME NEW h \in Keys, NEW i \in 1..d[h], h[2] \in M
          PROVE  <<h, i>> \in Units(c, M) \union {new}
      <4>1. CASE h = k /\ i = c[k] + 1
        BY <4>1
      <4>2. CASE ~(h = k /\ i = c[k] + 1)
        <5>1. i \in 1..c[h]
          BY <4>2, <1>1
        <5> QED
          BY <5>1, <3>1, UnitsAre
      <4> QED
        BY <4>1, <4>2
    <3>2. ASSUME NEW h \in Keys, NEW i \in 1..c[h], h[2] \in M
          PROVE  <<h, i>> \in Units(d, M)
      <4>1. i \in 1..d[h]
        BY <1>1
      <4> QED
        BY <4>1, <3>2, <1>1, UnitsAre
    <3>3. new \in Units(d, M)
      <4>1. c[k] + 1 \in 1..d[k]
        BY <1>1
      <4> QED
        BY <4>1, <1>1, <1>3, UnitsAre
    <3>4. Units(d, M) \subseteq Units(c, M) \union {new}
      <4> SUFFICES ASSUME NEW e \in Units(d, M) PROVE e \in Units(c, M) \union {new}
        OBVIOUS
      <4>1. PICK h \in Keys : h[2] \in M /\ \E i \in 1..d[h] : e = <<h, i>>
        BY <1>1, UnitsAre
      <4>2. PICK i \in 1..d[h] : e = <<h, i>>
        BY <4>1
      <4> QED
        BY <4>1, <4>2, <3>1
    <3>5. Units(c, M) \subseteq Units(d, M)
      <4> SUFFICES ASSUME NEW e \in Units(c, M) PROVE e \in Units(d, M)
        OBVIOUS
      <4>1. PICK h \in Keys : h[2] \in M /\ \E i \in 1..c[h] : e = <<h, i>>
        BY UnitsAre
      <4>2. PICK i \in 1..c[h] : e = <<h, i>>
        BY <4>1
      <4> QED
        BY <4>1, <4>2, <3>2
    <3> QED
      BY <3>3, <3>4, <3>5
  <2> HIDE DEF new
  <2>3. IsFiniteSet(Units(d, M)) /\ Cardinality(Units(d, M)) = Cardinality(Units(c, M)) + 1
    BY <2>1, <2>2, FS_AddElement
  <2> QED
    BY <1>2, <1>3, <2>3 DEF Count, d
<1>4. CASE k[2] \notin M
  <2>1. \A h \in Keys : h[2] \in M => d[h] = c[h]
    BY <1>1, <1>4
  <2>2. \A h \in Keys : h[2] \in M => 1..d[h] = 1..c[h]
    BY <2>1
  <2>3. \A e : e \in Units(d, M) <=> e \in Units(c, M)
    BY <2>2, <1>1, UnitsAre
  <2>4. Units(d, M) = Units(c, M)
    BY <2>3
  <2> QED
    BY <1>2, <1>4, <2>4 DEF Count, d
<1> QED
  BY <1>3, <1>4

(* The counts of a batch and of the table add up. *)
LEMMA UnitsAddUp ==
  ASSUME NEW c \in [Keys -> Nat], NEW d \in [Keys -> Nat], NEW M \in SUBSET Metrics,
         IsFiniteSet(Units(c, M)), IsFiniteSet(Units(d, M))
  PROVE  /\ IsFiniteSet(Units(Plus(c, d), M))
         /\ {Count(c, M), Count(d, M)} \subseteq Nat
         /\ Count(Plus(c, d), M) = Count(c, M) + Count(d, M)
<1> DEFINE u == Units(c, M)
           v == Units(d, M)
           w == {<<e[1], c[e[1]] + e[2]>> : e \in v}
           f == [e \in v |-> <<e[1], c[e[1]] + e[2]>>]
<1>1. Plus(c, d) \in [Keys -> Nat] /\ \A k \in Keys : Plus(c, d)[k] = c[k] + d[k]
  BY PlusProperties
<1>2. ASSUME NEW k \in Keys, NEW i \in 1..d[k], k[2] \in M
      PROVE  <<k, i>> \in v /\ <<k, c[k] + i>> \in w
  <2>1. <<k, i>> \in v
    BY <1>2, UnitsAre
  <2> QED
    BY <2>1
<1>3. \A e \in v : \E k \in Keys : k[2] \in M /\ \E i \in 1..d[k] : e = <<k, i>>
  BY UnitsAre
<1>4. Units(Plus(c, d), M) = u \union w
  <2>1. ASSUME NEW k \in Keys, NEW i \in 1..Plus(c, d)[k], k[2] \in M
        PROVE  <<k, i>> \in u \union w
    <3>1. CASE i <= c[k]
      <4>1. i \in 1..c[k]
        BY <3>1, <1>1
      <4> QED
        BY <4>1, <2>1, UnitsAre
    <3>2. CASE ~(i <= c[k])
      <4>1. i - c[k] \in 1..d[k] /\ c[k] + (i - c[k]) = i
        BY <3>2, <1>1
      <4> QED
        BY <4>1, <2>1, <1>2
    <3> QED
      BY <3>1, <3>2
  <2>2. ASSUME NEW k \in Keys, NEW i \in 1..c[k], k[2] \in M
        PROVE  <<k, i>> \in Units(Plus(c, d), M)
    <3>1. i \in 1..Plus(c, d)[k]
      BY <1>1
    <3> QED
      BY <3>1, <2>2, <1>1, UnitsAre
  <2>3. ASSUME NEW k \in Keys, NEW i \in 1..d[k], k[2] \in M
        PROVE  <<k, c[k] + i>> \in Units(Plus(c, d), M)
    <3>1. c[k] + i \in 1..Plus(c, d)[k]
      BY <1>1
    <3> QED
      BY <3>1, <2>3, <1>1, UnitsAre
  <2>4. Units(Plus(c, d), M) \subseteq u \union w
    <3> SUFFICES ASSUME NEW e \in Units(Plus(c, d), M) PROVE e \in u \union w
      OBVIOUS
    <3>1. PICK k \in Keys : k[2] \in M /\ \E i \in 1..Plus(c, d)[k] : e = <<k, i>>
      BY <1>1, UnitsAre
    <3>2. PICK i \in 1..Plus(c, d)[k] : e = <<k, i>>
      BY <3>1
    <3> QED
      BY <3>1, <3>2, <2>1
  <2>5. u \subseteq Units(Plus(c, d), M)
    <3> SUFFICES ASSUME NEW e \in u PROVE e \in Units(Plus(c, d), M)
      OBVIOUS
    <3>1. PICK k \in Keys : k[2] \in M /\ \E i \in 1..c[k] : e = <<k, i>>
      BY UnitsAre
    <3>2. PICK i \in 1..c[k] : e = <<k, i>>
      BY <3>1
    <3> QED
      BY <3>1, <3>2, <2>2
  <2>6. w \subseteq Units(Plus(c, d), M)
    <3> SUFFICES ASSUME NEW e \in v PROVE <<e[1], c[e[1]] + e[2]>> \in Units(Plus(c, d), M)
      OBVIOUS
    <3>1. PICK k \in Keys, i \in Nat : i \in 1..d[k] /\ k[2] \in M /\ e = <<k, i>>
      BY <1>3
    <3> QED
      BY <3>1, <2>3
  <2> QED
    BY <2>4, <2>5, <2>6
<1>5. u \intersect w = {}
  <2> SUFFICES ASSUME NEW e \in v, <<e[1], c[e[1]] + e[2]>> \in u PROVE FALSE
    OBVIOUS
  <2>1. PICK k \in Keys, i \in Nat : i \in 1..d[k] /\ k[2] \in M /\ e = <<k, i>>
    BY <1>3
  <2>2. PICK h \in Keys, j \in Nat : j \in 1..c[h] /\ <<k, c[k] + i>> = <<h, j>>
    BY <2>1, UnitsAre
  <2>3. h = k /\ j = c[k] + i /\ c[k] \in Nat
    BY <2>2
  <2>4. i >= 1 /\ j <= c[k]
    BY <2>1, <2>2, <2>3
  <2> QED
    BY <2>1, <2>3, <2>4
<1>6. IsFiniteSet(w) /\ Cardinality(w) = Cardinality(v)
  <2>1. f \in [v -> w] /\ \A e \in w : \E b \in v : f[b] = e
    OBVIOUS
  <2>2. ASSUME NEW a \in v, NEW b \in v, f[a] = f[b] PROVE a = b
    <3>1. PICK k \in Keys, i \in Nat : i \in 1..d[k] /\ k[2] \in M /\ a = <<k, i>>
      BY <1>3
    <3>2. PICK h \in Keys, j \in Nat : j \in 1..d[h] /\ h[2] \in M /\ b = <<h, j>>
      BY <1>3
    <3>3. <<k, c[k] + i>> = <<h, c[h] + j>>
      BY <2>2, <3>1, <3>2
    <3>4. k = h /\ c[k] + i = c[k] + j
      BY <3>3
    <3>5. c[k] \in Nat /\ i \in Nat /\ j \in Nat
      BY <3>4
    <3> QED
      BY <3>1, <3>2, <3>4, <3>5
  <2> HIDE DEF f, w, v
  <2>3. f \in Bijection(v, w)
    BY <2>1, <2>2 DEF Bijection, Injection, Surjection, IsInjective
  <2>4. ExistsBijection(v, w)
    BY <2>3 DEF ExistsBijection
  <2> QED
    BY <2>4, FS_Bijection DEF v
<1> HIDE DEF w
<1>7. /\ IsFiniteSet(u \union w)
      /\ Cardinality(u \union w) = Cardinality(u) + Cardinality(w) - Cardinality(u \intersect w)
  BY <1>6, FS_Union
<1>8. Cardinality(u \intersect w) = 0
  BY <1>5, FS_EmptySet
<1>9. Cardinality(u) \in Nat /\ Cardinality(v) \in Nat
  BY FS_CardinalityType
<1> QED
  BY <1>4, <1>6, <1>7, <1>8, <1>9 DEF Count

-----------------------------------------------------------------------------
(* The books of the table.                                                 *)

Starts == {"demo_inference_started"}

(* Of a table and a batch only finitely many counts are summed. *)
FewUnits ==
  \A M \in {EndMetrics, Starts} :
    IsFiniteSet(Units(stored, M)) /\ IsFiniteSet(Units(pending, M))

(* A generation that runs was counted when it started, in the table or in  *)
(* the batch, and what a batch adds to the table keeps its books.          *)
Balanced ==
  ~refused =>
    /\ Count(stored, EndMetrics) <= Count(stored, Starts)
    /\ Count(stored, EndMetrics) + Count(pending, EndMetrics) + Cardinality(running)
         <= Count(stored, Starts) + Count(pending, Starts)

Few ==
  /\ refused \in BOOLEAN
  /\ running \in SUBSET Requests /\ IsFiniteSet(running)
  /\ IsFiniteSet(Entries(pending)) /\ Cardinality(Entries(pending)) <= MaxPendingEntries

BooksInv == CountTypes /\ Few /\ FewUnits /\ Balanced

LEMMA SummedMetrics ==
  EndMetrics \in SUBSET Metrics /\ Starts \in SUBSET Metrics
BY DEF EndMetrics, Starts, Metrics

LEMMA NoEntries == IsFiniteSet(Entries(NoCounts)) /\ Cardinality(Entries(NoCounts)) = 0
<1>1. Entries(NoCounts) = {}
  BY NoCountsProperties DEF Entries
<1> QED
  BY <1>1, FS_EmptySet

LEMMA InitBooks == AnalyticsInit => BooksInv
<1> SUFFICES ASSUME AnalyticsInit PROVE BooksInv
  OBVIOUS
<1>1. CountTypes
  BY NoCountsProperties DEF AnalyticsInit, CountTypes
<1>2. Few
  <2>1. pending = NoCounts /\ running = {} /\ refused = FALSE
    BY DEF AnalyticsInit
  <2>2. MaxPendingEntries \in Nat
    BY CapAssumption
  <2> QED
    <3>1. /\ IsFiniteSet(Entries(pending))
          /\ Cardinality(Entries(pending)) <= MaxPendingEntries
      BY <2>1, <2>2, NoEntries
    <3>2. IsFiniteSet(running) /\ running \in SUBSET Requests /\ refused \in BOOLEAN
      BY <2>1, FS_EmptySet
    <3> QED
      BY <3>1, <3>2 DEF Few
<1>3. FewUnits
  BY NoUnits, SummedMetrics DEF AnalyticsInit, FewUnits
<1>4. Balanced
  BY NoUnits, SummedMetrics, FS_EmptySet DEF AnalyticsInit, Balanced
<1> QED
  BY <1>1, <1>2, <1>3, <1>4 DEF BooksInv

(* record() with room: one count more in the batch. *)
LEMMA RecordedBooks ==
  ASSUME BooksInv, NEW k \in Keys, Room(k),
         pending' = [pending EXCEPT ![k] = @ + 1]
  PROVE  /\ IsFiniteSet(Entries(pending))'
         /\ (Cardinality(Entries(pending)) <= MaxPendingEntries)'
         /\ \A M \in {EndMetrics, Starts} :
              /\ IsFiniteSet(Units(pending, M))'
              /\ {Count(pending, M), Count(stored, M)} \subseteq Nat
              /\ Count(pending, M)' = Count(pending, M) + IF k[2] \in M THEN 1 ELSE 0
<1> DEFINE more == [pending EXCEPT ![k] = @ + 1]
<1>1. pending \in [Keys -> Nat]
  BY DEF BooksInv, CountTypes
<1>2. Entries(more) = Entries(pending) \union {k}
  BY <1>1 DEF Entries
<1>3. /\ IsFiniteSet(Entries(pending)) /\ Cardinality(Entries(pending)) <= MaxPendingEntries
      /\ Cardinality(Entries(pending)) \in Nat
  BY FS_CardinalityType DEF BooksInv, Few
<1>4. /\ IsFiniteSet(Entries(pending) \union {k})
      /\ Cardinality(Entries(pending) \union {k}) =
           IF k \in Entries(pending) THEN Cardinality(Entries(pending))
           ELSE Cardinality(Entries(pending)) + 1
  BY <1>3, FS_AddElement
<1>5. k \in Entries(pending) \/ Cardinality(Entries(pending)) < MaxPendingEntries
  BY DEF Room, Entries
<1>6. Cardinality(Entries(pending) \union {k}) <= MaxPendingEntries
  BY <1>3, <1>4, <1>5, CapAssumption
<1>7. ASSUME NEW M \in {EndMetrics, Starts}
      PROVE  /\ IsFiniteSet(Units(more, M))
             /\ {Count(pending, M), Count(stored, M)} \subseteq Nat
             /\ Count(more, M) = Count(pending, M) + IF k[2] \in M THEN 1 ELSE 0
  <2>1. M \in SUBSET Metrics /\ IsFiniteSet(Units(pending, M)) /\ IsFiniteSet(Units(stored, M))
    BY SummedMetrics DEF BooksInv, FewUnits
  <2>2. Count(stored, M) \in Nat
    BY <2>1, FS_CardinalityType DEF Count
  <2>3. /\ IsFiniteSet(Units(more, M))
        /\ Count(pending, M) \in Nat
        /\ Count(more, M) = Count(pending, M) + IF k[2] \in M THEN 1 ELSE 0
    BY <1>1, <2>1, OneUnitMore, Zenon
  <2> QED
    BY <2>2, <2>3
<1>8. pending' = more
  OBVIOUS
<1> HIDE DEF more
<1>9. /\ Entries(pending)' = Entries(more)
      /\ \A M \in {EndMetrics, Starts} : Units(pending, M)' = Units(more, M) /\ Count(pending, M)' = Count(more, M)
  BY <1>8 DEF Entries, Units, Count
<1> QED
  BY <1>2, <1>4, <1>6, <1>7, <1>9

(* Every kind of count keeps the books: a start adds a run to those under  *)
(* way, an end takes one away, another metric is not summed.               *)
Paired(k) ==
  \/ /\ k[2] \notin EndMetrics \union Starts
     /\ UNCHANGED running
  \/ /\ k[2] \in Starts
     /\ \E r \in Requests \ running : running' = running \union {r}
  \/ /\ k[2] \in EndMetrics
     /\ \E r \in running : running' = running \ {r}

LEMMA PairedRuns ==
  ASSUME BooksInv, NEW k \in Keys, Paired(k)
  PROVE  /\ running' \in SUBSET Requests /\ IsFiniteSet(running')
         /\ Cardinality(running) \in Nat
         /\ Cardinality(running') = Cardinality(running)
              + (IF k[2] \in Starts THEN 1 ELSE 0) - (IF k[2] \in EndMetrics THEN 1 ELSE 0)
<1>1. /\ running \in SUBSET Requests /\ IsFiniteSet(running)
      /\ Cardinality(running) \in Nat
  BY FS_CardinalityType DEF BooksInv, Few
<1>2. EndMetrics \intersect Starts = {}
  BY DEF EndMetrics, Starts
<1>3. CASE k[2] \notin EndMetrics \union Starts /\ UNCHANGED running
  BY <1>1, <1>3
<1>4. ASSUME k[2] \in Starts, NEW r \in Requests \ running, running' = running \union {r}
      PROVE  /\ running' \in SUBSET Requests /\ IsFiniteSet(running')
             /\ Cardinality(running') = Cardinality(running) + 1
  BY <1>1, <1>4, FS_AddElement
<1>5. ASSUME k[2] \in EndMetrics, NEW r \in running, running' = running \ {r}
      PROVE  /\ running' \in SUBSET Requests /\ IsFiniteSet(running')
             /\ Cardinality(running') = Cardinality(running) - 1
  BY <1>1, <1>5, FS_RemoveElement
<1> QED
  BY <1>1, <1>2, <1>3, <1>4, <1>5 DEF Paired

LEMMA RecordBooks ==
  ASSUME BooksInv, NEW k \in Keys, Record(k), UNCHANGED <<stored, lost>>, Paired(k)
  PROVE  BooksInv'
<1>1. /\ running' \in SUBSET Requests /\ IsFiniteSet(running')
      /\ Cardinality(running) \in Nat
      /\ Cardinality(running') = Cardinality(running)
           + (IF k[2] \in Starts THEN 1 ELSE 0) - (IF k[2] \in EndMetrics THEN 1 ELSE 0)
  BY PairedRuns
<1>2. \A M \in {EndMetrics, Starts} :
        /\ IsFiniteSet(Units(stored, M))' /\ Count(stored, M)' = Count(stored, M)
        /\ IsFiniteSet(Units(stored, M)) /\ IsFiniteSet(Units(pending, M))
        /\ Count(stored, M) \in Nat /\ Count(pending, M) \in Nat
  <2>1. stored' = stored /\ FewUnits
    BY DEF BooksInv
  <2>2. \A M : Units(stored, M)' = Units(stored, M) /\ Count(stored, M)' = Count(stored, M)
    BY <2>1 DEF Units, Count
  <2>3. \A M \in {EndMetrics, Starts} :
          IsFiniteSet(Units(stored, M)) /\ IsFiniteSet(Units(pending, M))
    BY <2>1 DEF FewUnits
  <2>4. \A M \in {EndMetrics, Starts} : Count(stored, M) \in Nat /\ Count(pending, M) \in Nat
    BY <2>3, FS_CardinalityType DEF Count
  <2> QED
    BY <2>2, <2>3, <2>4
<1>3. CASE Room(k)
  <2>1. /\ pending' = [pending EXCEPT ![k] = @ + 1]
        /\ accepted' = [accepted EXCEPT ![k] = @ + 1]
        /\ timer' = TRUE /\ refused' = refused
    BY <1>3 DEF Record
  <2>2. /\ IsFiniteSet(Entries(pending))'
        /\ (Cardinality(Entries(pending)) <= MaxPendingEntries)'
        /\ \A M \in {EndMetrics, Starts} :
             /\ IsFiniteSet(Units(pending, M))'
             /\ {Count(pending, M), Count(stored, M)} \subseteq Nat
             /\ Count(pending, M)' = Count(pending, M) + IF k[2] \in M THEN 1 ELSE 0
    BY <1>3, <2>1, RecordedBooks
  <2>3. CountTypes'
    BY <2>1 DEF BooksInv, CountTypes
  <2>4. Few'
    BY <1>1, <2>1, <2>2 DEF BooksInv, Few
  <2>5. FewUnits'
    BY <1>2, <2>2 DEF FewUnits
  <2>6. Balanced'
    <3> DEFINE se == Count(stored, EndMetrics)
               ss == Count(stored, Starts)
               pe == Count(pending, EndMetrics)
               ps == Count(pending, Starts)
    <3>1. /\ se' = se /\ ss' = ss
          /\ {se, ss, pe, ps} \subseteq Nat
          /\ pe' = pe + IF k[2] \in EndMetrics THEN 1 ELSE 0
          /\ ps' = ps + IF k[2] \in Starts THEN 1 ELSE 0
      BY <1>2, <2>2
    <3>2. Balanced <=> (~refused => se <= ss /\ se + pe + Cardinality(running) <= ss + ps)
      BY DEF Balanced
    <3>3. Balanced' <=> (~refused' => se' <= ss' /\ se' + pe' + Cardinality(running') <= ss' + ps')
      BY DEF Balanced
    <3>4. Balanced
      BY DEF BooksInv
    <3> HIDE DEF se, ss, pe, ps
    <3> QED
      BY <1>1, <2>1, <3>1, <3>2, <3>3, <3>4
  <2> QED
    BY <2>3, <2>4, <2>5, <2>6 DEF BooksInv
<1>4. CASE ~Room(k)
  <2>1. UNCHANGED <<pending, accepted, timer>> /\ refused' = TRUE
    BY <1>4 DEF Record
  <2>2. CountTypes'
    BY <2>1 DEF BooksInv, CountTypes
  <2>3. Few'
    BY <1>1, <2>1 DEF BooksInv, Few, Entries
  <2>4. FewUnits'
    <3>1. \A M : Units(pending, M)' = Units(pending, M)
      BY <2>1 DEF Units
    <3> QED
      BY <1>2, <3>1 DEF FewUnits
  <2>5. Balanced'
    BY <2>1 DEF Balanced
  <2> QED
    BY <2>2, <2>3, <2>4, <2>5 DEF BooksInv
<1> QED
  BY <1>3, <1>4

LEMMA FlushBooks ==
  ASSUME BooksInv, FlushSucceeds
  PROVE  BooksInv'
<1>1. /\ stored' = Plus(stored, pending) /\ pending' = NoCounts /\ timer' = FALSE
      /\ UNCHANGED <<running, accepted, lost, refused>>
  BY DEF FlushSucceeds, Persisted
<1>2. CountTypes'
  BY <1>1, NoCountsProperties, PlusProperties DEF BooksInv, CountTypes
<1>3. Few'
  BY <1>1, NoEntries, CapAssumption DEF BooksInv, Few, Entries
<1>4. \A M \in {EndMetrics, Starts} :
        /\ {Count(stored, M), Count(pending, M)} \subseteq Nat
        /\ IsFiniteSet(Units(Plus(stored, pending), M)) /\ IsFiniteSet(Units(NoCounts, M))
        /\ Count(Plus(stored, pending), M) = Count(stored, M) + Count(pending, M)
        /\ Count(NoCounts, M) = 0
  BY SummedMetrics, NoUnits, UnitsAddUp DEF BooksInv, FewUnits, CountTypes
<1>5. \A M : /\ Units(stored, M)' = Units(Plus(stored, pending), M)
             /\ Units(pending, M)' = Units(NoCounts, M)
             /\ Count(stored, M)' = Count(Plus(stored, pending), M)
             /\ Count(pending, M)' = Count(NoCounts, M)
  BY <1>1 DEF Units, Count
<1>6. FewUnits'
  BY <1>4, <1>5 DEF FewUnits
<1>7. Balanced'
  <2>1. Cardinality(running) \in Nat /\ running' = running /\ refused' = refused
    BY <1>1, FS_CardinalityType DEF BooksInv, Few
  <2>2. Balanced
    BY DEF BooksInv
  <2>3. \A M \in {EndMetrics, Starts} :
          /\ {Count(stored, M), Count(pending, M)} \subseteq Nat
          /\ Count(stored, M)' = Count(stored, M) + Count(pending, M)
          /\ Count(pending, M)' = 0
    BY <1>4, <1>5
  <2> QED
    BY <2>1, <2>2, <2>3 DEF Balanced
<1> QED
  BY <1>2, <1>3, <1>6, <1>7 DEF BooksInv

LEMMA RestartBooks ==
  ASSUME BooksInv, Restart
  PROVE  BooksInv'
<1>1. /\ pending' = NoCounts /\ timer' = FALSE /\ running' = {}
      /\ lost' = Plus(lost, pending)
      /\ UNCHANGED <<stored, accepted, refused>>
  BY DEF Restart
<1>2. CountTypes'
  BY <1>1, NoCountsProperties, PlusProperties DEF BooksInv, CountTypes
<1>3. Few'
  BY <1>1, NoEntries, FS_EmptySet, CapAssumption DEF BooksInv, Few, Entries
<1>4. \A M \in {EndMetrics, Starts} :
        /\ Units(stored, M)' = Units(stored, M) /\ Count(stored, M)' = Count(stored, M)
        /\ Count(stored, M) \in Nat
        /\ IsFiniteSet(Units(pending, M))' /\ Count(pending, M)' = 0
  <2>1. \A M \in {EndMetrics, Starts} :
          IsFiniteSet(Units(NoCounts, M)) /\ Count(NoCounts, M) = 0
    BY SummedMetrics, NoUnits
  <2>2. \A M : /\ Units(stored, M)' = Units(stored, M) /\ Count(stored, M)' = Count(stored, M)
               /\ Units(pending, M)' = Units(NoCounts, M)
               /\ Count(pending, M)' = Count(NoCounts, M)
    BY <1>1 DEF Units, Count
  <2>3. \A M \in {EndMetrics, Starts} : Count(stored, M) \in Nat
    BY FS_CardinalityType DEF BooksInv, FewUnits, Count
  <2> QED
    BY <2>1, <2>2, <2>3
<1>5. FewUnits'
  BY <1>4 DEF BooksInv, FewUnits
<1>6. Balanced'
  BY <1>1, <1>4, FS_EmptySet DEF BooksInv, Balanced
<1> QED
  BY <1>2, <1>3, <1>5, <1>6 DEF BooksInv

LEMMA NextBooks == BooksInv /\ [AnalyticsNext]_analyticsVars => BooksInv'
<1> SUFFICES ASSUME BooksInv, [AnalyticsNext]_analyticsVars PROVE BooksInv'
  OBVIOUS
<1>1. ASSUME NEW hour \in Hours, NEW metric \in Metrics, Visited(hour, metric)
      PROVE  BooksInv'
  <2> DEFINE k == <<hour, metric>>
  <2>1. k \in Keys /\ k[2] \notin EndMetrics \union Starts
    BY <1>1 DEF Visited, Keys, EndMetrics, Starts
  <2>2. Record(k) /\ Paired(k) /\ UNCHANGED <<stored, lost>>
    BY <1>1, <2>1 DEF Visited, Paired
  <2> HIDE DEF k
  <2> QED
    BY <2>1, <2>2, RecordBooks
<1>2. ASSUME NEW hour \in Hours, NEW r \in Requests, Started(r, hour)
      PROVE  BooksInv'
  <2> DEFINE k == <<hour, "demo_inference_started">>
  <2>1. k \in Keys /\ k[2] \in Starts
    BY DEF Keys, Metrics, Starts
  <2>2. Record(k) /\ Paired(k) /\ UNCHANGED <<stored, lost>>
    BY <1>2, <2>1 DEF Started, Paired
  <2> HIDE DEF k
  <2> QED
    BY <2>1, <2>2, RecordBooks
<1>3. ASSUME NEW hour \in Hours, NEW r \in Requests, NEW outcome \in Outcomes,
             Ended(r, hour, outcome)
      PROVE  BooksInv'
  <2> DEFINE k == <<hour, MetricFor(outcome)>>
  <2>1. MetricFor(outcome) \in EndMetrics
    BY DEF MetricFor, EndMetrics
  <2>2. k \in Keys /\ k[2] \in EndMetrics
    BY <2>1, SummedMetrics DEF Keys
  <2>3. Record(k) /\ Paired(k) /\ UNCHANGED <<stored, lost>>
    BY <1>3, <2>2 DEF Ended, Paired
  <2> HIDE DEF k
  <2> QED
    BY <2>2, <2>3, RecordBooks
<1>4. CASE FlushSucceeds
  BY <1>4, FlushBooks
<1>5. CASE FlushFails \/ UNCHANGED analyticsVars
  <2>1. /\ UNCHANGED <<pending, stored, running, accepted, lost, refused>>
        /\ timer' \in BOOLEAN
    BY <1>5 DEF FlushFails, analyticsVars, BooksInv, CountTypes
  <2> QED
    BY <2>1 DEF BooksInv, CountTypes, Few, FewUnits, Balanced, Entries, Units, Count
<1>6. CASE Restart
  BY <1>6, RestartBooks
<1> QED
  BY <1>1, <1>2, <1>3, <1>4, <1>5, <1>6 DEF AnalyticsNext, TimerFires, SummaryRead

(* The table never shows more ends than starts of demo generations, and    *)
(* what it lacks is in the batch or still runs, whatever flushes failed    *)
(* and whenever the process ended; the batch stays within its bound.       *)
THEOREM BooksStayBalanced == AnalyticsSpec => []BooksBalance
<1>1. BooksInv => BooksBalance
  <2> SUFFICES ASSUME BooksInv PROVE BooksBalance
    OBVIOUS
  <2>1. AnalyticsTypeOK
    BY DEF BooksInv, CountTypes, Few, AnalyticsTypeOK
  <2>2. \A M \in {EndMetrics, Starts} :
          Count(Plus(stored, pending), M) = Count(stored, M) + Count(pending, M)
    BY SummedMetrics, UnitsAddUp DEF BooksInv, FewUnits, CountTypes
  <2> QED
    BY <2>1, <2>2 DEF BooksInv, Balanced, BooksBalance, Starts
<1> QED
  BY InitBooks, NextBooks, <1>1, PTL DEF AnalyticsSpec

=============================================================================
