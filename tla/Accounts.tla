------------------------------ MODULE Accounts ------------------------------
(***************************************************************************)
(* The accounts of the gateway (src/features/accounts): the rows of users, *)
(* browser sessions and personal API keys, and the operations that change  *)
(* them.  Operations with a password read rows, wait for a hash outside    *)
(* any transaction, and write in one transaction with the time they began  *)
(* at; operations of an account run with what the authorization read.      *)
(* Any number of calls may be between two of these points.  Passwords are  *)
(* abstracted: a verification succeeds or fails (Refused).                 *)
(***************************************************************************)
EXTENDS Integers, FiniteSets

CONSTANTS Ids,             \* primary keys of users
          Names,           \* normalized usernames
          SessionIds, KeyIds,
          Calls,           \* places for calls in flight
          Operations,      \* the operations that are called
          MaxSessions,     \* MAX_ACTIVE_SESSIONS
          MaxKeys,         \* MAX_ACTIVE_API_KEYS
          NormalLife,      \* NORMAL_SESSION_MS
          RestrictedLife,  \* RESTRICTED_SESSION_MS
          TemporaryLife,   \* TEMPORARY_PASSWORD_LIFETIME_MS
          KeyLife,         \* API_KEY_LIFETIME_MS
          MaxTime          \* bound on the clock

ASSUME CapsAssumption == MaxSessions \in Nat \ {0} /\ MaxKeys \in Nat \ {0}
ASSUME LivesAssumption ==
  /\ {NormalLife, RestrictedLife, TemporaryLife, KeyLife} \subseteq Nat \ {0}
  /\ MaxTime \in Nat \ {0}

VARIABLES users,      \* the row of each user, or NoUser
          sessions,   \* the rows of sessions
          keys,       \* the row of each personal key, or NoKey
          calls,      \* what each call in flight has read
          clock,      \* Date.now()
          retired     \* history: keys that worked once and then did not

vars == <<users, sessions, keys, calls, clock, retired>>

Null == 0       \* a time that is not set; the clock starts at 1

(* What stands for a row that is not there. *)
NoUser == [name |-> "none", role |-> "none", status |-> "none", must |-> FALSE, until |-> Null]
NoKey == [user |-> "none", revoked |-> FALSE, expires |-> Null]
Idle == [op |-> "none"]

Exists(id) == users[id].role # "none"
Issued(k) == keys[k].expires # Null
Existing == {id \in Ids : Exists(id)}
Named(name) == {id \in Existing : users[id].name = name}
Administrators == {id \in Existing : users[id].role = "admin"}
Members == Existing \ Administrators

Row(name, role) ==
  [name |-> name, role |-> role, status |-> "active", must |-> FALSE, until |-> Null]

Init ==
  /\ users = [id \in Ids |-> NoUser]
  /\ sessions = {}
  /\ keys = [k \in KeyIds |-> NoKey]
  /\ calls = [c \in Calls |-> Idle]
  /\ clock = 1
  /\ retired = {}

-----------------------------------------------------------------------------
(* What the rows grant.                                                     *)

(* readBrowserSession: the account of a session, by its current row.       *)
Reads(s) == s.expires > clock /\ users[s.user].status = "active"

(* authenticateInferenceApiKey, for a personal key.                         *)
Authenticates(k) ==
  /\ Issued(k)
  /\ keys[k].expires > clock /\ ~keys[k].revoked
  /\ users[keys[k].user].status = "active"

(* evaluateAccountAuthorization with the requirement of each operation.    *)
Granted(id, op) ==
  \/ op = "change"
  \/ op \in {"create", "revoke"} /\ ~users[id].must
  \/ op \in {"disable", "temporary"} /\ ~users[id].must /\ users[id].role = "admin"

-----------------------------------------------------------------------------
(* Sessions.                                                                *)

SessionsOf(id) == {s \in sessions : s.user = id}

(* randomUUID(): an id no row has. *)
FreshIds == SessionIds \ {s.id : s \in sessions}
FreshId == CHOOSE sid \in FreshIds : TRUE

(* The rest after the excess oldest rows are gone. *)
Newest(rows, excess, rest) ==
  /\ Cardinality(rows \ rest) = (IF excess > 0 THEN excess ELSE 0)
  /\ \A s \in rows \ rest, t \in rest : s.created <= t.created

(* Mutant: the session that is inserted is not counted. *)
RestAfterEvictionShort(rows, rest) == Newest(rows, Cardinality(rows) - MaxSessions, rest)

(* The oldest rows go, so that the one inserted fits. *)
RestAfterEviction(rows, rest) == Newest(rows, Cardinality(rows) - MaxSessions + 1, rest)

(* createBrowserSession, on the rows a transaction has so far.             *)
CreateSession(rows, id, restricted, now) ==
  LET live == {s \in rows : s.expires > now}
      active == {s \in live : s.user = id}
  IN /\ FreshIds # {}
     /\ \E rest \in SUBSET active :
          /\ RestAfterEviction(active, rest)
          /\ sessions' = (live \ active) \union rest \union
               {[id |-> FreshId, user |-> id, created |-> now,
                 expires |-> now + IF restricted THEN RestrictedLife ELSE NormalLife]}

-----------------------------------------------------------------------------
(* Calls.                                                                   *)

Begin(c, call) ==
  /\ calls[c] = Idle /\ call.op \in Operations
  /\ calls' = [calls EXCEPT ![c] = call]

At(c, op, stage) == calls[c].op = op /\ calls[c].stage = stage

Return(c) == calls' = [calls EXCEPT ![c] = Idle]

(* A call ends without effect: wrong password or token, a limit, a row     *)
(* that is not there, a transaction that fails and is rolled back, or the  *)
(* process ends.                                                           *)
Refused(c) ==
  /\ calls[c] # Idle
  /\ Return(c)
  /\ UNCHANGED <<users, sessions, keys, clock>>

(* The middleware reads the session of the cookie, and the handler runs    *)
(* later with the account it found.                                        *)
Authorize(c, s, op) ==
  /\ Reads(s) /\ Granted(s.user, op)
  /\ Begin(c, [op |-> op, stage |-> "authorized", user |-> s.user])
  /\ UNCHANGED <<users, sessions, keys, clock>>

-----------------------------------------------------------------------------
(* bootstrapAdministrator and registerMember.                              *)

Hash(c, op, name) ==
  /\ Begin(c, [op |-> op, stage |-> "hashing", name |-> name, now |-> clock])
  /\ UNCHANGED <<users, sessions, keys, clock>>

Bootstrap(c, name) == Hash(c, "bootstrap", name)

(* Mutant: whether there is a user is not looked at after the hash. *)
BootstrappedUnchecked(c, id) ==
  /\ At(c, "bootstrap", "hashing")
  /\ ~Exists(id)
  /\ users' = [users EXCEPT ![id] = Row(calls[c].name, "admin")]
  /\ Return(c)
  /\ UNCHANGED <<sessions, keys, clock>>

Bootstrapped(c, id) ==
  /\ At(c, "bootstrap", "hashing")
  /\ Existing = {}
  /\ users' = [users EXCEPT ![id] = Row(calls[c].name, "admin")]
  /\ Return(c)
  /\ UNCHANGED <<sessions, keys, clock>>

Register(c, name) == Hash(c, "register", name)

(* Mutant: two registrations of a name are told apart by the row read      *)
(* before the hash only.                                                   *)
RegisteredTwice(c, id) ==
  /\ At(c, "register", "hashing")
  /\ Administrators # {} /\ ~Exists(id)
  /\ users' = [users EXCEPT ![id] = Row(calls[c].name, "member")]
  /\ CreateSession(sessions, id, FALSE, calls[c].now)
  /\ Return(c)
  /\ UNCHANGED <<keys, clock>>

Registered(c, id) ==
  /\ At(c, "register", "hashing")
  /\ Administrators # {} /\ Named(calls[c].name) = {} /\ ~Exists(id)
  /\ users' = [users EXCEPT ![id] = Row(calls[c].name, "member")]
  /\ CreateSession(sessions, id, FALSE, calls[c].now)
  /\ Return(c)
  /\ UNCHANGED <<keys, clock>>

-----------------------------------------------------------------------------
(* login, changePassword, logout.                                          *)

Login(c, id) ==
  /\ Exists(id)
  /\ Begin(c, [op |-> "login", stage |-> "hashing", user |-> id, row |-> users[id],
               now |-> clock])
  /\ UNCHANGED <<users, sessions, keys, clock>>

(* All conditions are about the row that was read before the hash.         *)
LoggedIn(c) ==
  /\ At(c, "login", "hashing")
  /\ LET call == calls[c]
     IN /\ call.row.must => call.row.until # Null /\ call.row.until > call.now
        /\ call.row.status = "active"
        /\ CreateSession(sessions, call.user, call.row.must, call.now)
  /\ Return(c)
  /\ UNCHANGED <<users, keys, clock>>

ChangePassword(c) ==
  /\ At(c, "change", "authorized")
  /\ calls' = [calls EXCEPT ![c] = [op |-> "change", stage |-> "hashing",
                                     user |-> @.user, now |-> clock]]
  /\ UNCHANGED <<users, sessions, keys, clock>>

PasswordChanged(c) ==
  /\ At(c, "change", "hashing")
  /\ LET id == calls[c].user
     IN /\ users' = [users EXCEPT ![id] = [@ EXCEPT !.must = FALSE, !.until = Null]]
        /\ CreateSession(sessions \ SessionsOf(id), id, FALSE, calls[c].now)
  /\ Return(c)
  /\ UNCHANGED <<keys, clock>>

Logout(s) ==
  /\ Reads(s)
  /\ sessions' = sessions \ {s}
  /\ UNCHANGED <<users, keys, calls, clock>>

-----------------------------------------------------------------------------
(* setMemberDisabled, issueTemporaryPassword, and the script that resets   *)
(* the administrator from the host.                                        *)

(* Mutant: the keys of a disabled member keep their rows. *)
RevokedOfNobody(id) == keys

(* The unexpired keys of a member that is disabled are revoked. *)
RevokedOf(id) ==
  [k \in KeyIds |->
     IF Issued(k) /\ keys[k].user = id /\ keys[k].expires > clock
       THEN [keys[k] EXCEPT !.revoked = TRUE] ELSE keys[k]]

Disable(c, id) ==
  /\ At(c, "disable", "authorized") /\ id \in Members
  /\ users' = [users EXCEPT ![id].status = "disabled"]
  /\ sessions' = sessions \ SessionsOf(id)
  /\ keys' = RevokedOf(id)
  /\ Return(c)
  /\ UNCHANGED clock

Enable(c, id) ==
  /\ At(c, "disable", "authorized") /\ id \in Members
  /\ users' = [users EXCEPT ![id].status = "active"]
  /\ Return(c)
  /\ UNCHANGED <<sessions, keys, clock>>

IssueTemporary(c, id) ==
  /\ At(c, "temporary", "authorized")
  /\ id \in Members /\ users[id].status # "disabled"
  /\ calls' = [calls EXCEPT ![c] = [op |-> "temporary", stage |-> "hashing",
                                     user |-> id, now |-> clock]]
  /\ UNCHANGED <<users, sessions, keys, clock>>

Recover(c, id) ==
  /\ id \in Administrators
  /\ Begin(c, [op |-> "recover", stage |-> "hashing", user |-> id, now |-> clock])
  /\ UNCHANGED <<users, sessions, keys, clock>>

(* Mutant: sessions that are open stay open. *)
WriteTemporaryOnly(id, now) ==
  /\ users' = [users EXCEPT ![id] = [@ EXCEPT !.must = TRUE, !.until = now + TemporaryLife]]
  /\ UNCHANGED sessions

WriteTemporary(id, now) ==
  /\ users' = [users EXCEPT ![id] = [@ EXCEPT !.must = TRUE, !.until = now + TemporaryLife]]
  /\ sessions' = sessions \ SessionsOf(id)

TemporaryIssued(c) ==
  /\ At(c, "temporary", "hashing") \/ At(c, "recover", "hashing")
  /\ WriteTemporary(calls[c].user, calls[c].now)
  /\ Return(c)
  /\ UNCHANGED <<keys, clock>>

-----------------------------------------------------------------------------
(* createPersonalApiKey, revokePersonalApiKey.                             *)

ActiveKeys(id) ==
  {k \in KeyIds : Issued(k) /\ keys[k].user = id
                  /\ ~keys[k].revoked /\ keys[k].expires > clock}

RoomForKey(id) == Cardinality(ActiveKeys(id)) < MaxKeys

CreateKey(c, k) ==
  /\ At(c, "create", "authorized")
  /\ ~Issued(k) /\ RoomForKey(calls[c].user)
  /\ keys' = [keys EXCEPT ![k] = [user |-> calls[c].user, revoked |-> FALSE,
                                   expires |-> clock + KeyLife]]
  /\ Return(c)
  /\ UNCHANGED <<users, sessions, clock>>

RevokeKey(c, k) ==
  /\ At(c, "revoke", "authorized")
  /\ Issued(k) /\ keys[k].user = calls[c].user /\ ~keys[k].revoked
  /\ keys' = [keys EXCEPT ![k].revoked = TRUE]
  /\ Return(c)
  /\ UNCHANGED <<users, sessions, clock>>

-----------------------------------------------------------------------------
Tick ==
  /\ clock < MaxTime
  /\ clock' = clock + 1
  /\ UNCHANGED <<users, sessions, keys, calls>>

Step ==
  \/ \E c \in Calls :
       \/ Refused(c)
       \/ \E s \in sessions, op \in Operations : Authorize(c, s, op)
       \/ \E name \in Names : Bootstrap(c, name) \/ Register(c, name)
       \/ LoggedIn(c) \/ ChangePassword(c) \/ PasswordChanged(c) \/ TemporaryIssued(c)
       \/ \E id \in Ids :
            \/ Bootstrapped(c, id) \/ Registered(c, id) \/ Login(c, id)
            \/ Disable(c, id) \/ Enable(c, id) \/ IssueTemporary(c, id) \/ Recover(c, id)
       \/ \E k \in KeyIds : CreateKey(c, k) \/ RevokeKey(c, k)
  \/ \E s \in sessions : Logout(s)
  \/ Tick

Next == Step /\ retired' = retired \union {k \in KeyIds : Authenticates(k) /\ ~Authenticates(k)'}

Spec == Init /\ [][Next]_vars

-----------------------------------------------------------------------------
(* Properties. *)

Times == 1..(MaxTime + NormalLife + RestrictedLife + TemporaryLife + KeyLife)

UserRows == [name : Names \union {"none"}, role : {"admin", "member", "none"},
             status : {"active", "disabled", "none"}, must : BOOLEAN,
             until : Times \union {Null}]

(* A row that demands a new password is one with a temporary password, and *)
(* sessions and keys belong to users.                                      *)
TypeOK ==
  /\ users \in [Ids -> UserRows]
  /\ \A id \in Ids :
       /\ Exists(id) => users[id].name \in Names /\ users[id].status # "none"
       /\ ~Exists(id) => users[id].status = "none"
       /\ users[id].must <=> users[id].until # Null
  /\ sessions \subseteq [id : SessionIds, user : Existing, created : Times, expires : Times]
  /\ keys \in [KeyIds -> [user : Ids \union {"none"}, revoked : BOOLEAN,
                          expires : Times \union {Null}]]
  /\ \A k \in KeyIds : Issued(k) => keys[k].user \in Existing
  /\ \A c \in Calls : calls[c].op \in Operations \union {"none"}
  /\ clock \in 1..MaxTime /\ retired \subseteq KeyIds

(* However many set-ups, registrations and resets overlap, there is never  *)
(* a second administrator, nobody registers before there is one, and       *)
(* nothing ever disables him.                                              *)
OneAdministrator ==
  /\ \A a, b \in Administrators : a = b
  /\ Existing # {} => Administrators # {}
  /\ \A id \in Administrators : users[id].status = "active"

(* Registrations of one name that hash at the same time, or that race the  *)
(* set-up, never leave two users of that name.                             *)
NamesUnique == \A a, b \in Existing : users[a].name = users[b].name => a = b

(* No user ever has more session rows than the cap, not even expired ones, *)
(* although every insertion counts with the time its call began at.        *)
SessionsWithinCap == \A id \in Ids : Cardinality(SessionsOf(id)) <= MaxSessions

(* A session that grants access keeps the rights it has until it expires   *)
(* or is deleted: no operation of anybody, and none that hashed meanwhile, *)
(* turns an open session into a restricted one, a restricted one into an   *)
(* open one, or leaves the row of one it ended.                            *)
SessionsKeepTheirRights ==
  [][\A s \in sessions :
       Reads(s) /\ s \in sessions' /\ s.expires > clock' =>
         Reads(s)' /\ users'[s.user].must = users[s.user].must]_vars

(* A key that once worked and then did not, because it expired, was        *)
(* revoked or its owner was disabled, never works again, also when its     *)
(* owner is enabled again.                                                 *)
RetiredForGood == \A k \in retired : ~Authenticates(k)

=============================================================================
