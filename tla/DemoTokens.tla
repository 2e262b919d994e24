----------------------------- MODULE DemoTokens -----------------------------
(***************************************************************************)
(* The rate limiter of the gateway (accounts/rate-limit.server.ts) with    *)
(* the four callers that share its map of windows, and the demo tokens     *)
(* one of them issues (accounts/api-keys/demo-api-tokens.server.ts).       *)
(***************************************************************************)
EXTENDS Ranks

CONSTANTS Names,            \* normalized usernames that are presented
          Everybody,        \* "global", which a user may also be called
          Operations,       \* the callers: "login", "register", "issue", "view"
          Maximum, Window,  \* maximum and windowMs of each kind of call
          MaxEntries,       \* MAX_ENTRIES
          MaxTokens,        \* MAX_UNEXPIRED_DEMO_API_TOKENS
          MaxCleaned,       \* MAX_EXPIRED_TOKENS_CLEANED_PER_ISSUANCE
          TokenLife,        \* DEMO_API_TOKEN_LIFETIME_MS
          MaxTime           \* bound on the clock

Kinds == {"loginGlobal", "login", "registrationGlobal", "registration", "issuance", "view"}

ASSUME LimitsAssumption ==
  /\ Maximum \in [Kinds -> Nat \ {0}] /\ Window \in [Kinds -> Nat \ {0}]
  /\ MaxEntries \in Nat \ {0}
  /\ {MaxTokens, TokenLife, MaxTime} \subseteq Nat \ {0}

(* No window of everybody lasts less than half as long as those of the     *)
(* names behind it; then at most two or three of them admit the names that *)
(* have windows at a time, and the map has room for these and its four     *)
(* windows of everybody, unless one of these is cleared early.             *)
Behind == [login |-> "loginGlobal", registration |-> "registrationGlobal"]

MostNames(kind) ==
  (IF Window[kind] <= Window[Behind[kind]] THEN 2 ELSE 3) * Maximum[Behind[kind]]

ASSUME CapacityAssumption ==
  /\ \A kind \in {"login", "registration"} : Window[kind] <= 2 * Window[Behind[kind]]
  /\ 4 + MostNames("login") + MostNames("registration") < MaxEntries

(* At least as many expired tokens are cleaned as there may be. *)
ASSUME CleaningAssumption == MaxCleaned \in Nat /\ MaxCleaned >= MaxTokens

VARIABLES windows,     \* the map of windows, in the order of its keys
          tokens,      \* expiry times of the rows of demo tokens, by row
          setUp,       \* there is a user
          verifying,   \* logins of each name that wait for the password
          clock,       \* Date.now()
          admitted,    \* history: what each limit admitted of late
          reopened     \* history: a user called Everybody has logged in

tokensVars == <<windows, tokens, setUp, verifying, clock, admitted, reopened>>

(* The limits that are consumed: a kind of call, and whom it is about.     *)
Global(kind) == [kind |-> kind, name |-> Everybody]
Of(kind, name) == [kind |-> kind, name |-> name]
Limited == {Global(k) : k \in {"loginGlobal", "registrationGlobal", "issuance", "view"}}
             \union {Of(k, n) : k \in {"login", "registration"}, n \in Names}

(* The key of a limit is a string: `login:${name}` or "login:global".  For *)
(* the user called Everybody they are the same key.                        *)
Prefix(kind) ==
  IF \E k \in DOMAIN Behind : Behind[k] = kind
    THEN CHOOSE k \in DOMAIN Behind : Behind[k] = kind
  ELSE kind

Key(limit) == [prefix |-> Prefix(limit.kind), name |-> limit.name]

TokensInit ==
  /\ windows = <<>>
  /\ tokens = <<>>
  /\ setUp \in BOOLEAN
  /\ verifying = [n \in Names |-> 0]
  /\ clock = 0
  /\ admitted = [l \in Limited |-> {}]
  /\ reopened = FALSE

-----------------------------------------------------------------------------
(* The limiter.                                                             *)

(* prune(): expired windows go, and the oldest ones of a map that is full. *)
Pruned(ws) ==
  LET live == At(ws, {i \in DOMAIN ws : ws[i].resetAt > clock})
  IN IF Len(live) < MaxEntries THEN live
     ELSE SubSeq(live, Len(live) - MaxEntries + 2, Len(live))

(* Mutant: one attempt too many is allowed. *)
ExhaustedLate(w, limit) == w.count > Maximum[limit.kind]

Exhausted(w, limit) == w.count >= Maximum[limit.kind]

Counted(w) == [w EXCEPT !.count = @ + 1]

(* consumeRateLimit: a window of the key may have been opened, and is      *)
(* counted, by calls with another maximum and windowMs.                    *)
Consume(ws, limit) ==
  LET kept == Pruned(ws)
      mine == {i \in DOMAIN kept : kept[i].key = Key(limit)}
  IN IF mine = {}
       THEN [allowed |-> TRUE,
             windows |-> Append(kept, [key |-> Key(limit), count |-> 1,
                                       resetAt |-> clock + Window[limit.kind]])]
     ELSE LET i == CHOOSE j \in mine : TRUE
          IN IF Exhausted(kept[i], limit) THEN [allowed |-> FALSE, windows |-> kept]
             ELSE [allowed |-> TRUE, windows |-> [kept EXCEPT ![i] = Counted(@)]]

(* clearRateLimit *)
Cleared(ws, key) == At(ws, {i \in DOMAIN ws : ws[i].key # key})

(* An admission: its time, its number among those of that time, and the    *)
(* end of the window it was counted in.                                    *)
Admission(limit) ==
  [at |-> clock, nth |-> Cardinality({a \in admitted[limit] : a.at = clock}),
   until |-> windows'[CHOOSE i \in DOMAIN windows' : windows'[i].key = Key(limit)].resetAt]

(* The history is kept until the limit of everybody is opened afresh.      *)
Admit(limits) ==
  /\ admitted' = IF reopened THEN admitted
                 ELSE [l \in Limited |-> IF l \in limits THEN admitted[l] \union {Admission(l)}
                                         ELSE admitted[l]]
  /\ UNCHANGED reopened

-----------------------------------------------------------------------------
(* The callers.                                                             *)

(* Mutant: the limit of the name is taken first. *)
LimitNameFirst(global, limit) ==
  LET n == Consume(windows, limit)
      g == Consume(n.windows, global)
  IN IF n.allowed THEN [windows |-> g.windows,
                        admitted |-> {limit} \union IF g.allowed THEN {global} ELSE {},
                        allowed |-> g.allowed]
     ELSE [windows |-> n.windows, admitted |-> {}, allowed |-> FALSE]

(* The limit of everybody, and if that allows it the limit of the name,    *)
(* which takes from the same window once more when the name is Everybody.  *)
LimitBoth(global, limit) ==
  LET g == Consume(windows, global)
      n == Consume(g.windows, limit)
  IN IF g.allowed THEN [windows |-> n.windows,
                        admitted |-> {global} \union IF n.allowed THEN {limit} ELSE {},
                        allowed |-> n.allowed]
     ELSE [windows |-> g.windows, admitted |-> {}, allowed |-> FALSE]

(* A username that is not valid has the limit of the name "invalid".       *)
Login(name) ==
  /\ "login" \in Operations
  /\ LET r == LimitBoth(Global("loginGlobal"), Of("login", name))
     IN /\ windows' = r.windows
        /\ Admit(r.admitted)
        /\ verifying' = IF r.allowed THEN [verifying EXCEPT ![name] = @ + 1] ELSE verifying
  /\ UNCHANGED <<tokens, setUp, clock>>

(* A password that matches clears the window of `login:${name}`, and that  *)
(* is everybody's when the name is Everybody.                              *)
LoginSucceeds(name) ==
  /\ verifying[name] > 0 /\ setUp
  /\ verifying' = [verifying EXCEPT ![name] = @ - 1]
  /\ windows' = Cleared(windows, Key(Of("login", name)))
  /\ reopened' = (reopened \/ name = Everybody)
  /\ admitted' = IF reopened' THEN [l \in Limited |-> {}]
                 ELSE [admitted EXCEPT ![Of("login", name)] = {}]
  /\ UNCHANGED <<tokens, setUp, clock>>

LoginFails(name) ==
  /\ verifying[name] > 0
  /\ verifying' = [verifying EXCEPT ![name] = @ - 1]
  /\ UNCHANGED <<windows, tokens, setUp, clock, admitted, reopened>>

(* A username that is not valid has met the limit of everybody only. *)
RegisterInvalid ==
  /\ "register" \in Operations
  /\ LET g == Consume(windows, Global("registrationGlobal"))
     IN windows' = g.windows /\ Admit(IF g.allowed THEN {Global("registrationGlobal")} ELSE {})
  /\ UNCHANGED <<tokens, setUp, verifying, clock>>

Register(name) ==
  /\ "register" \in Operations
  /\ LET r == LimitBoth(Global("registrationGlobal"), Of("registration", name))
     IN windows' = r.windows /\ Admit(r.admitted)
  /\ UNCHANGED <<tokens, setUp, verifying, clock>>

View ==
  /\ "view" \in Operations
  /\ LET g == Consume(windows, Global("view"))
     IN windows' = g.windows /\ Admit(IF g.allowed THEN {Global("view")} ELSE {})
  /\ UNCHANGED <<tokens, setUp, verifying, clock>>

(* The transaction: up to MaxCleaned expired rows go, in any order, then   *)
(* those in force are counted.  It is all or nothing.                      *)
Expired(rows) == {i \in DOMAIN rows : rows[i] <= clock}
InForce(rows) == {i \in DOMAIN rows : rows[i] > clock}

Without(rows, cleaned) == At(rows, DOMAIN rows \ cleaned)

Cleans(rows, cleaned) ==
  LET expired == Cardinality(Expired(rows))
  IN Cardinality(cleaned) = IF expired < MaxCleaned THEN expired ELSE MaxCleaned

Issue ==
  /\ "issue" \in Operations
  /\ LET g == Consume(windows, Global("issuance"))
     IN /\ windows' = g.windows
        /\ Admit(IF g.allowed THEN {Global("issuance")} ELSE {})
        /\ \/ ~(g.allowed /\ setUp) /\ UNCHANGED tokens
           \/ /\ g.allowed /\ setUp
              /\ \E cleaned \in SUBSET Expired(tokens) :
                   /\ Cleans(tokens, cleaned)
                   /\ LET rows == Without(tokens, cleaned)
                      IN tokens' = IF Cardinality(InForce(rows)) >= MaxTokens THEN rows
                                   ELSE Append(rows, clock + TokenLife)
  /\ UNCHANGED <<setUp, verifying, clock>>

(* An error of the database undoes the transaction, not the limit. *)
IssueFails ==
  /\ "issue" \in Operations
  /\ LET g == Consume(windows, Global("issuance"))
     IN /\ g.allowed
        /\ windows' = g.windows /\ Admit({Global("issuance")})
  /\ UNCHANGED <<tokens, setUp, verifying, clock>>

-----------------------------------------------------------------------------
SetUp ==
  /\ ~setUp /\ setUp' = TRUE
  /\ UNCHANGED <<windows, tokens, verifying, clock, admitted, reopened>>

(* The map is in memory, the tokens are not. *)
Restart ==
  /\ windows' = <<>>
  /\ verifying' = [n \in Names |-> 0]
  /\ admitted' = [l \in Limited |-> {}] /\ reopened' = FALSE
  /\ UNCHANGED <<tokens, setUp, clock>>

(* How long the windows of a limit last: for Everybody as long as those    *)
(* that the limit of everybody opens.                                      *)
Life(limit) ==
  IF limit.kind \in DOMAIN Behind /\ limit.name = Everybody THEN Window[Behind[limit.kind]]
  ELSE Window[limit.kind]

(* The history keeps what is younger than a window of its limit and than   *)
(* those of the names behind it.                                           *)
Remembered(limit) ==
  LET lives == {Life(limit)} \union
                 {Window[name] : name \in {n \in DOMAIN Behind : Behind[n] = limit.kind}}
  IN CHOOSE life \in lives : \A other \in lives : other <= life

Tick ==
  /\ clock < MaxTime
  /\ clock' = clock + 1
  /\ admitted' = [l \in Limited |-> {a \in admitted[l] : a.at > clock + 1 - Remembered(l)}]
  /\ UNCHANGED <<windows, tokens, setUp, verifying, reopened>>

TokensNext ==
  \/ \E name \in Names : Login(name) \/ LoginSucceeds(name) \/ LoginFails(name) \/ Register(name)
  \/ RegisterInvalid \/ View \/ Issue \/ IssueFails \/ SetUp \/ Restart \/ Tick

TokensSpec == TokensInit /\ [][TokensNext]_tokensVars

-----------------------------------------------------------------------------
(* Properties. *)

(* The map may have to evict: a window more than those in force fills it.  *)
MapIsFull ==
  Cardinality({i \in DOMAIN windows : windows[i].resetAt > clock}) + 1 >= MaxEntries

(* A limit in force is never forgotten to make room: the limits of all     *)
(* callers together keep the map below its size.  Only a restart and a     *)
(* login that succeeds end one early.  But for the user called Everybody   *)
(* that is the limit of everybody, and from then on the callers are no     *)
(* longer held back: a map that is full evicts windows in force.           *)
NoWindowForgotten ==
  [][\A i \in DOMAIN windows :
       windows[i].resetAt > clock' =>
         \/ \E j \in DOMAIN windows' :
              /\ windows'[j].key = windows[i].key
              /\ windows'[j].resetAt = windows[i].resetAt
              /\ windows'[j].count >= windows[i].count
         \/ windows' = <<>>                                     \* a restart
         \/ \E name \in Names :                                \* a login that succeeds
              windows[i].key = Key(Of("login", name)) /\ verifying'[name] < verifying[name]
         \/ reopened /\ MapIsFull]_tokensVars

(* Until a user called Everybody has logged in, no limit ever admits more  *)
(* than twice its maximum within the time of one window, wherever it       *)
(* starts, while the process runs and whatever else the map holds: a login *)
(* that succeeded starts its name afresh, and attempts of Everybody count  *)
(* twice in one window, against either maximum.  The table never holds     *)
(* more tokens than may be in force, the expired ones included, although   *)
(* only an issuance cleans it, and only so many.                           *)
LimitsHold ==
  /\ ~reopened =>
       \A l \in Limited :
         Cardinality({a \in admitted[l] : a.at > clock - Life(l)}) <= 2 * Maximum[l.kind]
  /\ Len(tokens) <= MaxTokens

=============================================================================
