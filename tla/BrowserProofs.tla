---------------------------- MODULE BrowserProofs ----------------------------
(***************************************************************************)
(* Proofs about what runs in a browser.  First the credential pages, for   *)
(* any number of secrets, changes and listings; then the reader of the     *)
(* demo chat at the end of a stream, for every stream, every division into *)
(* chunks and every limit of an event.                                     *)
(***************************************************************************)
EXTENDS CredentialPages, Replies, DataProofs

Data == [issued : Nat, keys : SUBSET Nat, password : Nat, disabled : BOOLEAN, version : Nat]

AllOperations == {"create", "revoke", "issue", "disable", "start"}

Runs ==
  [step : {"calling", "performed", "declined", "refreshing"}, operation : AllOperations,
   argument : Nat, secret : Nat]

Types ==
  /\ page \in Pages
  /\ submission \in [pendingRuns : Nat, isSubmitting : BOOLEAN,
                     busyLabel : AllOperations \union {"none"},
                     error : {"none", "failed", "not_refreshed"}]
  /\ run \in Runs \union {NoRun}
  /\ secret \in Nat /\ given \subseteq Nat /\ owed \in Nat
  /\ list \in Data /\ server \in Data

(* What a run knows: it belongs to the page, it makes a key only while     *)
(* none is on display, a secret it brings is newer than every one before,  *)
(* and the page shows no error while it lasts.                             *)
RunIsSound ==
  /\ run # NoRun => run.operation \in Operations[page] /\ submission.error = "none"
  /\ run.operation \in {"create", "start"} /\ run.step \in {"calling", "performed", "declined"}
       => secret = 0
  /\ run.step \in {"performed", "refreshing"} => owed > 0
  /\ run.step = "performed" /\ run.operation \in Issues
       => /\ 0 < run.secret /\ run.secret <= server.issued
          /\ \A s \in given : s < run.secret

SecretsAreOld ==
  /\ \A s \in given : s <= server.issued
  /\ owed <= server.version

IInv == Types /\ RunIsSound /\ SecretsAreOld /\ SecretsAreShown /\ PageTellsWhatHappened

-----------------------------------------------------------------------------

LEMMA InitIInv == Init => IInv
BY DEF Init, IInv, Types, RunIsSound, SecretsAreOld, SecretsAreShown, PageTellsWhatHappened,
       Pages, FreshSubmission, NoRun, NoDiscovery, NoModels, Data, Issues, Runs, AllOperations, Operations

(* What an operation makes of the data. *)
LEMMA PerformedProperties ==
  ASSUME server \in Data, NEW operation \in AllOperations, NEW argument \in Nat
  PROVE  /\ Performed(operation, argument) \in Data
         /\ Performed(operation, argument).version = server.version + 1
         /\ Performed(operation, argument).issued =
              IF operation \in Issues THEN server.issued + 1 ELSE server.issued
<1> DEFINE after == Performed(operation, argument)
<1>1. /\ server.issued + 1 \in Nat /\ server.version + 1 \in Nat
      /\ server.keys \ {argument} \in SUBSET Nat
  BY DEF Data
<1>2. /\ Issue(server) \in Data
      /\ Issue(server).version = server.version + 1
      /\ Issue(server).issued = server.issued + 1
  <2>1. Issue(server) \in Data
    BY <1>1, Zenon DEF Data, Issue
  <2> QED
    BY <2>1 DEF Data, Issue
<1>3. CASE operation = "create"
  <2>1. after = [Issue(server) EXCEPT !.keys = @ \union {server.issued + 1}]
    BY <1>3, Zenon DEF Performed
  <2>2. Issue(server).keys \union {server.issued + 1} \in SUBSET Nat
    BY <1>1, <1>2 DEF Data
  <2>3. after \in Data
    BY <1>2, <2>1, <2>2, Zenon DEF Data
  <2> HIDE DEF after
  <2>4. after.version = server.version + 1 /\ after.issued = server.issued + 1
    BY <1>2, <2>1 DEF Data
  <2> QED
    BY <1>3, <2>3, <2>4, Zenon DEF Issues, after
<1>4. CASE operation = "revoke"
  <2>1. after = [server EXCEPT !.keys = @ \ {argument}, !.version = @ + 1]
    BY <1>4, Zenon DEF Performed
  <2>2. after \in Data
    BY <1>1, <2>1, Zenon DEF Data
  <2> HIDE DEF after
  <2>3. after.version = server.version + 1 /\ after.issued = server.issued
    BY <2>1 DEF Data
  <2>4. operation \notin Issues
    BY <1>4 DEF Issues
  <2> QED
    BY <2>2, <2>3, <2>4, Zenon DEF after
<1>5. CASE operation = "issue"
  <2>1. after = [Issue(server) EXCEPT !.password = server.issued + 1]
    BY <1>5, Zenon DEF Performed
  <2>2. after \in Data
    BY <1>1, <1>2, <2>1, Zenon DEF Data
  <2> HIDE DEF after
  <2>3. after.version = server.version + 1 /\ after.issued = server.issued + 1
    BY <1>2, <2>1 DEF Data
  <2> QED
    BY <1>5, <2>2, <2>3, Zenon DEF Issues, after
<1>6. CASE operation = "disable"
  <2>1. after = [server EXCEPT !.disabled = (argument = 1), !.version = @ + 1]
    BY <1>6, Zenon DEF Performed
  <2>2. after \in Data
    BY <1>1, <2>1, Zenon DEF Data
  <2> HIDE DEF after
  <2>3. after.version = server.version + 1 /\ after.issued = server.issued
    BY <2>1 DEF Data
  <2>4. operation \notin Issues
    BY <1>6 DEF Issues
  <2> QED
    BY <2>2, <2>3, <2>4, Zenon DEF after
<1>7. CASE operation = "start"
  <2>1. Performed(operation, argument) = Issue(server)
    BY <1>7, Zenon DEF Performed
  <2> QED
    BY <1>2, <1>7, <2>1, Zenon DEF Issues
<1> QED
  BY <1>3, <1>4, <1>5, <1>6, <1>7, Zenon DEF AllOperations

(* A run that ends leaves the form free, and its error, if it has one.     *)
LEMMA EndProperties ==
  ASSUME IInv, run # NoRun, NEW error \in {"none", "failed", "not_refreshed"}, EndsWith(error)
  PROVE  /\ run' = NoRun
         /\ submission' = [pendingRuns |-> 0, isSubmitting |-> FALSE, busyLabel |-> "none",
                           error |-> error]
<1>1. /\ submission.pendingRuns = 1 /\ submission.isSubmitting = TRUE /\ submission.error = "none"
  BY DEF IInv, Types, RunIsSound, PageTellsWhatHappened
<1>2. submission.pendingRuns - 1 = 0
  BY <1>1
<1>3. run' = NoRun /\ Settled(error)
  BY DEF EndsWith
<1>4. submission' = [pendingRuns |-> 0, isSubmitting |-> FALSE, busyLabel |-> "none",
                     error |-> IF error = "none" THEN "none" ELSE error]
  BY <1>1, <1>2, <1>3, Zenon DEF Settled
<1> QED
  BY <1>3, <1>4, Zenon

LEMMA ClickIInv ==
  ASSUME IInv, NEW operation \in AllOperations, NEW argument \in 0..MaxSecrets,
         Click(operation, argument)
  PROVE  IInv'
<1> USE PagesAssumption
<1>1. /\ submission' = [pendingRuns |-> 1, isSubmitting |-> TRUE, busyLabel |-> operation,
                        error |-> "none"]
      /\ run' = [step |-> "calling", operation |-> operation, argument |-> argument, secret |-> 0]
      /\ UNCHANGED <<page, secret, list, server, given, owed>>
      /\ operation \in Operations[page]
      /\ operation \in {"create", "start"} => secret = 0
  <2>1. run = NoRun /\ submission.pendingRuns + 1 = 1
    <3>1. submission.isSubmitting = FALSE
      BY Zenon DEF Click, Enabled, IInv, Types
    <3> QED
      BY <3>1 DEF IInv, PageTellsWhatHappened
  <2>2. operation \in {"create", "start"} => secret = 0
    <3>1. operation = "create" => secret = 0
      BY Zenon DEF Click, Enabled, CreateEnabled
    <3>2. operation = "start" => secret = 0
      BY Zenon DEF Click, Enabled
    <3> QED
      BY <3>1, <3>2
  <2>3. operation \in Operations[page] /\ Started(operation)
    BY Zenon DEF Click, Enabled
  <2>4. submission' = [pendingRuns |-> 1, isSubmitting |-> TRUE, busyLabel |-> operation,
                       error |-> "none"]
    BY <2>1, <2>3, Zenon DEF Started
  <2>5. /\ run' = [step |-> "calling", operation |-> operation, argument |-> argument, secret |-> 0]
        /\ UNCHANGED <<page, secret, list, server, given, owed>>
    BY Zenon DEF Click
  <2> QED
    BY <2>2, <2>3, <2>4, <2>5
<1>2. Types'
  BY <1>1 DEF IInv, Types, Runs
<1>3. RunIsSound'
  BY <1>1 DEF RunIsSound
<1> QED
  BY <1>1, <1>2, <1>3 DEF IInv, SecretsAreOld, SecretsAreShown, PageTellsWhatHappened, NoRun

LEMMA CallPerformedIInv == IInv /\ CallPerformed => IInv'
<1> SUFFICES ASSUME IInv, CallPerformed PROVE IInv'
  OBVIOUS
<1>1. /\ run.step = "calling" /\ run \in Runs
      /\ server' = Performed(run.operation, run.argument)
      /\ run' = [run EXCEPT !.step = "performed",
                            !.secret = IF run.operation \in Issues THEN server.issued + 1 ELSE 0]
      /\ owed' = server'.version
      /\ UNCHANGED <<page, submission, secret, list, given>>
  BY DEF IInv, Types, NoRun, CallPerformed
<1>2. /\ server' \in Data
      /\ server'.version = server.version + 1
      /\ server'.issued = IF run.operation \in Issues THEN server.issued + 1 ELSE server.issued
  BY <1>1, PerformedProperties DEF IInv, Types, Runs
<1>3. run' \in Runs /\ run # NoRun /\ run' # NoRun
  <2>1. server.issued + 1 \in Nat
    BY DEF IInv, Types, Data
  <2>2. run' \in Runs
    BY <1>1, <2>1, Zenon DEF Runs
  <2> QED
    BY <1>1, <2>2 DEF Runs, NoRun
<1>4. Types'
  BY <1>1, <1>2, <1>3 DEF IInv, Types, Data
<1>5. RunIsSound'
  BY <1>1, <1>2, <1>3 DEF IInv, Types, Data, Runs, RunIsSound, SecretsAreOld
<1>6. SecretsAreOld'
  BY <1>1, <1>2 DEF IInv, Types, Data, SecretsAreOld
<1> QED
  BY <1>1, <1>3, <1>4, <1>5, <1>6 DEF IInv, SecretsAreShown, PageTellsWhatHappened, RunIsSound

LEMMA CallDeclinedIInv == IInv /\ CallDeclined => IInv'
<1> SUFFICES ASSUME IInv, CallDeclined PROVE IInv'
  OBVIOUS
<1>1. /\ run.step = "calling" /\ run \in Runs
      /\ run' = [run EXCEPT !.step = "declined"]
      /\ UNCHANGED <<page, submission, secret, list, server, given, owed>>
  BY DEF IInv, Types, NoRun, CallDeclined
<1>2. run' \in Runs /\ run # NoRun /\ run' # NoRun
  BY <1>1 DEF Runs, NoRun
<1> QED
  BY <1>1, <1>2 DEF IInv, Types, Runs, RunIsSound, SecretsAreOld, SecretsAreShown, PageTellsWhatHappened

LEMMA ElsewhereIInv ==
  ASSUME IInv, NEW operation \in AllOperations, NEW argument \in 0..MaxSecrets,
         Elsewhere(operation, argument)
  PROVE  IInv'
<1> USE PagesAssumption
<1>1. /\ server' = Performed(operation, argument)
      /\ UNCHANGED <<page, submission, run, secret, list, given, owed>>
  BY DEF Elsewhere
<1>2. /\ server' \in Data
      /\ server'.version = server.version + 1
      /\ server'.issued \in {server.issued, server.issued + 1}
  BY <1>1, PerformedProperties DEF IInv, Types
<1>3. Types'
  BY <1>1, <1>2 DEF IInv, Types
<1>4. RunIsSound'
  BY <1>1, <1>2 DEF IInv, Types, Data, Runs, NoRun, RunIsSound
<1>5. SecretsAreOld'
  BY <1>1, <1>2 DEF IInv, Types, Data, SecretsAreOld
<1> QED
  BY <1>1, <1>3, <1>4, <1>5 DEF IInv, SecretsAreShown, PageTellsWhatHappened

(* A run that ends with an error and changes nothing else. *)
LEMMA FailureIInv ==
  ASSUME IInv, run # NoRun, NEW error \in {"failed", "not_refreshed"}, EndsWith(error),
         error = "not_refreshed" => page = "keys" /\ owed > 0,
         UNCHANGED <<page, secret, list, server, given, owed>>
  PROVE  IInv'
<1>1. /\ run' = NoRun
      /\ submission' = [pendingRuns |-> 0, isSubmitting |-> FALSE, busyLabel |-> "none",
                        error |-> error]
  BY EndProperties
<1>2. Types'
  BY <1>1 DEF IInv, Types
<1>3. RunIsSound'
  BY <1>1 DEF RunIsSound, NoRun
<1> QED
  BY <1>1, <1>2, <1>3 DEF IInv, SecretsAreOld, SecretsAreShown, PageTellsWhatHappened

LEMMA CallRejectsIInv == IInv /\ CallRejects => IInv'
BY FailureIInv DEF CallRejects, NoRun

LEMMA ResultNotOkIInv == IInv /\ ResultNotOk => IInv'
BY FailureIInv DEF ResultNotOk, NoRun

LEMMA RefreshFailsIInv == IInv /\ RefreshFails => IInv'
<1> SUFFICES ASSUME IInv, RefreshFails PROVE IInv'
  OBVIOUS
<1>1. /\ run.step = "refreshing" /\ run # NoRun /\ owed > 0
      /\ EndsWith(RefreshError(run.operation))
      /\ UNCHANGED <<page, secret, list, server, given, owed>>
  BY DEF IInv, RunIsSound, RefreshFails, NoRun
<1>2. RefreshError(run.operation) = "not_refreshed" => page = "keys"
  BY <1>1 DEF IInv, Types, RunIsSound, RefreshError, Operations, Pages
<1>3. RefreshError(run.operation) \in {"failed", "not_refreshed"}
  BY DEF RefreshError
<1> QED
  BY <1>1, <1>2, <1>3, FailureIInv

LEMMA RefreshedIInv == IInv /\ Refreshed => IInv'
<1> SUFFICES ASSUME IInv, Refreshed PROVE IInv'
  OBVIOUS
<1>1. /\ run # NoRun /\ EndsWith("none") /\ list' = server
      /\ UNCHANGED <<page, secret, server, given, owed>>
  BY DEF Refreshed, NoRun
<1>2. /\ run' = NoRun
      /\ submission' = [pendingRuns |-> 0, isSubmitting |-> FALSE, busyLabel |-> "none",
                        error |-> "none"]
  BY <1>1, EndProperties
<1>3. Types'
  BY <1>1, <1>2 DEF IInv, Types
<1>4. RunIsSound'
  BY <1>2 DEF RunIsSound, NoRun
<1> QED
  BY <1>1, <1>2, <1>3, <1>4 DEF IInv, Types, Data, SecretsAreOld, SecretsAreShown, PageTellsWhatHappened

(* A secret reaches its page. *)
LEMMA ResultOkIInv == IInv /\ ResultOk => IInv'
<1> SUFFICES ASSUME IInv, ResultOk PROVE IInv'
  OBVIOUS
<1>1. /\ run.step = "performed" /\ run \in Runs /\ run # NoRun
      /\ run.operation \in Operations[page]
      /\ secret' = IF run.operation \in Issues THEN run.secret ELSE secret
      /\ given' = given \union IF run.operation \in Issues THEN {run.secret} ELSE {}
      /\ UNCHANGED <<page, list, server, owed>>
  BY DEF IInv, Types, NoRun, RunIsSound, ResultOk
<1>2. SecretsAreOld'
  BY <1>1 DEF IInv, RunIsSound, SecretsAreOld
<1>3. SecretsAreShown'
  <2>1. CASE run.operation \in Issues
    BY <1>1, <2>1 DEF IInv, Types, Runs, RunIsSound, SecretsAreShown, Issues, Operations, Pages
  <2>2. CASE run.operation \notin Issues
    BY <1>1, <2>2 DEF IInv, SecretsAreShown
  <2> QED
    BY <2>1, <2>2
<1>4. CASE run.operation = "start"
  <2>1. EndsWith("none") /\ page = "demo"
    BY <1>1, <1>4 DEF IInv, Types, ResultOk, Operations, Pages
  <2>2. /\ run' = NoRun
        /\ submission' = [pendingRuns |-> 0, isSubmitting |-> FALSE, busyLabel |-> "none",
                          error |-> "none"]
    BY <1>1, <2>1, EndProperties
  <2>3. Types'
    BY <1>1, <2>2 DEF IInv, Types, Runs
  <2>4. RunIsSound'
    BY <2>2 DEF RunIsSound, NoRun
  <2> QED
    BY <1>1, <1>2, <1>3, <2>1, <2>2, <2>3, <2>4 DEF IInv, PageTellsWhatHappened
<1>5. CASE run.operation # "start"
  <2>1. run' = [run EXCEPT !.step = "refreshing"] /\ UNCHANGED submission
    BY <1>5 DEF ResultOk
  <2>2. run' \in Runs /\ run' # NoRun
    BY <1>1, <2>1 DEF Runs, NoRun
  <2>3. Types'
    BY <1>1, <2>1, <2>2 DEF IInv, Types, Runs
  <2>4. RunIsSound'
    BY <1>1, <2>1, <2>2 DEF IInv, RunIsSound, Runs
  <2> QED
    BY <1>1, <1>2, <1>3, <2>1, <2>2, <2>3, <2>4 DEF IInv, PageTellsWhatHappened
<1> QED
  BY <1>4, <1>5

LEMMA DismissIInv == IInv /\ Dismiss => IInv'
BY DEF Dismiss, IInv, Types, RunIsSound, SecretsAreOld, SecretsAreShown, PageTellsWhatHappened

LEMMA VisitIInv == ASSUME IInv, NEW p \in Pages, Visit(p) PROVE IInv'
<1>1. /\ page' = p /\ submission' = FreshSubmission /\ run' = NoRun
      /\ secret' = 0 /\ given' = {} /\ owed' = 0
      /\ list' = server /\ UNCHANGED server
  BY DEF Visit
<1> QED
  BY <1>1 DEF IInv, Types, Data, RunIsSound, SecretsAreOld, SecretsAreShown, PageTellsWhatHappened,
              FreshSubmission, NoRun

LEMMA ReloadedIInv == ASSUME IInv, Reloaded PROVE IInv'
<1>1. /\ page' = page /\ submission' = submission /\ run' = run /\ secret' = secret
      /\ given' = given /\ owed' = owed /\ server' = server /\ list' = server
  BY DEF Reloaded
<1>2. Types' /\ RunIsSound' /\ SecretsAreOld' /\ SecretsAreShown'
  BY <1>1 DEF IInv, Types, RunIsSound, SecretsAreOld, SecretsAreShown
<1>3. server.version >= owed
  BY DEF IInv, Types, Data, SecretsAreOld
<1>4. PageTellsWhatHappened'
  BY <1>1, <1>3 DEF IInv, PageTellsWhatHappened
<1> QED
  BY <1>2, <1>4 DEF IInv

(* What only the panel of a key does leaves everything else as it is. *)
LEMMA PanelIInv ==
  ASSUME IInv, UNCHANGED <<page, submission, run, secret, list, server, given, owed>>
  PROVE  IInv'
BY DEF IInv, Types, RunIsSound, SecretsAreOld, SecretsAreShown, PageTellsWhatHappened

LEMMA NextIInv == IInv /\ [Next]_vars => IInv'
<1> SUFFICES ASSUME IInv, [Next]_vars PROVE IInv'
  OBVIOUS
<1>0. UNION {Operations[p] : p \in Pages} \subseteq AllOperations
  BY DEF Operations, Pages, AllOperations
<1>1. ASSUME NEW operation \in UNION {Operations[p] : p \in Pages},
             NEW argument \in 0..MaxSecrets,
             Click(operation, argument) \/ Elsewhere(operation, argument)
      PROVE  IInv'
  BY <1>0, <1>1, ClickIInv, ElsewhereIInv
<1>2. CASE CallPerformed \/ CallDeclined \/ CallRejects
  BY <1>2, CallPerformedIInv, CallDeclinedIInv, CallRejectsIInv
<1>3. CASE ResultNotOk \/ ResultOk \/ Refreshed \/ RefreshFails
  BY <1>3, ResultNotOkIInv, ResultOkIInv, RefreshedIInv, RefreshFailsIInv
<1>4. ASSUME NEW f \in fetches, NEW listing \in Listings, DiscoveryAnswers(f, listing)
      PROVE  IInv'
  BY <1>4, PanelIInv DEF DiscoveryAnswers
<1>5. CASE Retry
  BY <1>5, PanelIInv DEF Retry
<1>6. CASE Dismiss \/ Reloaded
  BY <1>6, DismissIInv, ReloadedIInv
<1>7. ASSUME NEW p \in Pages, Visit(p) PROVE IInv'
  BY <1>7, VisitIInv
<1>8. CASE UNCHANGED vars
  BY <1>8, PanelIInv DEF vars
<1> QED
  BY <1>1, <1>2, <1>3, <1>4, <1>5, <1>6, <1>7, <1>8 DEF Next

THEOREM Inductive == Spec => []IInv
BY InitIInv, NextIInv, PTL DEF Spec

(* useSubmission, the pages and the server functions: a secret that        *)
(* reached its page stays on display until it is dismissed.                *)
THEOREM SecretsStay == Spec => []SecretsAreShown
<1>1. IInv => SecretsAreShown
  BY DEF IInv
<1> QED
  BY <1>1, Inductive, PTL

(* A page that is idle and shows no error lists all that its own buttons   *)
(* changed, and a failed refresh never reads as a failed creation.         *)
THEOREM PageIsHonest == Spec => []PageTellsWhatHappened
<1>1. IInv => PageTellsWhatHappened
  BY DEF IInv
<1> QED
  BY <1>1, Inductive, PTL

-----------------------------------------------------------------------------
(* The panel of a key: it discovers for no page without a key.             *)

FetchRecords == [of : Nat, aborted : BOOLEAN]

PanelIsSound ==
  /\ fetches \subseteq FetchRecords
  /\ discovery.of = 0 <=> discovery.status = "none"

PInv == PanelIsSound /\ DiscoveryFollowsKey

(* No discovery that was given up is heard again. *)
LEMMA AbortedProperties ==
  ASSUME NEW fs \in SUBSET FetchRecords
  PROVE  Aborted(fs) \subseteq FetchRecords /\ \A f \in Aborted(fs) : f.aborted
BY DEF Aborted, FetchRecords

LEMMA InitPInv == Init => PInv
BY DEF Init, PInv, PanelIsSound, DiscoveryFollowsKey, FetchRecords, Pages, NoDiscovery, NoModels

(* A discovery that begins is the only one that can answer. *)
LEMMA DiscoverPInv ==
  ASSUME PInv, NEW key \in Nat, key # 0, Discover(key),
         page \in {"keys", "demo"}, page' = page, secret' = key,
         models = NoModels, models' = models
  PROVE  PInv'
<1> DEFINE new == [of |-> key, aborted |-> FALSE]
<1>1. /\ discovery' = [status |-> "loading", modelIds |-> <<>>, of |-> key]
      /\ fetches' = Aborted(fetches) \union {new}
  BY Zenon DEF Discover
<1>2. new \in FetchRecords /\ ~new.aborted
  BY DEF FetchRecords
<1>3. Aborted(fetches) \subseteq FetchRecords /\ \A f \in Aborted(fetches) : f.aborted
  BY AbortedProperties DEF PInv, PanelIsSound
<1>4. {f \in fetches' : ~f.aborted} = {new}
  <2> HIDE DEF new
  <2> QED
    BY <1>1, <1>2, <1>3
<1>5. PanelIsSound'
  <2>1. fetches' \subseteq FetchRecords
    BY <1>1, <1>2, <1>3, Zenon
  <2> QED
    BY <1>1, <2>1 DEF PanelIsSound
<1>6. discovery'.of = (IF page' = "members" THEN 0 ELSE secret')
  BY <1>1
<1>7. discovery'.status = "loading" /\ discovery'.modelIds = <<>>
  BY <1>1
<1> QED
  BY <1>4, <1>5, <1>6, <1>7 DEF PInv, DiscoveryFollowsKey

(* A page without a key has nothing to discover. *)
LEMMA NoDiscoveryPInv ==
  ASSUME PInv, discovery' = NoDiscovery, models' = NoModels, secret' = 0,
         fetches' = Aborted(fetches)
  PROVE  PInv'
<1>1. fetches' \subseteq FetchRecords /\ \A f \in fetches' : f.aborted
  BY AbortedProperties DEF PInv, PanelIsSound
<1> QED
  BY <1>1 DEF PInv, PanelIsSound, DiscoveryFollowsKey, NoDiscovery

(* What leaves the key and its panel alone. *)
LEMMA SamePanelPInv ==
  ASSUME PInv, UNCHANGED <<page, secret, discovery, fetches, models>>
  PROVE  PInv'
BY DEF PInv, PanelIsSound, DiscoveryFollowsKey

(* Without a key nothing is discovered. *)
LEMMA PanelWithoutKey ==
  ASSUME PInv, secret = 0 \/ page = "members"
  PROVE  discovery.status = "none" /\ models = NoModels
BY DEF PInv, PanelIsSound, DiscoveryFollowsKey

LEMMA ClickPInv ==
  ASSUME PInv, NEW operation, NEW argument, Click(operation, argument)
  PROVE  PInv'
<1>1. UNCHANGED <<page, secret, discovery, fetches>>
  BY Zenon DEF Click, onboarding
<1>2. CASE operation = "start"
  <2>1. secret = 0 /\ models' = NoModels
    BY <1>2, Zenon DEF Click, Enabled
  <2>2. models = NoModels
    BY <2>1, PanelWithoutKey
  <2> QED
    BY <1>1, <2>1, <2>2, SamePanelPInv
<1>3. CASE operation # "start"
  BY <1>1, <1>3, SamePanelPInv DEF Click
<1> QED
  BY <1>2, <1>3

LEMMA ResultOkPInv == IInv /\ PInv /\ ResultOk => PInv'
<1> SUFFICES ASSUME IInv, PInv, ResultOk PROVE PInv'
  OBVIOUS
<1>1. /\ run.step = "performed" /\ run \in Runs /\ run.operation \in Operations[page]
      /\ secret' = IF run.operation \in Issues THEN run.secret ELSE secret
      /\ UNCHANGED <<page, models>>
  BY DEF IInv, Types, NoRun, RunIsSound, ResultOk
<1>2. CASE run.operation \in {"create", "start"}
  <2>1. /\ page \in {"keys", "demo"} /\ secret = 0
        /\ run.secret \in Nat /\ run.secret # 0 /\ secret' = run.secret
    BY <1>1, <1>2 DEF IInv, Types, RunIsSound, Runs, Issues, Operations, Pages
  <2>2. models = NoModels
    BY <2>1, PanelWithoutKey
  <2>3. Discover(run.secret)
    BY <1>2 DEF ResultOk
  <2> QED
    BY <1>1, <2>1, <2>2, <2>3, DiscoverPInv
<1>3. CASE run.operation = "issue"
  <2>1. page = "members" /\ UNCHANGED <<discovery, fetches>>
    BY <1>1, <1>3 DEF IInv, Types, Operations, Pages, ResultOk, onboarding
  <2> QED
    BY <1>1, <2>1 DEF PInv, PanelIsSound, DiscoveryFollowsKey
<1>4. CASE run.operation \in {"revoke", "disable"}
  BY <1>1, <1>4, SamePanelPInv DEF ResultOk, Issues, onboarding
<1> QED
  BY <1>1, <1>2, <1>3, <1>4 DEF Runs, AllOperations

LEMMA RetryPInv == IInv /\ PInv /\ Retry => PInv'
<1> SUFFICES ASSUME IInv, PInv, Retry PROVE PInv'
  OBVIOUS
<1>1. /\ discovery.status = "failed" /\ Discover(secret)
      /\ UNCHANGED <<page, secret, models>>
  BY DEF Retry
<1>2. page \in {"keys", "demo"} /\ secret \in Nat /\ secret # 0 /\ models = NoModels
  BY <1>1 DEF IInv, Types, Pages, PInv, PanelIsSound, DiscoveryFollowsKey
<1> QED
  BY <1>1, <1>2, DiscoverPInv

LEMMA DiscoveryAnswersPInv ==
  ASSUME PInv, NEW f \in fetches, NEW listing, DiscoveryAnswers(f, listing)
  PROVE  PInv'
<1> DEFINE ids == ModelIds(listing)
<1>1. fetches' = fetches \ {f} /\ UNCHANGED <<page, secret>>
  BY Zenon DEF DiscoveryAnswers
<1>2. CASE f.aborted
  <2>1. UNCHANGED <<discovery, models>>
    BY <1>2, Zenon DEF DiscoveryAnswers, Heard
  <2>2. {g \in fetches' : ~g.aborted} = {g \in fetches : ~g.aborted}
    BY <1>1, <1>2
  <2> QED
    BY <1>1, <2>1, <2>2 DEF PInv, PanelIsSound, DiscoveryFollowsKey
<1>3. CASE ~f.aborted
  <2>1. /\ discovery' = [status |-> IF ids = <<>> THEN "failed" ELSE "ready",
                          modelIds |-> ids, of |-> f.of]
        /\ models' = IF page = "demo" /\ ids # <<>> THEN [modelIds |-> ids, of |-> f.of]
                     ELSE models
    BY <1>3, Zenon DEF DiscoveryAnswers, Heard
  <2> HIDE DEF ids
  <2>2. f \in {g \in fetches : ~g.aborted}
    BY <1>3
  <2>3. /\ discovery.status = "loading" /\ f = [of |-> secret, aborted |-> FALSE]
        /\ {g \in fetches : ~g.aborted} = {f}
    <3> DEFINE heard == {g \in fetches : ~g.aborted}
    <3>1. heard = IF discovery.status = "loading" THEN {[of |-> secret, aborted |-> FALSE]}
                  ELSE {}
      BY Zenon DEF PInv, DiscoveryFollowsKey
    <3>2. f \in heard
      BY <2>2
    <3> HIDE DEF heard
    <3>3. discovery.status = "loading" /\ f = [of |-> secret, aborted |-> FALSE] /\ heard = {f}
      BY <3>1, <3>2, Zenon
    <3> QED
      BY <3>3, Zenon DEF heard
  <2>4. page # "members" /\ secret # 0 /\ f.of = secret /\ models = NoModels
    BY <2>3 DEF PInv, PanelIsSound, DiscoveryFollowsKey
  <2>5. {g \in fetches' : ~g.aborted} = {}
    BY <1>1, <2>3
  <2>6. PanelIsSound'
    BY <1>1, <2>1, <2>4 DEF PInv, PanelIsSound
  <2>7. /\ discovery'.of = secret /\ discovery'.modelIds = ids
        /\ discovery'.status = IF ids = <<>> THEN "failed" ELSE "ready"
    BY <2>1, <2>4
  <2> QED
    BY <1>1, <2>1, <2>4, <2>5, <2>6, <2>7 DEF PInv, DiscoveryFollowsKey
<1> QED
  BY <1>2, <1>3

LEMMA NextPInv == IInv /\ PInv /\ [Next]_vars => PInv'
<1> SUFFICES ASSUME IInv, PInv, [Next]_vars PROVE PInv'
  OBVIOUS
<1>1. ASSUME NEW operation \in UNION {Operations[p] : p \in Pages},
             NEW argument \in 0..MaxSecrets,
             Click(operation, argument) \/ Elsewhere(operation, argument)
      PROVE  PInv'
  BY <1>1, ClickPInv, SamePanelPInv DEF Elsewhere, onboarding
<1>2. CASE CallPerformed \/ CallDeclined \/ CallRejects
  BY <1>2, SamePanelPInv DEF CallPerformed, CallDeclined, CallRejects, onboarding
<1>3. CASE ResultNotOk \/ Refreshed \/ RefreshFails \/ Reloaded
  BY <1>3, SamePanelPInv DEF ResultNotOk, Refreshed, RefreshFails, Reloaded, onboarding
<1>4. CASE ResultOk \/ Retry
  BY <1>4, ResultOkPInv, RetryPInv
<1>5. ASSUME NEW f \in fetches, NEW listing \in Listings, DiscoveryAnswers(f, listing)
      PROVE  PInv'
  BY <1>5, DiscoveryAnswersPInv
<1>6. CASE Dismiss
  BY <1>6, NoDiscoveryPInv DEF Dismiss
<1>7. ASSUME NEW p \in Pages, Visit(p) PROVE PInv'
  BY <1>7, NoDiscoveryPInv DEF Visit
<1>8. CASE UNCHANGED vars
  BY <1>8, SamePanelPInv DEF vars
<1> QED
  BY <1>1, <1>2, <1>3, <1>4, <1>5, <1>6, <1>7, <1>8 DEF Next

-----------------------------------------------------------------------------
(* ApiCredentialOnboarding and the page of the demo: what the panel shows  *)
(* and the models the chat opens with belong to the key on display; only   *)
(* its last discovery can still answer.                                    *)
THEOREM PanelFollowsKey == Spec => []DiscoveryFollowsKey
<1>1. PInv => DiscoveryFollowsKey
  BY DEF PInv
<1> QED
  BY <1>1, InitPInv, NextPInv, Inductive, PTL DEF Spec

-----------------------------------------------------------------------------
(* The models of a listing: each once, and not too many.                   *)

LEMMA ModelIdsProperties ==
  ASSUME NEW listing \in Seq(STRING), MaxModels \in Nat
  PROVE  IsInjective(ModelIds(listing)) /\ Len(ModelIds(listing)) <= MaxModels
<1> DEFINE usable == {i \in DOMAIN listing :
                        listing[i] # "bad" /\ \A j \in 1..(i - 1) : listing[j] # listing[i]}
           ids == At(listing, usable)
           c == Cardinality(usable)
           order == Ascending(usable)
           n == IF Len(ids) < MaxModels THEN Len(ids) ELSE MaxModels
<1>1. Len(listing) \in Nat /\ DOMAIN listing = 1..Len(listing)
  BY LenProperties
<1>2. usable \in SUBSET (1..Len(listing))
  BY <1>1
<1>3. \A p, q \in usable : p < q => listing[p] # listing[q]
  BY <1>1
<1>4. ModelIds(listing) = SubSeq(ids, 1, n)
  BY DEF ModelIds
<1> HIDE DEF usable
<1>5. /\ c \in Nat /\ ids \in Seq(STRING) /\ Len(ids) = c
      /\ \A i \in 1..c : order[i] \in usable /\ ids[i] = listing[order[i]]
      /\ \A i, j \in 1..c : i < j => order[i] < order[j]
  BY <1>2, AtProperties
<1> HIDE DEF ids, c, order
<1>6. n \in Nat /\ n <= c /\ n <= MaxModels
  BY <1>5
<1> HIDE DEF n
<1>7. \A i \in 1..n : ids[i] \in STRING
  <2>1. \A i \in 1..c : ids[i] \in STRING
    BY <1>5, ElementOfSeq
  <2> QED
    BY <1>5, <1>6, <2>1
<1>8. /\ SubSeq(ids, 1, n) \in Seq(STRING) /\ Len(SubSeq(ids, 1, n)) = n
      /\ \A i \in 1..n : SubSeq(ids, 1, n)[i] = ids[i]
  <2>1. /\ SubSeq(ids, 1, n) \in Seq(STRING)
        /\ Len(SubSeq(ids, 1, n)) = IF 1 <= n THEN n - 1 + 1 ELSE 0
        /\ \A i \in 1..n - 1 + 1 : SubSeq(ids, 1, n)[i] = ids[1 + i - 1]
    BY <1>6, <1>7, SubSeqProperties
  <2> QED
    BY <1>6, <2>1
<1>9. \A i, j \in 1..n : i < j => ids[i] # ids[j]
  <2> SUFFICES ASSUME NEW i \in 1..n, NEW j \in 1..n, i < j PROVE ids[i] # ids[j]
    OBVIOUS
  <2>1. i \in 1..c /\ j \in 1..c
    BY <1>5, <1>6
  <2>2. order[i] \in usable /\ order[j] \in usable /\ order[i] < order[j]
    BY <1>5, <2>1
  <2> QED
    BY <1>3, <1>5, <2>1, <2>2
<1>10. \A i, j \in 1..n : SubSeq(ids, 1, n)[i] = SubSeq(ids, 1, n)[j] => i = j
  <2> SUFFICES ASSUME NEW i \in 1..n, NEW j \in 1..n, ids[i] = ids[j] PROVE i = j
    BY <1>8
  <2> QED
    BY <1>6, <1>9
<1>11. DOMAIN SubSeq(ids, 1, n) = 1..n
  BY <1>8, LenProperties
<1> QED
  BY <1>4, <1>6, <1>8, <1>10, <1>11 DEF IsInjective

ModelsAreFew == IsInjective(discovery.modelIds) /\ Len(discovery.modelIds) <= MaxModels

LEMMA NoModelsAreFew == IsInjective(<<>>) /\ Len(<<>>) <= MaxModels
BY PagesAssumption DEF IsInjective

LEMMA NextModelsAreFew == ModelsAreFew /\ [Next]_vars => ModelsAreFew'
<1> SUFFICES ASSUME ModelsAreFew, [Next]_vars PROVE ModelsAreFew'
  OBVIOUS
<1>1. CASE discovery' = discovery
  BY <1>1 DEF ModelsAreFew
<1>2. CASE discovery'.modelIds = <<>>
  BY <1>2, NoModelsAreFew DEF ModelsAreFew
<1>3. ASSUME NEW f \in fetches, NEW listing \in Listings, DiscoveryAnswers(f, listing)
      PROVE  ModelsAreFew'
  <2>1. discovery' = discovery \/ discovery'.modelIds = ModelIds(listing)
    BY <1>3 DEF DiscoveryAnswers
  <2>2. IsInjective(ModelIds(listing)) /\ Len(ModelIds(listing)) <= MaxModels
    BY ModelIdsProperties, PagesAssumption, ListingsAssumption
  <2> QED
    BY <1>1, <2>1, <2>2 DEF ModelsAreFew
<1>4. CASE ResultOk
  BY <1>1, <1>2, <1>4 DEF ResultOk, Discover, onboarding
<1>5. CASE Retry
  BY <1>2, <1>5 DEF Retry, Discover
<1>6. CASE Dismiss \/ \E p \in Pages : Visit(p)
  BY <1>2, <1>6 DEF Dismiss, Visit, NoDiscovery
<1>7. ASSUME NEW operation, NEW argument, Click(operation, argument) \/ Elsewhere(operation, argument)
      PROVE  ModelsAreFew'
  BY <1>1, <1>7 DEF Click, Elsewhere, onboarding
<1>8. CASE CallPerformed \/ CallDeclined \/ CallRejects \/ ResultNotOk \/ Refreshed \/ RefreshFails
           \/ Reloaded
  BY <1>1, <1>8 DEF CallPerformed, CallDeclined, CallRejects, ResultNotOk, Refreshed, RefreshFails,
                    Reloaded, onboarding
<1>9. CASE UNCHANGED vars
  BY <1>1, <1>9 DEF vars
<1> QED
  BY <1>3, <1>4, <1>5, <1>6, <1>7, <1>8, <1>9 DEF Next

(* discoverOpenAiModelIds and ApiCredentialOnboarding: the models on       *)
(* display were discovered with the key on display, no model is listed     *)
(* twice, and there are no more than MAX_MODELS.                           *)
THEOREM ModelsStayWithKey == Spec => []ModelsBelongToKey
<1>1. Init => ModelsAreFew
  BY NoModelsAreFew DEF Init, NoDiscovery, ModelsAreFew
<1>2. Spec => []ModelsAreFew
  BY <1>1, NextModelsAreFew, PTL DEF Spec
<1>3. DiscoveryFollowsKey /\ ModelsAreFew => ModelsBelongToKey
  BY DEF ModelsAreFew, ModelsBelongToKey
<1> QED
  BY <1>2, <1>3, PanelFollowsKey, PTL

-----------------------------------------------------------------------------
(* Lines of an event.                                                      *)

Breaks(e, i) == {k \in i..Len(e) : e[k] = "n"}

LEMMA NextBreak ==
  ASSUME NEW A, NEW e \in Seq(A), NEW i \in 1..Len(e), Breaks(e, i) # {}
  PROVE  \E next \in Breaks(e, i) :
           /\ next = CHOOSE k \in Breaks(e, i) : \A m \in Breaks(e, i) : k <= m
           /\ \A m \in Breaks(e, i) : next <= m
<1>1. Breaks(e, i) \in SUBSET Nat
  BY DEF Breaks
<1>2. PICK k \in Breaks(e, i) : \A m \in Breaks(e, i) : k <= m
  BY <1>1, LeastOfAny
<1> QED
  BY <1>2

LEMMA LineAtIn ==
  ASSUME NEW A, NEW e \in Seq(A), NEW i \in 1..Len(e)
  PROVE  LineAt(e, i) \in Seq(A)
<1>0. Len(e) \in Nat /\ i \in Nat /\ i >= 1 /\ i <= Len(e)
  OBVIOUS
<1>1. CASE Breaks(e, i) = {}
  <2>1. LineAt(e, i) = SubSeq(e, i, Len(e))
    BY <1>1 DEF LineAt, Breaks
  <2> QED
    BY <1>0, <2>1, SubSeqIs
<1>2. CASE Breaks(e, i) # {}
  <2>1. PICK next \in Breaks(e, i) :
          next = CHOOSE k \in Breaks(e, i) : \A m \in Breaks(e, i) : k <= m
    BY <1>2, NextBreak
  <2>2. next \in Nat /\ i <= next /\ next <= Len(e)
    BY <1>0 DEF Breaks
  <2>3. LineAt(e, i) = IF next > i /\ e[next - 1] = "r" THEN SubSeq(e, i, next - 2)
                       ELSE SubSeq(e, i, next - 1)
    BY <1>2, <2>1 DEF LineAt, Breaks
  <2>4. next > i => SubSeq(e, i, next - 2) \in Seq(A)
    <3> SUFFICES ASSUME next > i PROVE SubSeq(e, i, next - 2) \in Seq(A)
      OBVIOUS
    <3>1. next - 2 \in Nat \/ next - 2 = -1
      BY <1>0, <2>2
    <3>2. next - 2 \in Nat /\ i <= (next - 2) + 1 /\ next - 2 <= Len(e)
      BY <1>0, <2>2
    <3> QED
      BY <1>0, <3>2, SubSeqIs
  <2>5. SubSeq(e, i, next - 1) \in Seq(A)
    <3>1. next - 1 \in Nat /\ i <= (next - 1) + 1 /\ next - 1 <= Len(e)
      BY <1>0, <2>2
    <3> QED
      BY <1>0, <3>1, SubSeqIs
  <2> QED
    BY <2>3, <2>4, <2>5
<1> QED
  BY <1>1, <1>2

(* A piece that ends its line at once is the line.                         *)
Alone(e, i) ==
  \/ i = Len(e)
  \/ i + 1 <= Len(e) /\ e[i + 1] = "n"
  \/ i + 2 <= Len(e) /\ e[i + 1] = "r" /\ e[i + 2] = "n"

LEMMA LineOfOne ==
  ASSUME NEW A, NEW e \in Seq(A), NEW i \in 1..Len(e), e[i] \notin {"r", "n"}, Alone(e, i)
  PROVE  LineAt(e, i) = <<e[i]>>
<1>0. Len(e) \in Nat /\ i \in Nat /\ i >= 1 /\ i <= Len(e)
  OBVIOUS
<1>1. SubSeq(e, i, i) = <<e[i]>>
  <2>1. SubSeq(e, i, i) \in Seq(A) /\ Len(SubSeq(e, i, i)) = 1 /\ SubSeq(e, i, i)[1] = e[i]
    <3> DEFINE hi == i
               s == SubSeq(e, i, hi)
    <3>1. /\ e \in Seq(A) /\ i \in Nat /\ hi \in Nat /\ i >= 1 /\ i <= hi + 1 /\ hi <= Len(e)
          /\ hi - i + 1 = 1 /\ 1 + i - 1 = i /\ 1 \in 1..1
      BY <1>0
    <3>2. s = SubSeq(e, i, hi)
      OBVIOUS
    <3> HIDE DEF hi, s
    <3>3. s \in Seq(A) /\ Len(s) = hi - i + 1 /\ \A k \in 1..(hi - i + 1) : s[k] = e[k + i - 1]
      BY <3>1, <3>2, SubSeqIs
    <3>4. s \in Seq(A) /\ Len(s) = 1 /\ s[1] = e[i]
      BY ONLY <3>1, <3>3
    <3> QED
      BY <3>4 DEF s, hi
  <2> DEFINE s == SubSeq(e, i, i)
  <2>2. s \in Seq(A) /\ Len(s) = 1 /\ s[1] = e[i]
    BY <2>1
  <2> HIDE DEF s
  <2>3. s = <<s[1]>>
    BY <2>2
  <2> QED
    BY <2>2, <2>3 DEF s
<1>2. CASE Breaks(e, i) = {}
  <2>1. i = Len(e)
    <3>1. ASSUME i + 1 <= Len(e), e[i + 1] = "n" PROVE FALSE
      <4>1. i + 1 \in Breaks(e, i)
        BY <1>0, <3>1 DEF Breaks
      <4> QED
        BY <1>2, <4>1
    <3>2. ASSUME i + 2 <= Len(e), e[i + 2] = "n" PROVE FALSE
      <4>1. i + 2 \in Breaks(e, i)
        BY <1>0, <3>2 DEF Breaks
      <4> QED
        BY <1>2, <4>1
    <3> QED
      BY <3>1, <3>2 DEF Alone
  <2>2. LineAt(e, i) = SubSeq(e, i, Len(e))
    BY <1>2 DEF LineAt, Breaks
  <2> QED
    BY <1>1, <2>1, <2>2
<1>3. CASE Breaks(e, i) # {}
  <2>1. PICK next \in Breaks(e, i) :
          /\ next = CHOOSE k \in Breaks(e, i) : \A m \in Breaks(e, i) : k <= m
          /\ \A m \in Breaks(e, i) : next <= m
    BY <1>3, NextBreak
  <2>2. next \in Nat /\ i < next /\ next <= Len(e) /\ e[next] = "n"
    <3>1. next \in i..Len(e) /\ e[next] = "n"
      BY DEF Breaks
    <3>2. next # i
      BY <3>1
    <3> QED
      BY <1>0, <3>1, <3>2
  <2>3. LineAt(e, i) = IF next > i /\ e[next - 1] = "r" THEN SubSeq(e, i, next - 2)
                       ELSE SubSeq(e, i, next - 1)
    BY <1>3, <2>1 DEF LineAt, Breaks
  <2>4. CASE i + 1 <= Len(e) /\ e[i + 1] = "n"
    <3>1. i + 1 \in Breaks(e, i)
      BY <1>0, <2>4 DEF Breaks
    <3>2. next <= i + 1
      BY <2>1, <3>1
    <3>3. next = i + 1 /\ next - 1 = i
      BY <1>0, <2>2, <3>2
    <3> QED
      BY <1>1, <2>3, <3>3
  <2>5. CASE i + 2 <= Len(e) /\ e[i + 1] = "r" /\ e[i + 2] = "n"
    <3>1. i + 2 \in Breaks(e, i)
      BY <1>0, <2>5 DEF Breaks
    <3>2. next <= i + 2
      BY <2>1, <3>1
    <3>3. next # i + 1
      BY <2>2, <2>5
    <3>4. next = i + 2 /\ next - 1 = i + 1 /\ next - 2 = i /\ next > i
      BY <1>0, <2>2, <3>2, <3>3
    <3> QED
      BY <1>1, <2>3, <2>5, <3>4
  <2>6. i # Len(e)
    BY <1>0, <2>2
  <2> QED
    BY <2>4, <2>5, <2>6 DEF Alone
<1> QED
  BY <1>2, <1>3

-----------------------------------------------------------------------------
(* The events of a well-formed stream.                                     *)

(* What a backend sends while its stream does not break off.               *)
Whole == {"r", "n", "d", "D"}

Lies(x, t, off) ==
  off + Len(x) <= Len(t) /\ \A i \in 1..Len(x) : x[i] = t[off + i]

(* An event behind the first off pieces, up to a blank line or the end.    *)
EventIn(e, t, off) ==
  /\ Lies(e, t, off) /\ Clean(e)
  /\ off = 0 \/ t[off] = "n"
  /\ off + Len(e) = Len(t) \/ ~(e # <<>> /\ e[Len(e)] = "r" /\ t[off + Len(e) + 1] = "n")

LEMMA LiesIn ==
  ASSUME NEW A, NEW B, NEW t \in Seq(A), NEW e \in Seq(B), NEW off \in Nat, Lies(e, t, off)
  PROVE  e \in Seq(A)
<1>1. Len(e) \in Nat /\ Len(t) \in Nat /\ off + Len(e) <= Len(t)
      /\ \A i \in 1..Len(e) : e[i] = t[off + i]
  BY DEF Lies
<1>2. \A i \in 1..Len(e) : off + i \in 1..Len(t)
  BY <1>1
<1>3. \A i \in 1..Len(e) : e[i] \in A
  BY <1>1, <1>2
<1>4. e = [i \in 1..Len(e) |-> e[i]]
  OBVIOUS
<1>5. e \in [1..Len(e) -> A]
  BY <1>3, <1>4
<1> QED
  <2> DEFINE n == Len(e)
  <2>1. n \in Nat /\ e \in [1..n -> A]
    BY <1>1, <1>5
  <2> HIDE DEF n
  <2> QED
    BY ONLY <2>1, SeqDef

(* A part of a text without blank lines has none.                          *)
LEMMA PartIsClean ==
  ASSUME NEW A, NEW t \in Seq(A), NEW e \in Seq(A), NEW off \in Nat, Lies(e, t, off), Clean(e),
         NEW i \in Nat, NEW j \in Nat, i >= 1, i <= j + 1, j <= Len(e)
  PROVE  ~HasBlankLine(SubSeq(t, off + i, off + j))
<1> DEFINE s == SubSeq(t, off + i, off + j)
<1>0. /\ Len(e) \in Nat /\ Len(t) \in Nat /\ off + Len(e) <= Len(t)
      /\ \A k \in 1..Len(e) : e[k] = t[off + k]
  BY DEF Lies
<1>1. s \in Seq(A) /\ Len(s) = j - i + 1 /\ \A k \in 1..(j - i + 1) : s[k] = e[k + i - 1]
  <2>1. /\ off + i \in Nat /\ off + j \in Nat /\ off + i >= 1 /\ off + i <= (off + j) + 1
        /\ off + j <= Len(t) /\ (off + j) - (off + i) + 1 = j - i + 1
    BY <1>0
  <2>2. /\ s \in Seq(A) /\ Len(s) = (off + j) - (off + i) + 1
        /\ \A k \in 1..((off + j) - (off + i) + 1) : s[k] = t[k + (off + i) - 1]
    BY <2>1, SubSeqIs
  <2>3. \A k \in 1..(j - i + 1) : k + (off + i) - 1 = off + (k + i - 1) /\ k + i - 1 \in 1..Len(e)
    BY <1>0
  <2> HIDE DEF s
  <2> QED
    BY <1>0, <2>1, <2>2, <2>3
<1> HIDE DEF s
<1>2. ASSUME NEW k \in 1..Len(s), EndsAt(s, k) PROVE FALSE
  <2>1. /\ k \in 2..Len(s) /\ s[k] = "n"
        /\ s[k - 1] = "n" \/ (k > 2 /\ s[k - 1] = "r" /\ s[k - 2] = "n")
    BY <1>2 DEF EndsAt
  <2> DEFINE m == k + i - 1
  <2>2. /\ m \in 2..Len(e) /\ m \in 1..Len(e) /\ (k > 2 => m > 2)
        /\ m - 1 = (k - 1) + i - 1 /\ k - 1 \in 1..(j - i + 1) /\ k \in 1..(j - i + 1)
        /\ k > 2 => m - 2 = (k - 2) + i - 1 /\ k - 2 \in 1..(j - i + 1)
    BY <1>0, <1>1, <2>1, SMTT(30)
  <2>3. s[k] = e[m] /\ s[k - 1] = e[m - 1] /\ (k > 2 => s[k - 2] = e[m - 2])
    BY <1>1, <2>2
  <2> HIDE DEF m
  <2>4. EndsAt(e, m)
    BY <2>1, <2>2, <2>3 DEF EndsAt
  <2> QED
    BY <2>2, <2>4 DEF Clean
<1>3. Clean(s)
  BY <1>2 DEF Clean
<1>4. Boundaries(s) = {}
  BY <1>1, <1>3, NoBoundaryIsClean
<1> QED
  BY <1>4 DEF HasBlankLine, s

(* The chat fails on none of them, and none is too long.                   *)
LEMMA EventsParse ==
  ASSUME NEW t \in Seq(Whole), WellFormed(t), NEW e \in Seq(Whole), NEW off \in Nat,
         EventIn(e, t, off)
  PROVE  Meaning(e) # "failure" /\ Len(e) <= MaxEvent
<1> DEFINE data == DataLines(e)
<1>0. /\ Len(e) \in Nat /\ Len(t) \in Nat /\ off + Len(e) <= Len(t)
      /\ \A k \in 1..Len(e) : e[k] = t[off + k] /\ e[k] \in Whole /\ off + k \in 1..Len(t)
      /\ Lies(e, t, off) /\ Clean(e)
  BY DEF EventIn, Lies
<1>1. /\ \A i \in DOMAIN t : t[i] \in {"d", "D"} => LineStart(t, i) /\ LineEnd(t, i)
      /\ \A i, j \in DOMAIN t : t[i] \in {"d", "D"} /\ t[j] \in {"d", "D"} /\ i < j
                                  => HasBlankLine(SubSeq(t, i + 1, j - 1))
      /\ \A i, j \in 1..Len(t) : j - i >= MaxEvent - 3 => HasBlankLine(SubSeq(t, i, j))
  BY DEF WellFormed
<1>2. DOMAIN t = 1..Len(t)
  OBVIOUS
<1>3. \A i \in 1..Len(e) : ~TrimsTo(LineAt(e, i), "E")
  <2> SUFFICES ASSUME NEW i \in 1..Len(e), TrimsTo(LineAt(e, i), "E") PROVE FALSE
    OBVIOUS
  <2>1. LineAt(e, i) \in Seq(Whole)
    BY LineAtIn
  <2>2. \A k \in DOMAIN LineAt(e, i) : LineAt(e, i)[k] \in Whole
    BY <2>1
  <2> QED
    BY <2>2 DEF TrimsTo, Whole
<1>4. ASSUME NEW i \in 1..Len(e), e[i] \in {"d", "D"}
      PROVE  LineAt(e, i) = <<e[i]>>
  <2>1. LineEnd(t, off + i)
    BY <1>0, <1>1, <1>2, <1>4
  <2>2. \/ off + i = Len(t) \/ t[(off + i) + 1] = "n"
        \/ t[(off + i) + 1] = "r" /\ (off + i) + 2 <= Len(t) /\ t[(off + i) + 2] = "n"
    BY <2>1 DEF LineEnd
  <2>3. /\ (off + i) + 1 = off + (i + 1) /\ (off + i) + 2 = off + (i + 2)
        /\ i + 1 <= Len(e) => i + 1 \in 1..Len(e)
        /\ i + 2 <= Len(e) => i + 2 \in 1..Len(e)
    BY <1>0
  <2>4. i # Len(e) => i + 1 <= Len(e) /\ off + i # Len(t)
    BY <1>0
  <2>5. ASSUME e[i + 1] = "r", i + 1 = Len(e), off + (i + 2) <= Len(t), t[off + (i + 2)] = "n"
        PROVE  FALSE
    <3>1. off + Len(e) # Len(t) /\ e # <<>> /\ off + Len(e) + 1 = off + (i + 2)
      BY <1>0, <2>5
    <3> QED
      BY <2>5, <3>1 DEF EventIn
  <2>6. i + 1 <= Len(e) /\ ~(i + 2 <= Len(e)) => i + 1 = Len(e)
    BY <1>0
  <2>7. Alone(e, i)
    BY <1>0, <2>2, <2>3, <2>4, <2>5, <2>6 DEF Alone
  <2>8. e[i] \notin {"r", "n"}
    BY <1>4
  <2> QED
    BY <2>7, <2>8, LineOfOne
<1>5. \A i \in data : i \in 1..Len(e) /\ e[i] \in {"d", "D"}
  BY <1>0 DEF DataLines, LineStarts, Whole
<1>6. \A i, j \in data : i = j
  <2>1. ASSUME NEW i \in data, NEW j \in data, i < j PROVE FALSE
    <3>1. HasBlankLine(SubSeq(t, (off + i) + 1, (off + j) - 1))
      <4>1. off + i \in DOMAIN t /\ off + j \in DOMAIN t /\ off + i < off + j
        BY <1>0, <1>2, <1>5, <2>1
      <4>2. t[off + i] \in {"d", "D"} /\ t[off + j] \in {"d", "D"}
        BY <1>0, <1>5
      <4> DEFINE a == off + i
                 b == off + j
      <4>3. /\ a \in DOMAIN t /\ b \in DOMAIN t /\ a < b
            /\ t[a] \in {"d", "D"} /\ t[b] \in {"d", "D"}
        BY <4>1, <4>2
      <4> HIDE DEF a, b
      <4>4. HasBlankLine(SubSeq(t, a + 1, b - 1))
        BY ONLY <1>1, <4>3
      <4> QED
        BY <4>4 DEF a, b
    <3>2. /\ i + 1 \in Nat /\ j - 1 \in Nat /\ i + 1 >= 1 /\ i + 1 <= (j - 1) + 1 /\ j - 1 <= Len(e)
          /\ (off + i) + 1 = off + (i + 1) /\ (off + j) - 1 = off + (j - 1)
      <4>1. i \in Nat /\ j \in Nat /\ i >= 1 /\ j <= Len(e) /\ Len(e) \in Nat
        BY <1>0, <1>5
      <4> QED
        BY ONLY <2>1, <4>1, off \in Nat
    <3>3. ~HasBlankLine(SubSeq(t, off + (i + 1), off + (j - 1)))
      BY <1>0, <3>2, PartIsClean
    <3> QED
      BY <3>1, <3>2, <3>3
  <2>2. \A i \in data : i \in Nat
    BY <1>5
  <2> QED
    BY <2>1, <2>2
<1>7. Len(e) <= MaxEvent
  <2> SUFFICES ASSUME ~(Len(e) <= MaxEvent) PROVE FALSE
    OBVIOUS
  <2>1. MaxEvent \in Nat
    BY ReplyAssumption
  <2>2. /\ Len(e) >= 1 /\ off + 1 \in 1..Len(t) /\ off + Len(e) \in 1..Len(t)
        /\ (off + Len(e)) - (off + 1) >= MaxEvent - 3
        /\ 1 \in Nat /\ 1 >= 1 /\ 1 <= Len(e) + 1 /\ Len(e) <= Len(e)
    BY <1>0, <2>1
  <2>3. HasBlankLine(SubSeq(t, off + 1, off + Len(e)))
    BY <1>1, <2>2
  <2> QED
    BY <1>0, <2>2, <2>3, PartIsClean
<1>8. Meaning(e) # "failure"
  <2>1. ~ \E i \in LineStarts(e) : TrimsTo(LineAt(e, i), "E")
    BY <1>3 DEF LineStarts
  <2>2. CASE data = {}
    BY <2>1, <2>2 DEF Meaning
  <2>3. ASSUME NEW i \in data PROVE Meaning(e) # "failure"
    <3>1. data = {i} /\ LineAt(e, i) = <<e[i]>> /\ e[i] \in {"d", "D"}
      BY <1>4, <1>5, <1>6
    <3>2. e[i] = "d" => TrimsTo(LineAt(e, i), "d")
      BY <3>1 DEF TrimsTo
    <3> HIDE DEF data
    <3> QED
      BY <2>1, <3>1, <3>2 DEF Meaning, data
  <2> QED
    BY <2>2, <2>3
<1> QED
  BY <1>7, <1>8

(* A line begins with its first piece, unless that is the end of it.       *)
LEMMA LineHead ==
  ASSUME NEW A, NEW e \in Seq(A), NEW i \in 1..Len(e), e[i] \notin {"r", "n"}
  PROVE  LineAt(e, i) # <<>> /\ LineAt(e, i)[1] = e[i]
<1>0. Len(e) \in Nat /\ i \in Nat /\ i >= 1 /\ i <= Len(e) /\ 1 + i - 1 = i
  OBVIOUS
<1>1. ASSUME NEW j \in Nat, i <= j, j <= Len(e)
      PROVE  SubSeq(e, i, j) # <<>> /\ SubSeq(e, i, j)[1] = e[i]
  <2> DEFINE s == SubSeq(e, i, j)
  <2>1. i <= j + 1 /\ j - i + 1 \in Nat /\ 1 \in 1..(j - i + 1)
    BY <1>0, <1>1
  <2>2. /\ s \in Seq(A) /\ Len(s) = j - i + 1
        /\ \A k \in 1..(j - i + 1) : s[k] = e[k + i - 1]
    BY <1>0, <1>1, <2>1, SubSeqIs
  <2> HIDE DEF s
  <2>3. s[1] = e[i] /\ Len(s) # 0
    BY <1>0, <2>1, <2>2
  <2>4. s # <<>>
    BY <2>3
  <2> QED
    BY <2>3, <2>4 DEF s
<1>2. CASE Breaks(e, i) = {}
  <2>1. LineAt(e, i) = SubSeq(e, i, Len(e))
    BY <1>2 DEF LineAt, Breaks
  <2>2. Len(e) \in Nat /\ i <= Len(e) /\ Len(e) <= Len(e)
    BY <1>0
  <2>3. SubSeq(e, i, Len(e)) # <<>> /\ SubSeq(e, i, Len(e))[1] = e[i]
    BY ONLY <1>1, <2>2
  <2> QED
    BY <2>1, <2>3
<1>3. CASE Breaks(e, i) # {}
  <2>1. PICK next \in Breaks(e, i) :
          next = CHOOSE k \in Breaks(e, i) : \A m \in Breaks(e, i) : k <= m
    BY <1>3, NextBreak
  <2>2. LineAt(e, i) = IF next > i /\ e[next - 1] = "r" THEN SubSeq(e, i, next - 2)
                       ELSE SubSeq(e, i, next - 1)
    BY <1>3, <2>1 DEF LineAt, Breaks
  <2>3. next \in Nat /\ i < next /\ next <= Len(e)
    <3>1. next \in i..Len(e) /\ e[next] = "n"
      BY DEF Breaks
    <3>2. next # i
      BY <3>1
    <3> QED
      BY <1>0, <3>1, <3>2
  <2>4. CASE e[next - 1] = "r"
    <3>1. next - 1 # i
      BY <2>4
    <3>2. next - 2 \in Nat /\ i <= next - 2 /\ next - 2 <= Len(e) /\ next > i
      BY <1>0, <2>3, <3>1
    <3> QED
      BY <1>1, <2>2, <2>4, <3>2
  <2>5. CASE e[next - 1] # "r"
    <3>1. next - 1 \in Nat /\ i <= next - 1 /\ next - 1 <= Len(e)
      BY <1>0, <2>3
    <3> QED
      BY <1>1, <2>2, <2>5, <3>1
  <2> QED
    BY <2>4, <2>5
<1> QED
  BY <1>2, <1>3

-----------------------------------------------------------------------------
(* The loop of the chat over the events of its buffer.                     *)

Waits(s) == s.status # "reading" \/ Boundaries(s.buffer) = {}

FirstEvent(s) == SubSeq(s.buffer, 1, Leftmost(s.buffer)[1] - 1)

Verdict(e) == IF Len(e) > MaxEvent THEN "failure" ELSE Meaning(e)

AfterFirst(s) ==
  IF Verdict(FirstEvent(s)) = "failure" THEN [buffer |-> <<>>, status |-> "failed"]
  ELSE IF Verdict(FirstEvent(s)) = "done" THEN [buffer |-> <<>>, status |-> "done"]
  ELSE [s EXCEPT !.buffer = SubSeq(@, Leftmost(s.buffer)[1] + Leftmost(s.buffer)[2], Len(@))]

(* Where the first event ends, and what remains behind its blank line.     *)
LEMMA FirstEventIs ==
  ASSUME NEW s \in ChatStates, ~Waits(s)
  PROVE  LET b == Leftmost(s.buffer)
             k == b[1] + b[2] - 1
             e == FirstEvent(s)
             rest == SubSeq(s.buffer, b[1] + b[2], Len(s.buffer))
         IN /\ s.buffer \in Seq(Pieces) /\ k \in 2..Len(s.buffer)
            /\ e \in Seq(Pieces) /\ Len(e) < k /\ Clean(e)
            /\ \A i \in 1..Len(e) : e[i] = s.buffer[i]
            /\ \A i \in (Len(e) + 1)..k : s.buffer[i] \in {"r", "n"}
            /\ s.buffer[k] = "n"
            /\ e # <<>> /\ e[Len(e)] = "r" => s.buffer[Len(e) + 1] # "n"
            /\ rest \in Seq(Pieces) /\ Len(rest) = Len(s.buffer) - k
            /\ \A i \in 1..Len(rest) : rest[i] = s.buffer[k + i]
<1> DEFINE t == s.buffer
           b == Leftmost(t)
           k == b[1] + b[2] - 1
           e == FirstEvent(s)
           rest == SubSeq(t, b[1] + b[2], Len(t))
<1>1. t \in Seq(Pieces) /\ Boundaries(t) # {} /\ Len(t) \in Nat
  BY DEF ChatStates, Waits
<1> HIDE DEF t
<1>2. /\ b \in Boundaries(t) /\ b[1] \in 1..Len(t) /\ b[2] \in 2..4 /\ k \in 2..Len(t)
      /\ EndsAt(t, k) /\ b[1] = StartOf(t, k)
      /\ \A j \in 1..(k - 1) : ~EndsAt(t, j)
  BY <1>1, LeftmostIs
<1>3. /\ e \in Seq(Pieces) /\ Len(e) = b[1] - 1 /\ \A i \in 1..Len(e) : e[i] = t[i]
      /\ e = SubSeq(t, 1, b[1] - 1)
  <2>1. /\ b[1] - 1 \in Nat /\ 1 \in Nat /\ 1 >= 1 /\ 1 <= (b[1] - 1) + 1 /\ b[1] - 1 <= Len(t)
        /\ (b[1] - 1) - 1 + 1 = b[1] - 1 /\ \A i \in 1..(b[1] - 1) : i + 1 - 1 = i
    BY <1>1, <1>2
  <2>2. e = SubSeq(t, 1, b[1] - 1)
    BY DEF FirstEvent, t
  <2> HIDE DEF e, b
  <2>3. /\ e \in Seq(Pieces) /\ Len(e) = (b[1] - 1) - 1 + 1
        /\ \A i \in 1..((b[1] - 1) - 1 + 1) : e[i] = t[i + 1 - 1]
    BY ONLY <1>1, <2>1, <2>2, SubSeqIs
  <2> QED
    BY <2>1, <2>2, <2>3
<1>4. /\ rest \in Seq(Pieces) /\ Len(rest) = Len(t) - k
      /\ \A i \in 1..Len(rest) : rest[i] = t[k + i]
  <2>1. /\ b[1] + b[2] \in Nat /\ b[1] + b[2] >= 1 /\ b[1] + b[2] <= Len(t) + 1 /\ Len(t) <= Len(t)
        /\ Len(t) - (b[1] + b[2]) + 1 = Len(t) - k
        /\ \A i \in 1..(Len(t) - k) : i + (b[1] + b[2]) - 1 = k + i
    <3> DEFINE x == b[1]
               y == b[2]
               n == Len(t)
    <3>1. x \in Nat /\ y \in Nat /\ n \in Nat /\ x >= 1 /\ x + y - 1 <= n
      BY <1>1, <1>2
    <3> HIDE DEF x, y, n
    <3>2. /\ x + y \in Nat /\ x + y >= 1 /\ x + y <= n + 1 /\ n <= n
          /\ n - (x + y) + 1 = n - (x + y - 1)
      BY ONLY <3>1
    <3>3. \A i \in 1..(n - (x + y - 1)) : i + (x + y) - 1 = (x + y - 1) + i
      BY ONLY <3>1
    <3> QED
      BY ONLY <3>2, <3>3 DEF x, y, n
  <2> HIDE DEF b
  <2>2. /\ rest \in Seq(Pieces) /\ Len(rest) = Len(t) - (b[1] + b[2]) + 1
        /\ \A i \in 1..(Len(t) - (b[1] + b[2]) + 1) : rest[i] = t[i + (b[1] + b[2]) - 1]
    BY <1>1, <2>1, SubSeqIs
  <2> HIDE DEF rest, k
  <2> QED
    BY <2>1, <2>2
<1> HIDE DEF b, e, rest
<1>5. Clean(e)
  <2>1. b[1] - 1 \in 0..Len(t) /\ b[1] - 1 < k
    BY <1>1, <1>2
  <2>2. ASSUME NEW j \in 1..(b[1] - 1) PROVE ~EndsAt(e, j)
    <3>1. EndsAt(SubSeq(t, 1, b[1] - 1), j) <=> EndsAt(t, j)
      BY <1>1, <2>1, EndsInPrefix
    <3>2. j \in 1..(k - 1)
      BY <1>2, <2>1
    <3> QED
      BY <1>2, <1>3, <3>1, <3>2
  <2> QED
    BY <1>3, <2>2 DEF Clean
<1>6. t[k] = "n"
  BY <1>2 DEF EndsAt
<1>7. \A i \in (Len(e) + 1)..k : t[i] \in {"r", "n"}
  <2> DEFINE i == b[1]
             len == b[2]
  <2>1. /\ i \in 1..Len(t) /\ len \in 2..4 /\ MatchAt(t, i, len)
    BY <1>2 DEF Boundaries
  <2> HIDE DEF i, len
  <2>2. \/ len = 2 /\ i + 1 <= Len(t) /\ t[i] = "n" /\ t[i + 1] = "n"
        \/ len = 3 /\ i + 2 <= Len(t) /\ t[i] = "r" /\ t[i + 1] = "n" /\ t[i + 2] = "n"
        \/ len = 3 /\ i + 2 <= Len(t) /\ t[i] = "n" /\ t[i + 1] = "r" /\ t[i + 2] = "n"
        \/ /\ len = 4 /\ i + 3 <= Len(t)
           /\ t[i] = "r" /\ t[i + 1] = "n" /\ t[i + 2] = "r" /\ t[i + 3] = "n"
    BY <1>1, <2>1, MatchIs
  <2>3. k = i + len - 1 /\ Len(e) + 1 = i
    BY <1>2, <1>3 DEF i, len
  <2> HIDE DEF k
  <2>4. ASSUME NEW j \in i..k PROVE t[j] \in {"r", "n"}
    <3>1. i \in Nat
      BY <2>1
    <3>2. CASE len = 2
      <4>1. j = i \/ j = i + 1
        BY <2>3, <3>1, <3>2
      <4> QED
        BY <2>2, <3>2, <4>1
    <3>3. CASE len = 3
      <4>1. j = i \/ j = i + 1 \/ j = i + 2
        BY <2>3, <3>1, <3>3
      <4> QED
        BY <2>2, <3>3, <4>1
    <3>4. CASE len = 4
      <4>1. j = i \/ j = i + 1 \/ j = i + 2 \/ j = i + 3
        BY <2>3, <3>1, <3>4
      <4> QED
        BY <2>2, <3>4, <4>1
    <3> QED
      BY <2>1, <3>2, <3>3, <3>4
  <2> QED
    BY <2>3, <2>4
<1>8. ASSUME e # <<>>, e[Len(e)] = "r", t[Len(e) + 1] = "n" PROVE FALSE
  <2>1. Len(e) \in Nat /\ Len(e) >= 1
    BY <1>3, <1>8
  <2>2. b[1] > 1 /\ t[b[1] - 1] = "r" /\ t[b[1]] = "n"
    <3>1. Len(e) + 1 = b[1] /\ Len(e) \in 1..Len(e)
      BY <1>2, <1>3, <2>1
    <3> QED
      BY <1>2, <1>3, <1>8, <2>1, <3>1, SMTT(30)
  <2>3. CASE Core(t, k) > 1 /\ t[Core(t, k) - 1] = "r"
    <3>1. b[1] = Core(t, k) - 1
      BY <1>2, <2>3 DEF StartOf
    <3> QED
      BY <2>2, <2>3, <3>1
  <2>4. CASE ~(Core(t, k) > 1 /\ t[Core(t, k) - 1] = "r")
    <3>1. b[1] = Core(t, k)
      BY <1>2, <2>4 DEF StartOf
    <3> QED
      BY <2>2, <2>4, <3>1
  <2> QED
    BY <2>3, <2>4
<1>9. Len(e) < k
  BY <1>2, <1>3, SMTT(30)
<1> QED
  BY <1>1, <1>2, <1>3, <1>4, <1>5, <1>6, <1>7, <1>8, <1>9 DEF t, b, e, rest

LEMMA AfterFirstIs ==
  ASSUME NEW s \in ChatStates, ~Waits(s)
  PROVE  AfterFirst(s) \in ChatStates /\ Len(AfterFirst(s).buffer) < Len(s.buffer)
<1> DEFINE k == Leftmost(s.buffer)[1] + Leftmost(s.buffer)[2] - 1
           rest == SubSeq(s.buffer, Leftmost(s.buffer)[1] + Leftmost(s.buffer)[2], Len(s.buffer))
<1>1. /\ k \in 2..Len(s.buffer) /\ rest \in Seq(Pieces) /\ Len(rest) = Len(s.buffer) - k
      /\ s.buffer \in Seq(Pieces)
  BY FirstEventIs
<1>2. Len(rest) < Len(s.buffer) /\ 0 < Len(s.buffer) /\ <<>> \in Seq(Pieces) /\ Len(<<>>) = 0
  <2>1. Len(s.buffer) \in Nat /\ k >= 2 /\ k <= Len(s.buffer) /\ k \in Nat
    BY <1>1
  <2> HIDE DEF k, rest
  <2> QED
    BY <1>1, <2>1
<1>3. AfterFirst(s) =
        IF Verdict(FirstEvent(s)) = "failure" THEN [buffer |-> <<>>, status |-> "failed"]
        ELSE IF Verdict(FirstEvent(s)) = "done" THEN [buffer |-> <<>>, status |-> "done"]
        ELSE [s EXCEPT !.buffer = rest]
  BY DEF AfterFirst, ChatStates
<1> HIDE DEF rest, k
<1> QED
  BY <1>1, <1>2, <1>3 DEF ChatStates

LEMMA ProcessIs ==
  ASSUME NEW start \in ChatStates
  PROVE  /\ Waits(start) => ProcessCompleteEvents[start] = start
         /\ ~Waits(start) => ProcessCompleteEvents[start] = ProcessCompleteEvents[AfterFirst(start)]
<1> DEFINE Ended == {s \in ChatStates : Waits(s)}
           step == [s \in ChatStates |-> IF s \in Ended THEN s ELSE AfterFirst(s)]
           size == [s \in ChatStates |-> Len(s.buffer)]
           Body(f) == [s \in ChatStates |-> IF Waits(s) THEN s ELSE f[AfterFirst(s)]]
<1>1. step \in [ChatStates -> ChatStates]
  BY AfterFirstIs
<1>2. size \in [ChatStates -> Nat]
  BY DEF ChatStates
<1>3. \A s \in ChatStates \ Ended : size[step[s]] < size[s]
  BY AfterFirstIs
<1>4. \E f : Loop(f, ChatStates, Ended, step)
  <2> HIDE DEF Ended, step, size
  <2>1. Ended \in SUBSET ChatStates
    BY DEF Ended
  <2> QED
    BY ONLY <1>1, <1>2, <1>3, <2>1, LoopExists
<1>5. \E f : f = Body(f)
  <2>1. PICK f : f = [s \in ChatStates |-> IF s \in Ended THEN s ELSE f[step[s]]]
    BY <1>4 DEF Loop
  <2>2. \A s \in ChatStates : (IF s \in Ended THEN s ELSE f[step[s]])
                            = (IF Waits(s) THEN s ELSE f[AfterFirst(s)])
    OBVIOUS
  <2>3. f = Body(f)
    <3> HIDE DEF Ended, step
    <3> QED
      BY <2>1, <2>2
  <2> QED
    BY <2>3
<1>6. ProcessCompleteEvents = CHOOSE f : f = Body(f)
  BY DEF ProcessCompleteEvents, AfterFirst, Waits, ChatStates, FirstEvent, Verdict
<1>7. ProcessCompleteEvents = Body(ProcessCompleteEvents)
  <2> HIDE DEF Body
  <2> QED
    BY <1>5, <1>6
<1> QED
  BY <1>7

-----------------------------------------------------------------------------
(* What the loop finds in a text t that the chat has read up to off.       *)

Holds(s, t, off) ==
  /\ Lies(s.buffer, t, off)
  /\ off = 0 \/ t[off] = "n"
  /\ \A p \in 1..off : t[p] # "E"

(* An error event has its line for itself.                                 *)
ErrorsApart(t) ==
  \A p \in 1..Len(t) :
    t[p] = "E" => /\ p = 1 \/ t[p - 1] = "n"
                  /\ p + 1 <= Len(t) /\ t[p + 1] = "n"

Spoilt(t) ==
  \E e \in Seq(Pieces), off \in Nat :
    EventIn(e, t, off) /\ (Meaning(e) = "failure" \/ Len(e) > MaxEvent)

SaysDone(t) == \E i \in DOMAIN t : t[i] = "D" /\ LineStart(t, i)

(* A line of an event begins where one of the text does.                   *)
LEMMA EventLines ==
  ASSUME NEW t \in Seq(Pieces), NEW e \in Seq(Pieces), NEW off \in Nat, EventIn(e, t, off),
         NEW i \in 1..Len(e)
  PROVE  /\ off + i \in DOMAIN t /\ t[off + i] = e[i]
         /\ i \in LineStarts(e) <=> LineStart(t, off + i)
<1>1. /\ Len(e) \in Nat /\ Len(t) \in Nat /\ off + Len(e) <= Len(t) /\ DOMAIN t = 1..Len(t)
      /\ \A k \in 1..Len(e) : e[k] = t[off + k]
      /\ off = 0 \/ t[off] = "n"
  BY DEF EventIn, Lies
<1>2. /\ i \in Nat /\ i >= 1 /\ i <= Len(e) /\ off + i \in 1..Len(t)
      /\ i # 1 => i - 1 \in 1..Len(e) /\ off + (i - 1) = (off + i) - 1 /\ off + i # 1
      /\ i = 1 => (off + i) - 1 = off /\ (off + i = 1 <=> off = 0)
  BY <1>1
<1> QED
  BY <1>1, <1>2 DEF LineStarts, LineStart

LEMMA OneEvent ==
  ASSUME NEW s \in ChatStates, s.status = "reading", ~Waits(s),
         NEW t \in Seq(Pieces), ErrorsApart(t), NEW off \in Nat, Holds(s, t, off)
  PROVE  LET a == AfterFirst(s)
         IN \/ a.status = "failed" /\ a.buffer = <<>> /\ Spoilt(t)
            \/ a.status = "done" /\ a.buffer = <<>> /\ SaysDone(t)
            \/ /\ a.status = "reading"
               /\ \E o \in Nat : Holds(a, t, o) /\ o + Len(a.buffer) = off + Len(s.buffer)
<1> DEFINE p == s.buffer
           k == Leftmost(p)[1] + Leftmost(p)[2] - 1
           e == FirstEvent(s)
           rest == SubSeq(p, Leftmost(p)[1] + Leftmost(p)[2], Len(p))
<1>1. /\ p \in Seq(Pieces) /\ k \in 2..Len(p)
      /\ e \in Seq(Pieces) /\ Len(e) < k /\ Clean(e)
      /\ \A i \in 1..Len(e) : e[i] = p[i]
      /\ \A i \in (Len(e) + 1)..k : p[i] \in {"r", "n"}
      /\ p[k] = "n"
      /\ e # <<>> /\ e[Len(e)] = "r" => p[Len(e) + 1] # "n"
      /\ rest \in Seq(Pieces) /\ Len(rest) = Len(p) - k
      /\ \A i \in 1..Len(rest) : rest[i] = p[k + i]
  BY FirstEventIs
<1>2. AfterFirst(s) = IF Verdict(e) = "failure" THEN [buffer |-> <<>>, status |-> "failed"]
                      ELSE IF Verdict(e) = "done" THEN [buffer |-> <<>>, status |-> "done"]
                      ELSE [buffer |-> rest, status |-> "reading"]
  <2>1. [s EXCEPT !.buffer = rest] = [buffer |-> rest, status |-> "reading"]
    <3> HIDE DEF rest
    <3> QED
      BY DEF ChatStates
  <2> QED
    BY <2>1 DEF AfterFirst
<1> HIDE DEF k, e, rest, p
<1>3. /\ off + Len(p) <= Len(t) /\ \A i \in 1..Len(p) : p[i] = t[off + i]
      /\ off = 0 \/ t[off] = "n"
      /\ \A i \in 1..off : t[i] # "E"
  BY DEF Holds, Lies, p
<1>4. /\ Len(p) \in Nat /\ Len(e) \in Nat /\ Len(t) \in Nat /\ k \in Nat /\ Len(rest) \in Nat
      /\ k <= Len(p) /\ Len(e) < k
  BY <1>1
<1>5. EventIn(e, t, off)
  <2>1. Lies(e, t, off)
    <3>1. off + Len(e) <= Len(t) /\ \A i \in 1..Len(e) : i \in 1..Len(p)
      BY <1>3, <1>4
    <3> QED
      BY <1>1, <1>3, <3>1 DEF Lies
  <2>2. ~(e # <<>> /\ e[Len(e)] = "r" /\ t[off + Len(e) + 1] = "n")
    <3>1. Len(e) + 1 \in 1..Len(p) /\ off + (Len(e) + 1) = off + Len(e) + 1
      BY <1>4
    <3>2. p[Len(e) + 1] = t[off + Len(e) + 1]
      BY <1>3, <3>1
    <3> QED
      BY <1>1, <3>2
  <2> QED
    BY <1>1, <1>3, <2>1, <2>2 DEF EventIn
<1>6. CASE Verdict(e) = "failure"
  <2>1. Meaning(e) = "failure" \/ Len(e) > MaxEvent
    BY <1>6 DEF Verdict
  <2>2. Spoilt(t)
    BY <1>1, <1>5, <2>1 DEF Spoilt
  <2> QED
    BY <1>2, <1>6, <2>2
<1>7. CASE Verdict(e) = "done"
  <2>1. Meaning(e) = "done"
    BY <1>7 DEF Verdict
  <2>2. PICK i \in DataLines(e) : LineAt(e, i) = <<"D">>
    BY <2>1 DEF Meaning
  <2>3. i \in 1..Len(e) /\ i \in LineStarts(e) /\ e[i] \notin {"r", "n"}
    BY <2>2 DEF DataLines, LineStarts
  <2>4. e[i] = "D"
    <3>1. LineAt(e, i)[1] = e[i]
      BY <1>1, <2>3, LineHead
    <3> QED
      BY <2>2, <3>1
  <2>5. off + i \in DOMAIN t /\ t[off + i] = "D" /\ LineStart(t, off + i)
    BY <1>1, <1>5, <2>3, <2>4, EventLines
  <2>6. SaysDone(t)
    BY <2>5 DEF SaysDone
  <2> QED
    BY <1>2, <1>7, <2>6
<1>8. CASE Verdict(e) # "failure" /\ Verdict(e) # "done"
  <2> DEFINE o == off + k
  <2>1. AfterFirst(s) = [buffer |-> rest, status |-> "reading"]
    BY <1>2, <1>8
  <2>2. o \in Nat /\ o + Len(rest) = off + Len(p) /\ o # 0
    BY <1>1, <1>4
  <2>3. Lies(rest, t, o)
    <3>1. \A i \in 1..Len(rest) : k + i \in 1..Len(p) /\ off + (k + i) = o + i
      BY <1>1, <1>4
    <3> HIDE DEF o
    <3> QED
      <4>1. \A i \in 1..Len(rest) : rest[i] = t[o + i]
        <5> SUFFICES ASSUME NEW i \in 1..Len(rest) PROVE rest[i] = t[o + i]
          OBVIOUS
        <5>1. rest[i] = p[k + i] /\ k + i \in 1..Len(p)
          BY <1>1, <3>1
        <5>2. p[k + i] = t[off + (k + i)]
          BY <1>3, <5>1
        <5> QED
          BY ONLY <3>1, <5>1, <5>2
      <4>2. o + Len(rest) <= Len(t)
        BY <1>3, <2>2
      <4> QED
        BY ONLY <4>1, <4>2 DEF Lies
  <2>4. t[o] = "n"
    BY <1>1, <1>3, <1>4
  <2>5. ASSUME NEW q \in 1..o, t[q] = "E" PROVE FALSE
    <3> DEFINE i == q - off
    <3>1. /\ i \in Nat /\ i >= 1 /\ i <= k /\ off + i = q /\ i \in 1..Len(p) /\ q \in 1..Len(t)
          /\ q \in Nat
      <4>1. q \notin 1..off
        BY <1>3, <2>5
      <4> QED
        BY <1>3, <1>4, <4>1
    <3> HIDE DEF i
    <3>2. p[i] = "E"
      BY <1>3, <2>5, <3>1
    <3>3. i \in 1..Len(e)
      <4>1. i \notin (Len(e) + 1)..k
        BY <1>1, <3>2
      <4> QED
        BY <1>4, <3>1, <4>1
    <3>4. e[i] = "E"
      BY <1>1, <3>2, <3>3
    <3>5. (q = 1 \/ t[q - 1] = "n") /\ q + 1 <= Len(t) /\ t[q + 1] = "n"
      BY <2>5, <3>1 DEF ErrorsApart
    <3>6. i \in LineStarts(e)
      <4>1. LineStart(t, off + i)
        BY <3>1, <3>5 DEF LineStart
      <4> QED
        BY <1>1, <1>5, <3>3, <4>1, EventLines
    <3>7. Alone(e, i)
      <4>1. i # Len(e) => i + 1 <= Len(e) /\ i + 1 \in 1..Len(e) /\ off + (i + 1) = q + 1
        BY <1>4, <3>1, <3>3
      <4>2. i # Len(e) => e[i + 1] = t[off + (i + 1)]
        BY <1>5, <4>1 DEF EventIn, Lies
      <4> QED
        BY <3>5, <4>1, <4>2 DEF Alone
    <3>8. LineAt(e, i) = <<"E">>
      <4>1. e[i] \notin {"r", "n"}
        BY <3>4
      <4>2. LineAt(e, i) = <<e[i]>>
        BY <1>1, <3>3, <3>7, <4>1, LineOfOne
      <4> QED
        BY <3>4, <4>2
    <3>9. TrimsTo(LineAt(e, i), "E")
      BY <3>8 DEF TrimsTo
    <3>10. Meaning(e) = "failure"
      BY <3>6, <3>9 DEF Meaning
    <3> QED
      BY <1>8, <3>10 DEF Verdict
  <2> HIDE DEF o
  <2>6. Holds(AfterFirst(s), t, o) /\ o + Len(AfterFirst(s).buffer) = off + Len(s.buffer)
    BY <2>1, <2>2, <2>3, <2>4, <2>5 DEF Holds, p
  <2> QED
    BY <2>1, <2>2, <2>6
<1> QED
  BY <1>6, <1>7, <1>8

(* All rounds. *)
Leaves(u, t, n) ==
  \/ u.status = "failed" /\ u.buffer = <<>> /\ Spoilt(t)
  \/ u.status = "done" /\ u.buffer = <<>> /\ SaysDone(t)
  \/ /\ u.status = "reading" /\ Clean(u.buffer)
     /\ \E o \in Nat : Holds(u, t, o) /\ o + Len(u.buffer) = n

LEMMA LoopReads ==
  ASSUME NEW t \in Seq(Pieces), ErrorsApart(t)
  PROVE  \A s \in ChatStates, off \in Nat :
           s.status = "reading" /\ Holds(s, t, off)
             => /\ ProcessCompleteEvents[s] \in ChatStates
                /\ Leaves(ProcessCompleteEvents[s], t, off + Len(s.buffer))
<1> DEFINE Start(s, off) == s.status = "reading" /\ Holds(s, t, off)
           Good(s, off) ==
             /\ ProcessCompleteEvents[s] \in ChatStates
             /\ Leaves(ProcessCompleteEvents[s], t, off + Len(s.buffer))
           S == {k \in Nat : \A s \in ChatStates, off \in Nat :
                   Len(s.buffer) = k /\ Start(s, off) => Good(s, off)}
<1>1. ASSUME NEW k \in Nat, \A i \in 0..(k - 1) : i \in S PROVE k \in S
  <2> SUFFICES ASSUME NEW s \in ChatStates, NEW off \in Nat, Len(s.buffer) = k, Start(s, off)
               PROVE  Good(s, off)
    OBVIOUS
  <2>0. s.buffer \in Seq(Pieces)
    BY DEF ChatStates
  <2>1. CASE Waits(s)
    <3>1. ProcessCompleteEvents[s] = s
      BY <2>1, ProcessIs
    <3>2. Clean(s.buffer)
      BY <2>0, <2>1, NoBoundaryIsClean DEF Waits
    <3>3. \E o \in Nat : Holds(s, t, o) /\ o + Len(s.buffer) = off + Len(s.buffer)
      OBVIOUS
    <3> QED
      BY <3>1, <3>2, <3>3 DEF Leaves
  <2>2. CASE ~Waits(s)
    <3> DEFINE a == AfterFirst(s)
    <3>1. a \in ChatStates /\ Len(a.buffer) < k /\ Len(a.buffer) \in Nat
          /\ ProcessCompleteEvents[s] = ProcessCompleteEvents[a]
      <4>1. a \in ChatStates /\ Len(a.buffer) < Len(s.buffer)
        BY <2>2, AfterFirstIs
      <4>2. a.buffer \in Seq(Pieces)
        BY <4>1 DEF ChatStates
      <4> QED
        BY <2>2, <4>1, <4>2, ProcessIs
    <3>2. \/ a.status = "failed" /\ a.buffer = <<>> /\ Spoilt(t)
          \/ a.status = "done" /\ a.buffer = <<>> /\ SaysDone(t)
          \/ /\ a.status = "reading"
             /\ \E o \in Nat : Holds(a, t, o) /\ o + Len(a.buffer) = off + Len(s.buffer)
      BY <2>2, OneEvent
    <3> HIDE DEF a
    <3>3. CASE a.status # "reading"
      <4>1. ProcessCompleteEvents[a] = a
        BY <3>1, <3>3, ProcessIs DEF Waits
      <4> QED
        BY <3>1, <3>2, <3>3, <4>1 DEF Leaves
    <3>4. CASE a.status = "reading"
      <4>1. PICK o \in Nat : Holds(a, t, o) /\ o + Len(a.buffer) = off + Len(s.buffer)
        BY <3>2, <3>4
      <4>2. Len(a.buffer) \in 0..(k - 1)
        BY <3>1
      <4>3. Len(a.buffer) \in S
        BY <1>1, <4>2
      <4>4. Start(a, o)
        BY <3>4, <4>1
      <4> HIDE DEF Start, Good
      <4>5. Good(a, o)
        BY <3>1, <4>3, <4>4
      <4> QED
        BY <3>1, <4>1, <4>5 DEF Good
    <3> QED
      BY <3>3, <3>4
  <2> QED
    BY <2>1, <2>2
<1> HIDE DEF S
<1>2. \A k \in Nat : k \in S
  BY <1>1, StrongInduction
<1> SUFFICES ASSUME NEW s \in ChatStates, NEW off \in Nat, Start(s, off)
             PROVE  Good(s, off)
  OBVIOUS
<1>3. Len(s.buffer) \in Nat
  BY DEF ChatStates
<1>4. Len(s.buffer) \in S
  BY <1>2, <1>3
<1> QED
  BY <1>4 DEF S

-----------------------------------------------------------------------------
(* What the gateway and its client hold of a stream.                       *)

Relayed == IF broke THEN sent \o StreamErrorEvent ELSE sent

(* However it goes on, the stream is not well-formed.                      *)
Doomed(t) == \A x \in Seq(Whole) : ~WellFormed(t \o x)

NetIs == \E n \in 0..Len(Relayed) : Lies(net, Relayed, n) /\ n + Len(net) = Len(Relayed)

ClientIs ==
  client.status = "reading" =>
    /\ Clean(client.buffer) /\ Len(client.buffer) <= MaxEvent
    /\ \E off \in 0..Len(Relayed) :
         Holds(client, Relayed, off) /\ off + Len(client.buffer) + Len(net) = Len(Relayed)

ChatTypes ==
  /\ sent \in Seq(Pieces) /\ net \in Seq(Pieces) /\ broke \in BOOLEAN
  /\ client \in [buffer : Seq(Pieces), status : {"reading", "done", "failed", "complete"}]
  /\ \A i \in DOMAIN sent : sent[i] # "E"
  /\ ~broke => sent \in Seq(Whole)

ChatInv ==
  /\ ChatTypes /\ NetIs /\ ClientIs
  /\ phase # "ended" => ~broke /\ client.status # "complete"
  /\ client.status # "reading" => client.buffer = <<>>
  /\ client.status = "done" => SaysDone(sent)
  /\ client.status = "complete" /\ broke => SaysDone(sent)
  /\ client.status = "failed" /\ ~broke => Doomed(sent) \/ (phase = "ended" /\ ~WellFormed(sent))

LEMMA ChatInvGives == ChatInv => FailureIsSeen
<1> SUFFICES ASSUME ChatInv PROVE FailureIsSeen
  OBVIOUS
<1>1. Len(client.buffer) <= MaxEvent
  <2>1. MaxEvent \in Nat /\ Len(<<>>) = 0
    BY ReplyAssumption
  <2>2. client.status # "reading" => Len(client.buffer) <= MaxEvent
    BY <2>1 DEF ChatInv
  <2> QED
    BY <2>2 DEF ChatInv, ClientIs
<1>2. client.status = "failed" => broke \/ ~WellFormed(sent)
  <2>1. ASSUME ~broke, Doomed(sent) PROVE ~WellFormed(sent)
    <3>1. sent \in Seq(Whole) /\ <<>> \in Seq(Whole)
      BY <2>1 DEF ChatInv, ChatTypes
    <3>2. sent \o <<>> = sent
      BY <3>1, ConcatEmptySeq
    <3> QED
      BY <2>1, <3>1, <3>2 DEF Doomed
  <2> QED
    BY <2>1 DEF ChatInv
<1>3. client.status = "complete" /\ broke =>
        \E i \in DOMAIN sent : sent[i] = "D" /\ LineStart(sent, i)
  BY DEF ChatInv, SaysDone
<1> QED
  BY <1>1, <1>2, <1>3 DEF FailureIsSeen

-----------------------------------------------------------------------------
(* More of the stream arrives.                                             *)

LEMMA Joined ==
  ASSUME NEW A, NEW t \in Seq(A), NEW x \in Seq(A)
  PROVE  /\ t \o x \in Seq(A) /\ Len(t \o x) = Len(t) + Len(x)
         /\ Len(t) \in Nat /\ Len(x) \in Nat
         /\ \A i \in 1..Len(t) : (t \o x)[i] = t[i] /\ i \in 1..Len(t \o x)
         /\ \A i \in 1..Len(x) : (t \o x)[Len(t) + i] = x[i] /\ Len(t) + i \in 1..Len(t \o x)
<1> DEFINE u == t \o x
<1>1. /\ u \in Seq(A) /\ Len(u) = Len(t) + Len(x)
      /\ \A i \in 1..Len(t) + Len(x) : u[i] = IF i <= Len(t) THEN t[i] ELSE x[i - Len(t)]
  BY ConcatProperties
<1>2. Len(t) \in Nat /\ Len(x) \in Nat
  OBVIOUS
<1> HIDE DEF u
<1>3. \A i \in 1..Len(t) : i \in 1..Len(t) + Len(x) /\ i <= Len(t)
  BY <1>2
<1>4. \A i \in 1..Len(x) : /\ Len(t) + i \in 1..Len(t) + Len(x)
                           /\ ~(Len(t) + i <= Len(t)) /\ (Len(t) + i) - Len(t) = i
  BY <1>2
<1> QED
  BY <1>1, <1>2, <1>3, <1>4 DEF u

LEMMA LiesOn ==
  ASSUME NEW A, NEW t \in Seq(A), NEW x \in Seq(A), NEW p \in Seq(A), NEW off \in Nat,
         Lies(p, t, off)
  PROVE  Lies(p, t \o x, off)
<1>1. /\ off + Len(p) <= Len(t) /\ \A i \in 1..Len(p) : p[i] = t[off + i]
      /\ Len(p) \in Nat
  BY DEF Lies
<1>2. /\ Len(t \o x) = Len(t) + Len(x) /\ Len(t) \in Nat /\ Len(x) \in Nat
      /\ \A i \in 1..Len(t) : (t \o x)[i] = t[i]
  BY Joined
<1>3. \A i \in 1..Len(p) : off + i \in 1..Len(t)
  BY <1>1, <1>2
<1> QED
  BY <1>1, <1>2, <1>3 DEF Lies

LEMMA HoldsOn ==
  ASSUME NEW t \in Seq(Pieces), NEW x \in Seq(Pieces), NEW s, s.buffer \in Seq(Pieces),
         NEW off \in Nat, Holds(s, t, off)
  PROVE  Holds(s, t \o x, off)
<1>1. Lies(s.buffer, t \o x, off)
  BY LiesOn DEF Holds
<1>2. off <= Len(t) /\ Len(t) \in Nat
  <2>1. off + Len(s.buffer) <= Len(t) /\ Len(s.buffer) \in Nat
    BY DEF Holds, Lies
  <2> QED
    BY <2>1
<1>3. \A i \in 1..off : i \in 1..Len(t) /\ (off # 0 => off \in 1..Len(t))
  BY <1>2
<1>4. \A i \in 1..Len(t) : (t \o x)[i] = t[i]
  BY Joined
<1>5. off # 0 => off \in 1..Len(t)
  BY <1>2
<1> QED
  BY <1>1, <1>3, <1>4, <1>5 DEF Holds

LEMMA SaysDoneOn ==
  ASSUME NEW A, NEW t \in Seq(A), NEW x \in Seq(A), SaysDone(t)
  PROVE  SaysDone(t \o x)
<1>1. PICK i \in DOMAIN t : t[i] = "D" /\ LineStart(t, i)
  BY DEF SaysDone
<1>2. i \in 1..Len(t) /\ Len(t) \in Nat /\ (i # 1 => i - 1 \in 1..Len(t))
  BY <1>1
<1>3. /\ \A k \in 1..Len(t) : (t \o x)[k] = t[k] /\ k \in 1..Len(t \o x)
      /\ t \o x \in Seq(A)
  BY Joined
<1>4. i \in DOMAIN (t \o x)
  BY <1>2, <1>3
<1>5. (t \o x)[i] = "D"
  BY <1>1, <1>2, <1>3
<1>6. LineStart(t \o x, i)
  BY <1>1, <1>2, <1>3 DEF LineStart
<1> QED
  BY <1>4, <1>5, <1>6 DEF SaysDone

(* [DONE] is not in the error event.                                       *)
LEMMA DoneIsSent ==
  ASSUME NEW t \in Seq(Pieces), SaysDone(t \o StreamErrorEvent)
  PROVE  SaysDone(t)
<1> DEFINE u == t \o StreamErrorEvent
<1>1. /\ StreamErrorEvent \in Seq(Pieces) /\ Len(StreamErrorEvent) = 7
      /\ \A k \in 1..7 : StreamErrorEvent[k] # "D"
  BY DEF StreamErrorEvent, Pieces
<1>2. /\ u \in Seq(Pieces) /\ Len(u) = Len(t) + 7 /\ Len(t) \in Nat
      /\ \A i \in 1..Len(t) : u[i] = t[i]
      /\ \A i \in 1..7 : u[Len(t) + i] = StreamErrorEvent[i]
  <2> DEFINE x == StreamErrorEvent
  <2>1. x \in Seq(Pieces) /\ Len(x) = 7
    BY <1>1
  <2> HIDE DEF x, u
  <2>2. /\ t \o x \in Seq(Pieces) /\ Len(t \o x) = Len(t) + Len(x)
        /\ Len(t) \in Nat /\ Len(x) \in Nat
        /\ \A i \in 1..Len(t) : (t \o x)[i] = t[i] /\ i \in 1..Len(t \o x)
        /\ \A i \in 1..Len(x) : (t \o x)[Len(t) + i] = x[i] /\ Len(t) + i \in 1..Len(t \o x)
    BY ONLY <2>1, t \in Seq(Pieces), Joined
  <2>3. u = t \o x
    BY DEF u, x
  <2>4. \A i \in 1..7 : u[Len(t) + i] = x[i]
    BY <2>1, <2>2, <2>3
  <2> QED
    BY <2>1, <2>2, <2>3, <2>4 DEF x
<1>3. PICK i \in DOMAIN u : u[i] = "D" /\ LineStart(u, i)
  BY DEF SaysDone
<1> HIDE DEF u
<1>4. i \in 1..Len(t)
  <2>1. i \in 1..(Len(t) + 7)
    BY <1>2, <1>3
  <2>2. CASE i > Len(t)
    <3>1. i - Len(t) \in 1..7 /\ Len(t) + (i - Len(t)) = i
      BY <1>2, <2>1, <2>2, SMTT(30)
    <3> QED
      BY <1>1, <1>2, <1>3, <3>1, SMTT(30)
  <2> QED
    BY <1>2, <2>1, <2>2
<1>5. i # 1 => i - 1 \in 1..Len(t)
  BY <1>2, <1>4, SMTT(30)
<1>6. t[i] = "D" /\ LineStart(t, i) /\ i \in DOMAIN t
  BY <1>2, <1>3, <1>4, <1>5, SMTT(30) DEF LineStart
<1> QED
  BY <1>6 DEF SaysDone

(* The error event has its line for itself.                                *)
LEMMA ErrorsAre ==
  ASSUME ChatTypes
  PROVE  Relayed \in Seq(Pieces) /\ ErrorsApart(Relayed)
<1>1. sent \in Seq(Pieces) /\ \A i \in 1..Len(sent) : sent[i] # "E"
  BY DEF ChatTypes
<1>2. CASE ~broke
  BY <1>1, <1>2 DEF Relayed, ErrorsApart
<1>3. CASE broke
  <2> DEFINE u == sent \o StreamErrorEvent
  <2>1. /\ StreamErrorEvent \in Seq(Pieces) /\ Len(StreamErrorEvent) = 7
        /\ \A k \in 1..7 : StreamErrorEvent[k] = "E" => k = 3
        /\ StreamErrorEvent[2] = "n" /\ StreamErrorEvent[4] = "n"
    BY DEF StreamErrorEvent, Pieces
  <2>2. /\ u \in Seq(Pieces) /\ Len(u) = Len(sent) + 7 /\ Len(sent) \in Nat
        /\ \A i \in 1..Len(sent) : u[i] = sent[i]
        /\ \A i \in 1..7 : u[Len(sent) + i] = StreamErrorEvent[i]
    <3> DEFINE x == StreamErrorEvent
    <3>1. x \in Seq(Pieces) /\ Len(x) = 7
      BY <2>1
    <3> HIDE DEF x, u
    <3>2. /\ sent \o x \in Seq(Pieces) /\ Len(sent \o x) = Len(sent) + Len(x)
          /\ Len(sent) \in Nat /\ Len(x) \in Nat
          /\ \A i \in 1..Len(sent) : (sent \o x)[i] = sent[i] /\ i \in 1..Len(sent \o x)
          /\ \A i \in 1..Len(x) :
               (sent \o x)[Len(sent) + i] = x[i] /\ Len(sent) + i \in 1..Len(sent \o x)
      BY ONLY <1>1, <3>1, Joined
    <3>3. u = sent \o x
      BY DEF u, x
    <3>4. \A i \in 1..7 : u[Len(sent) + i] = x[i]
      BY <3>1, <3>2, <3>3
    <3> QED
      BY <3>1, <3>2, <3>3, <3>4 DEF x
  <2> HIDE DEF u
  <2>3. ASSUME NEW p \in 1..Len(u), u[p] = "E"
        PROVE  u[p - 1] = "n" /\ p + 1 <= Len(u) /\ u[p + 1] = "n"
    <3>1. p \notin 1..Len(sent)
      BY <1>1, <2>2, <2>3
    <3>2. p - Len(sent) \in 1..7 /\ Len(sent) + (p - Len(sent)) = p
      BY <2>2, <3>1, SMTT(30)
    <3>3. p - Len(sent) = 3
      BY <2>1, <2>2, <2>3, <3>2
    <3>4. p - 1 = Len(sent) + 2 /\ p + 1 = Len(sent) + 4 /\ 2 \in 1..7 /\ 4 \in 1..7
      BY <2>2, <3>3
    <3>5. u[Len(sent) + 2] = "n" /\ u[Len(sent) + 4] = "n"
      BY <2>1, <2>2, <3>4
    <3> QED
      BY <2>2, <3>4, <3>5
  <2>4. Relayed = u
    BY <1>3 DEF Relayed, u
  <2> QED
    BY <2>2, <2>3, <2>4 DEF ErrorsApart
<1> QED
  BY <1>2, <1>3 DEF ChatTypes

LEMMA DoomedOn ==
  ASSUME NEW t \in Seq(Whole), NEW y \in Seq(Whole), Doomed(t)
  PROVE  Doomed(t \o y)
<1> SUFFICES ASSUME NEW x \in Seq(Whole) PROVE ~WellFormed((t \o y) \o x)
  BY DEF Doomed
<1>1. (t \o y) \o x = t \o (y \o x) /\ y \o x \in Seq(Whole)
  BY ConcatAssociative, ConcatProperties, SMTT(30)
<1> QED
  BY <1>1 DEF Doomed

(* What the backend sends and what the gateway adds goes to the client.    *)
LEMMA NetGrows ==
  ASSUME ChatTypes, NetIs, ClientIs, NEW x \in Seq(Pieces), ChatTypes',
         Relayed' = Relayed \o x, net' = net \o x, client' = client
  PROVE  NetIs' /\ ClientIs'
<1>1. /\ Relayed \in Seq(Pieces) /\ net \in Seq(Pieces) /\ client.buffer \in Seq(Pieces)
  BY ErrorsAre DEF ChatTypes
<1>2. /\ Len(Relayed \o x) = Len(Relayed) + Len(x) /\ Relayed \o x \in Seq(Pieces)
      /\ Len(Relayed) \in Nat /\ Len(x) \in Nat
      /\ \A i \in 1..Len(Relayed) : (Relayed \o x)[i] = Relayed[i]
      /\ \A i \in 1..Len(x) : (Relayed \o x)[Len(Relayed) + i] = x[i]
  BY <1>1, Joined
<1>3. /\ Len(net \o x) = Len(net) + Len(x) /\ Len(net) \in Nat /\ net \o x \in Seq(Pieces)
      /\ \A i \in 1..Len(net) + Len(x) :
           (net \o x)[i] = IF i <= Len(net) THEN net[i] ELSE x[i - Len(net)]
  BY <1>1, <1>2, ConcatProperties
<1>4. NetIs'
  <2>1. PICK n \in 0..Len(Relayed) : Lies(net, Relayed, n) /\ n + Len(net) = Len(Relayed)
    BY DEF NetIs
  <2>2. \A i \in 1..Len(net) : net[i] = Relayed[n + i] /\ n + i \in 1..Len(Relayed)
    BY <1>1, <1>3, <2>1 DEF Lies
  <2>3. ASSUME NEW i \in 1..Len(net) + Len(x) PROVE (net \o x)[i] = (Relayed \o x)[n + i]
    <3>1. CASE i <= Len(net)
      <4>1. i \in 1..Len(net)
        BY <1>3, <3>1
      <4> QED
        BY <1>2, <1>3, <2>2, <3>1, <4>1
    <3>2. CASE ~(i <= Len(net))
      <4>1. i - Len(net) \in 1..Len(x) /\ n + i = Len(Relayed) + (i - Len(net))
        <5> DEFINE b == Len(net)
                   c == Len(Relayed)
                   m == Len(x)
        <5>1. /\ b \in Nat /\ c \in Nat /\ m \in Nat /\ n \in Nat /\ n + b = c
              /\ i \in 1..(b + m) /\ ~(i <= b)
          BY <1>2, <1>3, <2>1, <3>2
        <5> HIDE DEF b, c, m
        <5>2. i - b \in 1..m /\ n + i = c + (i - b)
          BY ONLY <5>1
        <5> QED
          BY <5>2 DEF b, c, m
      <4> QED
        BY <1>2, <1>3, <3>2, <4>1
    <3> QED
      BY <3>1, <3>2
  <2>4. n + (Len(net) + Len(x)) = Len(Relayed) + Len(x) /\ n \in 0..(Len(Relayed) + Len(x))
    <3>1. \A a, b, c, m \in Nat : a + b = c => a + (b + m) = c + m /\ a \in 0..(c + m)
      OBVIOUS
    <3>2. n \in Nat
      OBVIOUS
    <3> QED
      BY ONLY <1>2, <1>3, <2>1, <3>1, <3>2
  <2>5. Lies(net \o x, Relayed \o x, n)
    BY <1>2, <1>3, <2>3, <2>4 DEF Lies
  <2>6. \E k \in 0..Len(Relayed') : Lies(net', Relayed', k) /\ k + Len(net') = Len(Relayed')
    BY <1>2, <1>3, <2>4, <2>5
  <2> QED
    BY <2>6 DEF NetIs
<1>5. ClientIs'
  <2> SUFFICES ASSUME client.status = "reading"
               PROVE  /\ Clean(client.buffer) /\ Len(client.buffer) <= MaxEvent
                      /\ \E off \in 0..Len(Relayed') :
                           Holds(client, Relayed', off)
                             /\ off + Len(client.buffer) + Len(net') = Len(Relayed')
    BY DEF ClientIs
  <2>1. PICK off \in 0..Len(Relayed) :
          Holds(client, Relayed, off) /\ off + Len(client.buffer) + Len(net) = Len(Relayed)
    BY DEF ClientIs
  <2>2. Holds(client, Relayed \o x, off)
    BY <1>1, <2>1, HoldsOn
  <2>3. off \in 0..Len(Relayed \o x) /\ off + Len(client.buffer) + Len(net \o x) = Len(Relayed \o x)
    <3>1. Len(client.buffer) \in Nat
      BY <1>1
    <3> DEFINE a == Len(client.buffer)
               b == Len(net)
               c == Len(Relayed)
               m == Len(x)
    <3>2. /\ a \in Nat /\ b \in Nat /\ c \in Nat /\ m \in Nat /\ off \in Nat
          /\ off + a + b = c /\ Len(Relayed \o x) = c + m /\ Len(net \o x) = b + m
      BY <1>2, <1>3, <2>1, <3>1
    <3> HIDE DEF a, b, c, m
    <3>3. off \in 0..(c + m) /\ off + a + (b + m) = c + m
      BY ONLY <3>2
    <3> QED
      BY <3>2, <3>3 DEF a
  <2>4. Clean(client.buffer) /\ Len(client.buffer) <= MaxEvent
    BY DEF ClientIs
  <2> QED
    BY <2>2, <2>3, <2>4
<1> QED
  BY <1>4, <1>5

LEMMA QuietKeeps ==
  ASSUME ChatInv, UNCHANGED streamVars, phase' \in {phase, "ended"}
  PROVE  ChatInv'
<1>1. sent' = sent /\ net' = net /\ broke' = broke /\ client' = client
  BY DEF streamVars
<1>2. Relayed' = Relayed
  BY <1>1 DEF Relayed
<1>3. ChatTypes' /\ NetIs' /\ ClientIs'
  BY <1>1, <1>2 DEF ChatInv, ChatTypes, NetIs, ClientIs
<1> QED
  BY <1>1, <1>3 DEF ChatInv

LEMMA PieceKeeps ==
  ASSUME ChatInv, NEW piece \in Whole, StreamPiece(piece)
  PROVE  ChatInv'
<1> DEFINE x == <<piece>>
<1>1. /\ phase = "relaying" /\ phase' = phase /\ broke' = broke /\ client' = client
      /\ sent' = sent \o x /\ net' = net \o x
  BY DEF StreamPiece, Relay
<1>2. ~broke /\ client.status # "complete" /\ ChatTypes /\ NetIs /\ ClientIs
  BY <1>1 DEF ChatInv
<1>3. sent \in Seq(Whole) /\ sent \in Seq(Pieces) /\ net \in Seq(Pieces)
  BY <1>2 DEF ChatTypes
<1>4. x \in Seq(Whole) /\ x \in Seq(Pieces)
  BY DEF Whole, Pieces
<1> HIDE DEF x
<1>5. sent' \in Seq(Whole) /\ sent' \in Seq(Pieces) /\ net' \in Seq(Pieces)
  BY <1>1, <1>3, <1>4, ConcatProperties
<1>6. \A i \in DOMAIN sent' : sent'[i] # "E"
  BY <1>5 DEF Whole
<1>7. ChatTypes'
  BY <1>1, <1>2, <1>5, <1>6 DEF ChatTypes
<1>8. Relayed' = Relayed \o x
  BY <1>1, <1>2 DEF Relayed
<1>9. NetIs' /\ ClientIs'
  BY <1>1, <1>2, <1>4, <1>7, <1>8, NetGrows
<1>10. SaysDone(sent) => SaysDone(sent')
  BY <1>1, <1>3, <1>4, SaysDoneOn
<1>11. Doomed(sent) => Doomed(sent')
  BY <1>1, <1>3, <1>4, DoomedOn
<1> QED
  BY <1>1, <1>2, <1>7, <1>9, <1>10, <1>11 DEF ChatInv

LEMMA EndKeeps ==
  ASSUME ChatInv, StreamEnds
  PROVE  ChatInv'
<1>1. /\ phase' = "ended" /\ broke' = broke /\ client' = client
      /\ sent' = sent \o <<>> /\ net' = net \o <<>>
  BY DEF StreamEnds, Relay
<1>2. sent' = sent /\ net' = net
  BY <1>1, ConcatEmptySeq DEF ChatInv, ChatTypes
<1>3. UNCHANGED streamVars
  BY <1>1, <1>2 DEF streamVars
<1> QED
  BY <1>1, <1>3, QuietKeeps

LEMMA BreakKeeps ==
  ASSUME ChatInv, NEW rest \in {<<>>, <<"h">>, <<"p">>}, StreamBreaks(rest)
  PROVE  ChatInv'
<1> DEFINE x == rest \o StreamErrorEvent
<1>1. /\ phase = "relaying" /\ phase' = "ended" /\ broke' = TRUE /\ client' = client
      /\ sent' = sent \o rest /\ net' = net \o rest \o StreamErrorEvent
  BY DEF StreamBreaks, Relay
<1>2. ~broke /\ client.status # "complete" /\ ChatTypes /\ NetIs /\ ClientIs
  BY <1>1 DEF ChatInv
<1>3. /\ sent \in Seq(Pieces) /\ net \in Seq(Pieces)
      /\ rest \in Seq(Pieces) /\ StreamErrorEvent \in Seq(Pieces) /\ x \in Seq(Pieces)
  <2>1. rest \in Seq(Pieces) /\ StreamErrorEvent \in Seq(Pieces)
    <3>1. /\ <<>> \in Seq(Pieces) /\ <<"h">> \in Seq(Pieces) /\ <<"p">> \in Seq(Pieces)
      BY DEF Pieces
    <3>2. StreamErrorEvent \in Seq(Pieces)
      BY DEF Pieces, StreamErrorEvent
    <3>3. rest \in Seq(Pieces)
      BY ONLY <3>1, rest \in {<<>>, <<"h">>, <<"p">>}
    <3> QED
      BY <3>2, <3>3
  <2>2. x \in Seq(Pieces)
    BY <2>1, ConcatProperties
  <2> QED
    BY <1>2, <2>1, <2>2 DEF ChatTypes
<1>4. sent' \in Seq(Pieces) /\ net' = net \o x /\ net' \in Seq(Pieces)
  <2>1. net' = net \o x
    <3> DEFINE E == StreamErrorEvent
    <3>1. net \in Seq(Pieces) /\ rest \in Seq(Pieces) /\ E \in Seq(Pieces)
      BY <1>3
    <3>2. net' = (net \o rest) \o E /\ x = rest \o E
      BY <1>1
    <3> HIDE DEF E, x
    <3>3. (net \o rest) \o E = net \o (rest \o E)
      BY ONLY <3>1, ConcatAssociative
    <3> QED
      BY ONLY <3>2, <3>3
  <2> QED
    BY <1>1, <1>3, <2>1, ConcatProperties
<1>5. \A i \in DOMAIN sent' : sent'[i] # "E"
  <2>1. /\ \A i \in 1..Len(sent) : sent[i] # "E"
        /\ \A i \in 1..Len(rest) : rest[i] # "E"
    BY <1>2 DEF ChatTypes
  <2>2. /\ Len(sent') = Len(sent) + Len(rest) /\ Len(sent) \in Nat /\ Len(rest) \in Nat
        /\ \A i \in 1..Len(sent) + Len(rest) :
             sent'[i] = IF i <= Len(sent) THEN sent[i] ELSE rest[i - Len(sent)]
    BY <1>1, <1>3, ConcatProperties
  <2>3. ASSUME NEW i \in 1..Len(sent) + Len(rest) PROVE sent'[i] # "E"
    <3>1. CASE i <= Len(sent)
      <4>1. i \in 1..Len(sent)
        BY <2>2, <3>1
      <4> QED
        BY <2>1, <2>2, <3>1, <4>1
    <3>2. CASE ~(i <= Len(sent))
      <4>1. i - Len(sent) \in 1..Len(rest)
        BY <2>2, <3>2
      <4> QED
        BY <2>1, <2>2, <3>2, <4>1
    <3> QED
      BY <3>1, <3>2
  <2> QED
    BY <1>4, <2>2, <2>3
<1>6. ChatTypes'
  BY <1>1, <1>2, <1>4, <1>5 DEF ChatTypes
<1>7. Relayed' = Relayed \o x
  <2>1. Relayed' = (sent \o rest) \o StreamErrorEvent /\ Relayed = sent
    BY <1>1, <1>2 DEF Relayed
  <2> QED
    BY ONLY <1>3, <2>1, ConcatAssociative, SMTT(30) DEF x
<1> HIDE DEF x
<1>8. NetIs' /\ ClientIs'
  BY <1>1, <1>2, <1>3, <1>4, <1>6, <1>7, NetGrows
<1>9. SaysDone(sent) => SaysDone(sent')
  BY <1>1, <1>3, SaysDoneOn
<1> QED
  BY <1>1, <1>2, <1>6, <1>8, <1>9 DEF ChatInv

-----------------------------------------------------------------------------
(* The client reads.                                                       *)

(* No part of a well-formed stream is long without a blank line.           *)
LEMMA PartsAreShort ==
  ASSUME NEW t \in Seq(Whole), WellFormed(t), NEW e \in Seq(Whole), NEW off \in Nat,
         Lies(e, t, off), Clean(e)
  PROVE  Len(e) <= MaxEvent
<1> SUFFICES ASSUME ~(Len(e) <= MaxEvent) PROVE FALSE
  OBVIOUS
<1>1. MaxEvent \in Nat /\ Len(e) \in Nat /\ Len(t) \in Nat /\ off + Len(e) <= Len(t)
  BY ReplyAssumption DEF Lies
<1>2. /\ Len(e) >= 1 /\ off + 1 \in 1..Len(t) /\ off + Len(e) \in 1..Len(t)
      /\ (off + Len(e)) - (off + 1) >= MaxEvent - 3
      /\ 1 \in Nat /\ 1 >= 1 /\ 1 <= Len(e) + 1 /\ Len(e) <= Len(e)
  BY <1>1
<1>3. \A i, j \in 1..Len(t) : j - i >= MaxEvent - 3 => HasBlankLine(SubSeq(t, i, j))
  BY DEF WellFormed
<1>4. HasBlankLine(SubSeq(t, off + 1, off + Len(e)))
  BY <1>2, <1>3
<1> QED
  BY <1>1, <1>2, <1>4, PartIsClean

(* A stream that is spoilt is not well-formed.                             *)
LEMMA SpoiltIsSeen ==
  ASSUME NEW t \in Seq(Whole), Spoilt(t)
  PROVE  ~WellFormed(t)
<1>1. PICK e \in Seq(Pieces), off \in Nat :
        EventIn(e, t, off) /\ (Meaning(e) = "failure" \/ Len(e) > MaxEvent)
  BY DEF Spoilt
<1>2. Len(e) \in Nat /\ e \in Seq(Whole)
  BY <1>1, LiesIn DEF EventIn
<1>3. ASSUME WellFormed(t) PROVE FALSE
  <2>1. Meaning(e) # "failure" /\ Len(e) <= MaxEvent
    BY <1>1, <1>2, <1>3, EventsParse
  <2>2. MaxEvent \in Nat
    BY ReplyAssumption
  <2> QED
    BY <1>1, <1>2, <2>1, <2>2
<1> QED
  BY <1>3

(* A chunk of what has arrived, and what is left of it.                    *)
LEMMA RestLies ==
  ASSUME NEW t \in Seq(Pieces), NEW w \in Seq(Pieces), NEW n \in Nat, Lies(w, t, n),
         NEW size \in 1..Len(w)
  PROVE  LET c == SubSeq(w, 1, size)
             rest == SubSeq(w, size + 1, Len(w))
         IN /\ c \in Seq(Pieces) /\ Len(c) = size /\ Lies(c, t, n)
            /\ rest \in Seq(Pieces) /\ Len(rest) = Len(w) - size /\ Lies(rest, t, n + size)
<1> DEFINE c == SubSeq(w, 1, size)
           rest == SubSeq(w, size + 1, Len(w))
<1>1. /\ Len(w) \in Nat /\ size \in Nat /\ size >= 1 /\ size <= Len(w) /\ Len(t) \in Nat
      /\ n + Len(w) <= Len(t) /\ \A i \in 1..Len(w) : w[i] = t[n + i]
  BY DEF Lies
<1>2. c \in Seq(Pieces) /\ Len(c) = size /\ \A i \in 1..size : c[i] = w[i]
  <2>1. /\ 1 \in Nat /\ 1 >= 1 /\ 1 <= size + 1 /\ size - 1 + 1 = size
        /\ \A i \in 1..size : i + 1 - 1 = i
    BY <1>1
  <2> HIDE DEF c
  <2>2. /\ c \in Seq(Pieces) /\ Len(c) = size - 1 + 1
        /\ \A i \in 1..(size - 1 + 1) : c[i] = w[i + 1 - 1]
    BY <1>1, <2>1, SubSeqIs DEF c
  <2> QED
    BY <2>1, <2>2
<1>3. /\ rest \in Seq(Pieces) /\ Len(rest) = Len(w) - size
      /\ \A i \in 1..(Len(w) - size) : rest[i] = w[size + i]
  <2> DEFINE lo == size + 1
             hi == Len(w)
  <2>1. /\ lo \in Nat /\ hi \in Nat /\ lo >= 1 /\ lo <= hi + 1 /\ hi <= Len(w)
        /\ hi - lo + 1 = Len(w) - size
        /\ \A i \in 1..(Len(w) - size) : i + lo - 1 = size + i
    BY <1>1
  <2>2. rest = SubSeq(w, lo, hi)
    OBVIOUS
  <2> HIDE DEF rest, lo, hi
  <2>3. /\ rest \in Seq(Pieces) /\ Len(rest) = hi - lo + 1
        /\ \A i \in 1..(hi - lo + 1) : rest[i] = w[i + lo - 1]
    BY <2>1, <2>2, SubSeqIs
  <2> QED
    BY ONLY <2>1, <2>3
<1> HIDE DEF c, rest
<1>4. Lies(c, t, n)
  <2>1. n + size <= Len(t) /\ \A i \in 1..size : i \in 1..Len(w)
    BY <1>1
  <2> QED
    BY <1>1, <1>2, <2>1 DEF Lies
<1>5. Lies(rest, t, n + size)
  <2>1. /\ (n + size) + (Len(w) - size) <= Len(t)
        /\ \A i \in 1..(Len(w) - size) : size + i \in 1..Len(w) /\ n + (size + i) = (n + size) + i
    BY <1>1
  <2> QED
    BY <1>1, <1>3, <2>1 DEF Lies
<1> QED
  BY <1>2, <1>3, <1>4, <1>5 DEF c, rest

(* A client that has taken a chunk into its buffer.                        *)
Longer(s, c) == [s EXCEPT !.buffer = s.buffer \o c]

LEMMA ReadJoins ==
  ASSUME NEW t \in Seq(Pieces), NEW s \in ChatStates, NEW off \in Nat, Holds(s, t, off),
         NEW c \in Seq(Pieces), Lies(c, t, off + Len(s.buffer))
  PROVE  /\ Longer(s, c) \in ChatStates /\ Longer(s, c).status = s.status
         /\ Holds(Longer(s, c), t, off)
         /\ Len(Longer(s, c).buffer) = Len(s.buffer) + Len(c)
<1> DEFINE b == s.buffer
           r == Longer(s, c)
<1>1. b \in Seq(Pieces) /\ Len(b) \in Nat /\ Len(c) \in Nat
  BY DEF ChatStates
<1>2. /\ b \o c \in Seq(Pieces) /\ Len(b \o c) = Len(b) + Len(c)
      /\ \A i \in 1..Len(b) + Len(c) : (b \o c)[i] = IF i <= Len(b) THEN b[i] ELSE c[i - Len(b)]
  BY <1>1, ConcatProperties
<1>3. r.buffer = b \o c /\ r.status = s.status /\ r \in ChatStates
  <2>1. r.buffer = b \o c /\ r.status = s.status
    BY DEF ChatStates, Longer
  <2> QED
    BY <1>2, <2>1 DEF ChatStates, Longer
<1>4. /\ off + Len(b) <= Len(t) /\ \A i \in 1..Len(b) : b[i] = t[off + i]
      /\ (off + Len(b)) + Len(c) <= Len(t)
      /\ \A i \in 1..Len(c) : c[i] = t[(off + Len(b)) + i]
  BY DEF Holds, Lies
<1> HIDE DEF r, b
<1>5. Lies(b \o c, t, off)
  <2>1. off + (Len(b) + Len(c)) <= Len(t)
    BY <1>1, <1>4
  <2>2. ASSUME NEW i \in 1..Len(b) + Len(c) PROVE (b \o c)[i] = t[off + i]
    <3>1. CASE i <= Len(b)
      <4>1. i \in 1..Len(b)
        BY <1>1, <3>1
      <4> QED
        BY <1>2, <1>4, <3>1, <4>1
    <3>2. CASE ~(i <= Len(b))
      <4>1. i - Len(b) \in 1..Len(c) /\ (off + Len(b)) + (i - Len(b)) = off + i
        BY <1>1, <3>2
      <4> QED
        BY <1>2, <1>4, <3>2, <4>1
    <3> QED
      BY <3>1, <3>2
  <2> QED
    BY <1>2, <2>1, <2>2 DEF Lies
<1>6. Holds(r, t, off)
  BY <1>3, <1>5 DEF Holds
<1> QED
  BY <1>1, <1>2, <1>3, <1>6 DEF r, b

(* One chunk, in a text t of which the client has read a part.             *)
LEMMA ChunkReads ==
  ASSUME NEW t \in Seq(Pieces), ErrorsApart(t), NEW s \in ChatStates, s.status = "reading",
         NEW off \in Nat, Holds(s, t, off),
         NEW c \in Seq(Pieces), Lies(c, t, off + Len(s.buffer))
  PROVE  LET u == ProcessCompleteEvents[Longer(s, c)]
         IN u \in ChatStates /\ Leaves(u, t, off + (Len(s.buffer) + Len(c)))
<1> DEFINE r == Longer(s, c)
<1>1. /\ r \in ChatStates /\ r.status = s.status /\ Holds(r, t, off)
      /\ Len(r.buffer) = Len(s.buffer) + Len(c)
  BY ReadJoins
<1> HIDE DEF r
<1>2. /\ ProcessCompleteEvents[r] \in ChatStates
      /\ Leaves(ProcessCompleteEvents[r], t, off + Len(r.buffer))
  BY <1>1, LoopReads
<1> QED
  BY <1>1, <1>2 DEF r

LEMMA WholeIsText == \A t \in Seq(Whole) : t \in Seq(Pieces) /\ ErrorsApart(t)
<1> SUFFICES ASSUME NEW t \in Seq(Whole) PROVE t \in Seq(Pieces) /\ ErrorsApart(t)
  OBVIOUS
<1>1. \A i \in 1..Len(t) : t[i] \in Whole
  OBVIOUS
<1>2. t \in Seq(Pieces)
  <2>1. Whole \subseteq Pieces
    BY DEF Whole, Pieces
  <2>2. Len(t) \in Nat /\ t \in [1..Len(t) -> Pieces]
    BY <1>1, <2>1
  <2> QED
    BY <2>2, SeqDef
<1> QED
  BY <1>1, <1>2 DEF ErrorsApart, Whole

(* An event that is too long for the client.                               *)
TooLong(t) ==
  \E e \in Seq(Pieces), off \in Nat : Lies(e, t, off) /\ Clean(e) /\ Len(e) > MaxEvent

LEMMA TooLongIsSeen ==
  ASSUME NEW t \in Seq(Whole), TooLong(t)
  PROVE  ~WellFormed(t)
<1>1. PICK e \in Seq(Pieces), off \in Nat : Lies(e, t, off) /\ Clean(e) /\ Len(e) > MaxEvent
  BY DEF TooLong
<1>2. Len(e) \in Nat /\ e \in Seq(Whole)
  BY <1>1, LiesIn
<1>3. MaxEvent \in Nat
  BY ReplyAssumption
<1> QED
  BY <1>1, <1>2, <1>3, PartsAreShort

(* What a client may be after it has read the first n pieces of a text.    *)
ReadsTo(a, t, n) ==
  /\ a \in ChatStates
  /\ \/ a.status = "failed" /\ a.buffer = <<>> /\ (Spoilt(t) \/ TooLong(t))
     \/ a.status = "done" /\ a.buffer = <<>> /\ SaysDone(t)
     \/ /\ a.status = "reading" /\ Clean(a.buffer) /\ Len(a.buffer) <= MaxEvent
        /\ \E o \in Nat : Holds(a, t, o) /\ o + Len(a.buffer) = n

LEMMA AfterReads ==
  ASSUME NEW t \in Seq(Pieces), ErrorsApart(t), NEW s \in ChatStates, s.status = "reading",
         NEW off \in Nat, Holds(s, t, off),
         NEW c \in Seq(Pieces), Lies(c, t, off + Len(s.buffer))
  PROVE  ReadsTo(AfterChunk(s, c), t, off + (Len(s.buffer) + Len(c)))
<1> DEFINE u == ProcessCompleteEvents[Longer(s, c)]
           n == off + (Len(s.buffer) + Len(c))
           lost == [buffer |-> <<>>, status |-> "failed"]
<1>1. u \in ChatStates /\ Leaves(u, t, n)
  BY ChunkReads
<1>2. AfterChunk(s, c) = IF Len(u.buffer) > MaxEvent THEN lost ELSE u
  BY DEF AfterChunk, Longer
<1> HIDE DEF u, n
<1>3. MaxEvent \in Nat /\ u.buffer \in Seq(Pieces) /\ Len(u.buffer) \in Nat
  BY <1>1, ReplyAssumption DEF ChatStates
<1>4. lost \in ChatStates /\ lost.status = "failed" /\ lost.buffer = <<>>
  BY DEF ChatStates
<1> HIDE DEF lost
<1>5. CASE Len(u.buffer) > MaxEvent
  <2>1. u.buffer # <<>>
    BY <1>3, <1>5
  <2>2. PICK o \in Nat : Holds(u, t, o) /\ Clean(u.buffer)
    BY <1>1, <2>1 DEF Leaves
  <2>3. TooLong(t)
    BY <1>3, <1>5, <2>2 DEF TooLong, Holds
  <2> QED
    BY <1>2, <1>4, <1>5, <2>3 DEF ReadsTo
<1>6. CASE ~(Len(u.buffer) > MaxEvent)
  <2>1. AfterChunk(s, c) = u /\ Len(u.buffer) <= MaxEvent
    BY <1>2, <1>3, <1>6
  <2> QED
    BY <1>1, <2>1 DEF Leaves, ReadsTo, n
<1> QED
  BY <1>5, <1>6

LEMMA ReadsKeep ==
  ASSUME ChatInv, NEW size \in 1..Len(net), ClientReads(size)
  PROVE  ChatInv'
<1> DEFINE c == SubSeq(net, 1, size)
           rest == SubSeq(net, size + 1, Len(net))
           t == Relayed
<1>1. /\ client.status \in {"reading", "done"} /\ client' = AfterChunk(client, c) /\ net' = rest
      /\ phase' = phase /\ sent' = sent /\ broke' = broke
  BY DEF ClientReads
<1>2. ChatTypes /\ NetIs /\ ClientIs
  BY DEF ChatInv
<1>3. t \in Seq(Pieces) /\ ErrorsApart(t) /\ Len(t) \in Nat
  BY <1>2, ErrorsAre
<1>4. net \in Seq(Pieces) /\ Len(net) \in Nat /\ size \in Nat /\ size <= Len(net)
  BY <1>2 DEF ChatTypes
<1>5. PICK n \in 0..Len(t) : Lies(net, t, n) /\ n + Len(net) = Len(t)
  BY <1>2 DEF NetIs
<1>6. client \in ChatStates /\ client.buffer \in Seq(Pieces) /\ Len(client.buffer) \in Nat
  BY <1>1, <1>2 DEF ChatTypes, ChatStates
<1>7. Relayed' = t
  BY <1>1 DEF Relayed
<1> HIDE DEF t
<1>8. /\ c \in Seq(Pieces) /\ Len(c) = size /\ Lies(c, t, n)
      /\ rest \in Seq(Pieces) /\ Len(rest) = Len(net) - size /\ Lies(rest, t, n + size)
  <2>1. n \in Nat
    BY <1>3, <1>5
  <2> QED
    BY <1>3, <1>4, <1>5, <2>1, RestLies
<1> HIDE DEF c, rest
<1>9. NetIs'
  <2> DEFINE L == Len(t)
             m == Len(net)
             k == Len(rest)
  <2>1. /\ L \in Nat /\ n \in 0..L /\ m \in Nat /\ size \in Nat /\ size <= m
        /\ n + m = L /\ k = m - size
    BY <1>3, <1>4, <1>5, <1>8
  <2> HIDE DEF L, m, k
  <2>2. n + size \in 0..L /\ (n + size) + k = L
    BY ONLY <2>1
  <2>3. n + size \in 0..Len(t) /\ (n + size) + Len(rest) = Len(t)
    BY <2>2 DEF L, k
  <2> QED
    BY <1>1, <1>7, <1>8, <2>3 DEF NetIs
<1>10. CASE client.status = "done"
  <2>1. client' = client
    BY <1>1, <1>10 DEF AfterChunk
  <2>2. ChatTypes'
    BY <1>1, <1>2, <1>8, <2>1 DEF ChatTypes
  <2>3. ClientIs'
    BY <1>10, <2>1 DEF ClientIs
  <2> QED
    BY <1>1, <1>9, <1>10, <2>1, <2>2, <2>3 DEF ChatInv
<1>11. CASE client.status = "reading"
  <2>1. PICK off \in 0..Len(t) :
          Holds(client, t, off) /\ off + Len(client.buffer) + Len(net) = Len(t)
    BY <1>2, <1>11 DEF ClientIs, t
  <2> DEFINE L == Len(t)
             m == Len(net)
             h == Len(client.buffer)
  <2>2. off \in Nat /\ off + h = n
    <3>1. /\ L \in Nat /\ n \in 0..L /\ m \in Nat /\ h \in Nat /\ n + m = L
          /\ off \in 0..L /\ off + h + m = L
      BY <1>3, <1>4, <1>5, <1>6, <2>1
    <3> HIDE DEF L, m, h
    <3> QED
      BY ONLY <3>1
  <2>3. Lies(c, t, off + Len(client.buffer))
    BY <1>8, <2>2
  <2>4. ReadsTo(client', t, off + (Len(client.buffer) + Len(c)))
    BY <1>1, <1>3, <1>6, <1>8, <1>11, <2>1, <2>2, <2>3, AfterReads
  <2>5. /\ client' \in ChatStates
        /\ \/ client'.status = "failed" /\ client'.buffer = <<>>
           \/ client'.status = "done" /\ client'.buffer = <<>> /\ SaysDone(t)
           \/ /\ client'.status = "reading"
              /\ Clean(client'.buffer) /\ Len(client'.buffer) <= MaxEvent
              /\ \E o \in Nat : /\ Holds(client', t, o)
                                /\ o + Len(client'.buffer) = off + (Len(client.buffer) + Len(c))
    BY <2>4 DEF ReadsTo
  <2>6. ChatTypes'
    BY <1>1, <1>2, <1>8, <2>5 DEF ChatTypes, ChatStates
  <2>7. ClientIs'
    <3> SUFFICES ASSUME client'.status = "reading"
                 PROVE  /\ Clean(client'.buffer) /\ Len(client'.buffer) <= MaxEvent
                        /\ \E o \in 0..Len(t) :
                             /\ Holds(client', t, o)
                             /\ o + Len(client'.buffer) + Len(net') = Len(t)
      BY <1>7 DEF ClientIs
    <3>1. PICK o \in Nat : /\ Holds(client', t, o)
                           /\ o + Len(client'.buffer) = off + (Len(client.buffer) + Len(c))
      BY <2>5
    <3>2. Len(client'.buffer) \in Nat /\ Len(net') = Len(net) - size
      BY <1>1, <1>8, <2>5 DEF ChatStates
    <3>3. o \in 0..Len(t) /\ o + Len(client'.buffer) + Len(net') = Len(t)
      <4> DEFINE k == Len(client'.buffer)
                 gap == Len(net')
                 q == Len(c)
      <4>1. /\ L \in Nat /\ n \in 0..L /\ m \in Nat /\ h \in Nat /\ n + m = L
            /\ off \in Nat /\ off + h = n /\ size \in Nat /\ size <= m
            /\ k \in Nat /\ gap = m - size /\ q = size /\ o \in Nat /\ o + k = off + (h + q)
        BY <1>3, <1>4, <1>5, <1>6, <1>8, <2>2, <3>1, <3>2
      <4> HIDE DEF L, m, h, k, gap, q
      <4>2. o \in 0..L /\ o + k + gap = L
        BY ONLY <4>1
      <4> QED
        BY <4>2 DEF L, k, gap
    <3> QED
      BY <2>5, <3>1, <3>3
  <2>8. SaysDone(t) => SaysDone(sent)
    BY <1>2, DoneIsSent DEF t, Relayed, ChatTypes
  <2>9. ASSUME client'.status = "failed", ~broke PROVE Doomed(sent)
    <3> SUFFICES ASSUME NEW x \in Seq(Whole) PROVE ~WellFormed(sent \o x)
      BY DEF Doomed
    <3> DEFINE T == sent \o x
    <3>1. sent = t /\ sent \in Seq(Whole)
      BY <1>2, <2>9 DEF ChatTypes, t, Relayed
    <3>2. T \in Seq(Whole) /\ T \in Seq(Pieces) /\ ErrorsApart(T) /\ x \in Seq(Pieces)
      BY <3>1, ConcatProperties, WholeIsText
    <3>3. T = t \o x
      BY <3>1
    <3> HIDE DEF T
    <3>4. Holds(client, T, off)
      BY <1>3, <1>6, <2>1, <2>2, <3>2, <3>3, HoldsOn
    <3>5. Lies(c, T, off + Len(client.buffer))
      <4>1. off + Len(client.buffer) \in Nat
        BY <1>6, <2>2
      <4> QED
        BY <1>3, <1>8, <2>3, <3>2, <3>3, <4>1, LiesOn
    <3>6. Spoilt(T) \/ TooLong(T)
      <4>1. ReadsTo(client', T, off + (Len(client.buffer) + Len(c)))
        BY <1>1, <1>6, <1>8, <1>11, <2>2, <3>2, <3>4, <3>5, AfterReads
      <4> QED
        BY <2>9, <4>1 DEF ReadsTo
    <3> QED
      BY <3>2, <3>6, SpoiltIsSeen, TooLongIsSeen DEF T
  <2>10. /\ client'.status # "reading" => client'.buffer = <<>>
         /\ client'.status = "done" => SaysDone(sent)
         /\ client'.status # "complete"
    BY <2>5, <2>8
  <2> QED
    <3>1. phase # "ended" => ~broke
      BY DEF ChatInv
    <3>2. client'.status = "failed" /\ ~broke => Doomed(sent)
      BY <2>9
    <3>3. /\ phase' = phase /\ sent' = sent /\ broke' = broke
          /\ ChatTypes' /\ NetIs' /\ ClientIs'
      BY <1>1, <1>9, <2>6, <2>7
    <3> QED
      BY ONLY <2>10, <3>1, <3>2, <3>3 DEF ChatInv
<1> QED
  BY <1>1, <1>10, <1>11

(* The event of a stream that broke off ends the text.                     *)
LEMMA BrokenEnds ==
  ASSUME NEW u \in Seq(Pieces), NEW r \in Seq(Pieces), r = u \o StreamErrorEvent
  PROVE  /\ Len(r) = Len(u) + 7 /\ Len(u) \in Nat
         /\ r[Len(u) + 3] = "E" /\ r[Len(u) + 6] = "n" /\ r[Len(u) + 7] = "n"
<1> DEFINE x == StreamErrorEvent
<1>1. /\ x \in Seq(Pieces) /\ Len(x) = 7 /\ x[3] = "E" /\ x[6] = "n" /\ x[7] = "n"
  BY DEF StreamErrorEvent, Pieces
<1> HIDE DEF x
<1>2. /\ Len(u \o x) = Len(u) + Len(x) /\ Len(u) \in Nat
      /\ \A i \in 1..Len(x) : (u \o x)[Len(u) + i] = x[i]
  <2>1. /\ u \o x \in Seq(Pieces) /\ Len(u \o x) = Len(u) + Len(x)
        /\ Len(u) \in Nat /\ Len(x) \in Nat
        /\ \A i \in 1..Len(u) : (u \o x)[i] = u[i] /\ i \in 1..Len(u \o x)
        /\ \A i \in 1..Len(x) : (u \o x)[Len(u) + i] = x[i] /\ Len(u) + i \in 1..Len(u \o x)
    BY <1>1, Joined
  <2> QED
    BY ONLY <2>1
<1>3. r = u \o x
  BY DEF x
<1> QED
  BY ONLY <1>1, <1>2, <1>3

LEMMA BrokenIsNotRead ==
  ASSUME ChatInv, net = <<>>, client.status = "reading"
  PROVE  ~broke
<1> SUFFICES ASSUME broke PROVE FALSE
  OBVIOUS
<1> DEFINE b == client.buffer
           t == Relayed
           L == Len(sent)
<1>1. ChatTypes /\ sent \in Seq(Pieces) /\ b \in Seq(Pieces) /\ Len(b) \in Nat /\ Len(net) = 0
  BY DEF ChatInv, ChatTypes
<1>2. t \in Seq(Pieces) /\ t = sent \o StreamErrorEvent
  BY <1>1, ErrorsAre DEF Relayed
<1>3. /\ Clean(b)
      /\ \E off \in 0..Len(t) : Holds(client, t, off) /\ off + Len(b) + Len(net) = Len(t)
  BY DEF ChatInv, ClientIs
<1> HIDE DEF t, b
<1>4. /\ Len(t) = L + 7 /\ L \in Nat
      /\ t[L + 3] = "E" /\ t[L + 6] = "n" /\ t[L + 7] = "n"
  <2>1. /\ sent \in Seq(Pieces) /\ t \in Seq(Pieces) /\ t = sent \o StreamErrorEvent
    BY <1>1, <1>2
  <2>2. /\ Len(t) = Len(sent) + 7 /\ Len(sent) \in Nat
        /\ t[Len(sent) + 3] = "E" /\ t[Len(sent) + 6] = "n" /\ t[Len(sent) + 7] = "n"
    BY ONLY <2>1, BrokenEnds
  <2> QED
    BY ONLY <2>2 DEF L
<1> HIDE DEF L
<1>5. PICK off \in 0..Len(t) : Holds(client, t, off) /\ off + Len(b) + Len(net) = Len(t)
  BY <1>3
<1>6. off \in Nat /\ (\A p \in 1..off : t[p] # "E") /\ \A i \in 1..Len(b) : b[i] = t[off + i]
  BY <1>4, <1>5 DEF Holds, Lies, b
<1>7. off < L + 3
  BY <1>4, <1>6
<1>8. /\ off + Len(b) = L + 7
      /\ Len(b) \in 2..Len(b) /\ Len(b) \in 1..Len(b) /\ Len(b) - 1 \in 1..Len(b)
      /\ off + (Len(b) - 1) = L + 6
  BY <1>1, <1>4, <1>5, <1>6, <1>7
<1>9. b[Len(b)] = "n" /\ b[Len(b) - 1] = "n"
  BY <1>4, <1>6, <1>8
<1>10. EndsAt(b, Len(b))
  BY <1>8, <1>9 DEF EndsAt
<1> QED
  BY <1>3, <1>8, <1>10 DEF Clean

LEMMA ReadsEndKeeps ==
  ASSUME ChatInv, ClientReadsEnd
  PROVE  ChatInv'
<1>1. /\ client.status \in {"reading", "done"} /\ phase = "ended" /\ net = <<>>
      /\ client' = [buffer |-> <<>>, status |-> AfterEnd(client)]
      /\ phase' = phase /\ sent' = sent /\ broke' = broke /\ net' = net
  BY DEF ClientReadsEnd
<1>2. ChatTypes /\ NetIs /\ ClientIs
  BY DEF ChatInv
<1>3. client'.buffer = <<>> /\ client'.status = AfterEnd(client)
      /\ client'.status \in {"failed", "complete"}
  BY <1>1 DEF AfterEnd
<1>4. ChatTypes'
  <2>1. client' \in [buffer : Seq(Pieces), status : {"reading", "done", "failed", "complete"}]
    <3>1. <<>> \in Seq(Pieces) /\ AfterEnd(client) \in {"failed", "complete"}
      BY <1>1, <1>3 DEF AfterEnd
    <3> QED
      BY <1>1, <3>1
  <2> QED
    BY <1>1, <1>2, <2>1 DEF ChatTypes
<1>5. Relayed' = Relayed
  BY <1>1 DEF Relayed
<1>6. NetIs' /\ ClientIs'
  BY <1>1, <1>2, <1>3, <1>5 DEF NetIs, ClientIs
<1>7. client'.status = "complete" /\ broke => SaysDone(sent)
  BY <1>1, BrokenIsNotRead DEF ChatInv
<1>8. ASSUME client'.status = "failed", ~broke PROVE ~WellFormed(sent)
  <2> DEFINE b == client.buffer
  <2>1. client.status = "reading" /\ Meaning(b) = "failure"
    BY <1>3, <1>8 DEF AfterEnd
  <2>2. Relayed = sent /\ sent \in Seq(Whole) /\ b \in Seq(Pieces) /\ Len(b) \in Nat /\ Len(net) = 0
        /\ Len(sent) \in Nat
    BY <1>1, <1>2, <1>8 DEF Relayed, ChatTypes
  <2>3. PICK off \in 0..Len(sent) : Holds(client, sent, off) /\ off + Len(b) + Len(net) = Len(sent)
    BY <1>2, <2>1, <2>2 DEF ClientIs
  <2>4. Clean(b)
    BY <1>2, <2>1 DEF ClientIs
  <2>5. off \in Nat /\ off + Len(b) = Len(sent) /\ \A i \in 1..Len(b) : off + i \in 1..Len(sent)
    BY <2>2, <2>3
  <2>6. /\ Lies(b, sent, off) /\ (off = 0 \/ sent[off] = "n")
        /\ \A i \in 1..Len(b) : b[i] = sent[off + i]
    BY <2>3 DEF Holds, Lies
  <2> HIDE DEF b
  <2>7. b \in Seq(Whole)
    BY <2>2, <2>5, <2>6, LiesIn
  <2>8. EventIn(b, sent, off)
    BY <2>4, <2>5, <2>6 DEF EventIn
  <2> QED
    BY <2>1, <2>2, <2>5, <2>7, <2>8, EventsParse
<1> QED
  BY <1>1, <1>3, <1>4, <1>6, <1>7, <1>8 DEF ChatInv

LEMMA ChatStarts == RepliesInit => ChatInv
<1> SUFFICES ASSUME RepliesInit PROVE ChatInv
  OBVIOUS
<1>1. /\ sent = <<>> /\ net = <<>> /\ broke = FALSE
      /\ client = [buffer |-> <<>>, status |-> "reading"]
  BY DEF RepliesInit
<1>2. Relayed = <<>> /\ client.buffer = <<>> /\ client.status = "reading"
  BY <1>1 DEF Relayed
<1>3. <<>> \in Seq(Pieces) /\ <<>> \in Seq(Whole) /\ Len(<<>>) = 0 /\ DOMAIN <<>> = {}
  OBVIOUS
<1>4. ChatTypes
  BY <1>1, <1>3 DEF ChatTypes
<1>5. Clean(<<>>) /\ Lies(<<>>, <<>>, 0)
  BY <1>3 DEF Clean, EndsAt, Lies
<1>6. NetIs
  BY <1>1, <1>2, <1>3, <1>5 DEF NetIs
<1>7. ClientIs
  <2>1. Holds(client, Relayed, 0) /\ 0 \in 0..Len(Relayed)
    BY <1>2, <1>3, <1>5 DEF Holds
  <2>2. 0 + Len(client.buffer) + Len(net) = Len(Relayed) /\ Len(client.buffer) <= MaxEvent
    BY <1>1, <1>2, <1>3, ReplyAssumption
  <2> QED
    BY <1>2, <1>5, <2>1, <2>2 DEF ClientIs
<1> QED
  BY <1>1, <1>2, <1>4, <1>6, <1>7 DEF ChatInv

LEMMA ChatStep == ChatInv /\ [RepliesNext]_repliesVars => ChatInv'
<1> SUFFICES ASSUME ChatInv, [RepliesNext]_repliesVars PROVE ChatInv'
  OBVIOUS
<1>1. ASSUME NEW size \in 1..(MaxErrorBody + 1), ErrorChunk(size) \/ ErrorOversized(size)
      PROVE  ChatInv'
  BY <1>1, QuietKeeps DEF ErrorChunk, ErrorOversized, AnswersClient
<1>2. CASE ErrorReadFails
  BY <1>2, QuietKeeps DEF ErrorReadFails, AnswersClient
<1>3. CASE ErrorBodyEnds
  BY <1>3, QuietKeeps DEF ErrorBodyEnds, AnswersClient
<1>4. CASE ClientLeaves
  BY <1>4, QuietKeeps DEF ClientLeaves
<1>5. ASSUME NEW piece \in {"r", "n", "d", "D"}, StreamPiece(piece) PROVE ChatInv'
  BY <1>5, PieceKeeps DEF Whole
<1>6. CASE StreamEnds
  BY <1>6, EndKeeps
<1>7. ASSUME NEW rest \in {<<>>, <<"h">>, <<"p">>}, StreamBreaks(rest) PROVE ChatInv'
  BY <1>7, BreakKeeps
<1>8. ASSUME NEW size \in 1..Len(net), ClientReads(size) PROVE ChatInv'
  BY <1>8, ReadsKeep
<1>9. CASE ClientReadsEnd
  BY <1>9, ReadsEndKeeps
<1>10. CASE UNCHANGED repliesVars
  BY <1>10, QuietKeeps DEF repliesVars, streamVars
<1> QED
  BY <1>1, <1>2, <1>3, <1>4, <1>5, <1>6, <1>7, <1>8, <1>9, <1>10 DEF RepliesNext

(* A stream that broke off never looks complete to the demo chat unless    *)
(* its [DONE] had arrived, a well-formed one never looks broken, and the   *)
(* chat holds no more than an event of it (demo-chat-transport.ts), for    *)
(* every stream, every division into chunks and every bound.               *)
THEOREM BrokenIsSeen == RepliesSpec => []FailureIsSeen
<1>1. RepliesInit => ChatInv
  BY ChatStarts
<1>2. ChatInv /\ [RepliesNext]_repliesVars => ChatInv'
  BY ChatStep
<1>3. ChatInv => FailureIsSeen
  BY ChatInvGives
<1> QED
  BY <1>1, <1>2, <1>3, PTL DEF RepliesSpec

=============================================================================
