--------------------------- MODULE CredentialPages ---------------------------
(***************************************************************************)
(* The pages on which a secret is shown once: the personal API keys, the   *)
(* temporary passwords of the administrator and the token of the demo.     *)
(* Each button runs one call of a server function and then has the router  *)
(* load the lists again; calls and reloads can be lost, and other tabs     *)
(* change the same data meanwhile.                                         *)
(*                                                                         *)
(* Secrets are numbered as they are issued; 0 is none.  The rights of the  *)
(* caller and the rows behind a call are the subject of Accounts.          *)
(***************************************************************************)
EXTENDS Ranks, Functions

CONSTANTS MaxSecrets,   \* bound on the secrets that are issued
          MaxChanges,   \* bound on the changes of the server's data
          Listings,     \* what /v1/models may list: sequences of ids
          MaxModels     \* MAX_MODELS

ASSUME PagesAssumption == {MaxSecrets, MaxChanges, MaxModels} \subseteq Nat

ASSUME ListingsAssumption == Listings \subseteq Seq(STRING)

VARIABLES page,        \* the page that is mounted
          submission,  \* useSubmission() of the page
          run,         \* the operation its button started
          secret,      \* newKey, temporaryPassword or credential
          list,        \* what the loader of the page last returned
          discovery,   \* state of ApiCredentialOnboarding
          fetches,     \* model discoveries under way
          models,      \* models of PublicDemoPage
          server,      \* the data behind the pages
          given,       \* history: secrets that reached this page, not dismissed
          owed         \* history: the version after this page's last change

vars == <<page, submission, run, secret, list, discovery, fetches, models, server, given, owed>>

onboarding == <<discovery, fetches>>

Pages == {"keys", "members", "demo"}

Operations ==
  [keys |-> {"create", "revoke"}, members |-> {"issue", "disable"}, demo |-> {"start"}]

NoRun == [step |-> "none", operation |-> "none", argument |-> 0, secret |-> 0]
FreshSubmission == [pendingRuns |-> 0, isSubmitting |-> FALSE, busyLabel |-> "none", error |-> "none"]
NoDiscovery == [status |-> "none", modelIds |-> <<>>, of |-> 0]
NoModels == [modelIds |-> <<>>, of |-> 0]

Init ==
  /\ page \in Pages
  /\ submission = FreshSubmission /\ run = NoRun
  /\ secret = 0 /\ discovery = NoDiscovery /\ fetches = {} /\ models = NoModels
  /\ server = [issued |-> 0, keys |-> {}, password |-> 0, disabled |-> FALSE, version |-> 0]
  /\ list = server
  /\ given = {} /\ owed = 0

-----------------------------------------------------------------------------
(* useSubmission *)

Started(label) ==
  submission' = [pendingRuns |-> submission.pendingRuns + 1, isSubmitting |-> TRUE,
                 busyLabel |-> label, error |-> "none"]

(* The operation ends with an error of its own, or with none. *)
Settled(error) ==
  LET pending == submission.pendingRuns - 1
  IN submission' =
       [pendingRuns |-> pending,
        isSubmitting |-> submission.isSubmitting /\ pending # 0,
        busyLabel |-> IF pending = 0 THEN "none" ELSE submission.busyLabel,
        error |-> IF error = "none" THEN submission.error ELSE error]

-----------------------------------------------------------------------------
(* The buttons. *)

(* Mutant: a key is created while another is on display. *)
CreateEnabledAlways == TRUE

CreateEnabled == secret = 0

Enabled(operation, argument) ==
  /\ operation \in Operations[page]
  /\ ~submission.isSubmitting
  /\ CASE operation = "create" -> CreateEnabled /\ argument = 0
       [] operation = "revoke" -> argument \in list.keys
       [] operation = "issue" -> ~list.disabled /\ argument = 0
       [] operation = "disable" -> argument = IF list.disabled THEN 0 ELSE 1
       [] operation = "start" -> secret = 0 /\ argument = 0

Click(operation, argument) ==
  /\ Enabled(operation, argument)
  /\ Started(operation)
  /\ run' = [step |-> "calling", operation |-> operation, argument |-> argument, secret |-> 0]
  /\ models' = IF operation = "start" THEN NoModels ELSE models
  /\ UNCHANGED <<page, secret, list, server, given, owed>> /\ UNCHANGED onboarding

-----------------------------------------------------------------------------
(* The server functions. *)

Issue(s) == [s EXCEPT !.issued = @ + 1, !.version = @ + 1]

Performed(operation, argument) ==
  CASE operation = "create" -> [Issue(server) EXCEPT !.keys = @ \union {server.issued + 1}]
    [] operation = "revoke" -> [server EXCEPT !.keys = @ \ {argument}, !.version = @ + 1]
    [] operation = "issue" -> [Issue(server) EXCEPT !.password = server.issued + 1]
    [] operation = "disable" -> [server EXCEPT !.disabled = (argument = 1), !.version = @ + 1]
    [] operation = "start" -> Issue(server)

Issues == {"create", "issue", "start"}

Bounded(operation) ==
  /\ server.version < MaxChanges
  /\ operation \in Issues => server.issued < MaxSecrets

(* runMutation(): the operation is done and its result is on its way. *)
CallPerformed ==
  /\ run.step = "calling" /\ Bounded(run.operation)
  /\ run.operation = "issue" => ~server.disabled
  /\ server' = Performed(run.operation, run.argument)
  /\ run' = [run EXCEPT !.step = "performed",
                         !.secret = IF run.operation \in Issues THEN server.issued + 1 ELSE 0]
  /\ owed' = server'.version
  /\ UNCHANGED <<page, submission, secret, list, models, given>> /\ UNCHANGED onboarding

(* It is declined, or throws: a result that is not ok. *)
CallDeclined ==
  /\ run.step = "calling"
  /\ run' = [run EXCEPT !.step = "declined"]
  /\ UNCHANGED <<page, submission, secret, list, models, server, given, owed>> /\ UNCHANGED onboarding

(* Another tab, or another administrator of the data. *)
Elsewhere(operation, argument) ==
  /\ Bounded(operation) /\ operation # "start"
  /\ operation = "revoke" => argument \in server.keys
  /\ operation = "issue" => ~server.disabled
  /\ operation = "disable" => (argument = 1) # server.disabled
  /\ server' = Performed(operation, argument)
  /\ UNCHANGED <<page, submission, run, secret, list, models, given, owed>> /\ UNCHANGED onboarding

-----------------------------------------------------------------------------
(* The results of a run. *)

EndsWith(error) == Settled(error) /\ run' = NoRun

(* The call rejects: the authorization fails, or the connection, before    *)
(* the operation or after it.                                              *)
CallRejects ==
  /\ run.step \in {"calling", "performed", "declined"}
  /\ EndsWith("failed")
  /\ UNCHANGED <<page, secret, list, models, server, given, owed>> /\ UNCHANGED onboarding

ResultNotOk ==
  /\ run.step = "declined"
  /\ EndsWith("failed")
  /\ UNCHANGED <<page, secret, list, models, server, given, owed>> /\ UNCHANGED onboarding

(* The effect of ApiCredentialOnboarding: on mount, and for every attempt. *)
Aborted(fs) == {[f EXCEPT !.aborted = TRUE] : f \in fs}

Discover(key) ==
  /\ discovery' = [status |-> "loading", modelIds |-> <<>>, of |-> key]
  /\ fetches' = Aborted(fetches) \union {[of |-> key, aborted |-> FALSE]}

ResultOk ==
  /\ run.step = "performed"
  /\ secret' = IF run.operation \in Issues THEN run.secret ELSE secret
  /\ given' = given \union IF run.operation \in Issues THEN {run.secret} ELSE {}
  /\ IF run.operation \in {"create", "start"} THEN Discover(run.secret) ELSE UNCHANGED onboarding
  /\ IF run.operation = "start" THEN EndsWith("none")
     ELSE run' = [run EXCEPT !.step = "refreshing"] /\ UNCHANGED submission
  /\ UNCHANGED <<page, list, models, server, owed>>

(* await router.invalidate() *)
Refreshed ==
  /\ run.step = "refreshing"
  /\ list' = server
  /\ EndsWith("none")
  /\ UNCHANGED <<page, secret, models, server, given, owed>> /\ UNCHANGED onboarding

(* Mutant: the failure is caught and forgotten. *)
RefreshErrorForgotten(operation) == IF operation = "create" THEN "none" ELSE "failed"

(* The creation of a key says that it was created, the others that they    *)
(* failed.                                                                 *)
RefreshError(operation) == IF operation = "create" THEN "not_refreshed" ELSE "failed"

RefreshFails ==
  /\ run.step = "refreshing"
  /\ EndsWith(RefreshError(run.operation))
  /\ UNCHANGED <<page, secret, list, models, server, given, owed>> /\ UNCHANGED onboarding

-----------------------------------------------------------------------------
(* The panel of a key. *)

(* discoverOpenAiModelIds(): the first MAX_MODELS ids of a listing that    *)
(* are not too long, each once.  An empty listing stands for every response *)
(* without one: refused, cut off, too long or not JSON; <<>> for an error.  *)
ModelIds(listing) ==
  LET usable == {i \in DOMAIN listing :
                    listing[i] # "bad" /\ \A j \in 1..(i - 1) : listing[j] # listing[i]}
      ids == At(listing, usable)
  IN SubSeq(ids, 1, IF Len(ids) < MaxModels THEN Len(ids) ELSE MaxModels)

(* Mutant: a discovery that was given up is heard. *)
HeardLate(f) == TRUE

Heard(f) == ~f.aborted

DiscoveryAnswers(f, listing) ==
  /\ f \in fetches
  /\ fetches' = fetches \ {f}
  /\ LET ids == ModelIds(listing)
     IN IF Heard(f)
          THEN /\ discovery' = [status |-> IF ids = <<>> THEN "failed" ELSE "ready",
                                 modelIds |-> ids, of |-> f.of]
               /\ models' = IF page = "demo" /\ ids # <<>>
                              THEN [modelIds |-> ids, of |-> f.of] ELSE models
          ELSE UNCHANGED <<discovery, models>>
  /\ UNCHANGED <<page, submission, run, secret, list, server, given, owed>>

Retry ==
  /\ discovery.status = "failed"
  /\ Discover(secret)
  /\ UNCHANGED <<page, submission, run, secret, list, models, server, given, owed>>

Dismiss ==
  /\ secret # 0
  /\ secret' = 0 /\ given' = {}
  /\ discovery' = NoDiscovery /\ fetches' = Aborted(fetches)
  /\ models' = NoModels
  /\ UNCHANGED <<page, submission, run, list, server, owed>>

(* The router loads the list again for a run of a page that was left.      *)
Reloaded ==
  /\ list' = server
  /\ UNCHANGED <<page, submission, run, secret, models, server, given, owed>>
  /\ UNCHANGED onboarding

(* The loader of the page that is entered reads its data.  What a run of   *)
(* the page that is left still does is like a change from elsewhere.       *)
Visit(p) ==
  /\ page' = p
  /\ submission' = FreshSubmission /\ run' = NoRun
  /\ secret' = 0 /\ given' = {} /\ owed' = 0
  /\ discovery' = NoDiscovery /\ fetches' = Aborted(fetches)
  /\ models' = NoModels
  /\ list' = server
  /\ UNCHANGED server

Next ==
  \/ \E operation \in UNION {Operations[p] : p \in Pages}, argument \in 0..MaxSecrets :
       Click(operation, argument) \/ Elsewhere(operation, argument)
  \/ CallPerformed \/ CallDeclined \/ CallRejects
  \/ ResultNotOk \/ ResultOk \/ Refreshed \/ RefreshFails
  \/ \E f \in fetches, listing \in Listings : DiscoveryAnswers(f, listing)
  \/ Retry \/ Dismiss \/ Reloaded
  \/ \E p \in Pages : Visit(p)

Spec == Init /\ [][Next]_vars

-----------------------------------------------------------------------------
(* Properties. *)

(* A secret that reached its page stays on display until it is dismissed,  *)
(* whatever fails afterwards, and no other key takes its place.  On the    *)
(* administrator's page the newest temporary password replaces the last.   *)
SecretsAreShown ==
  /\ page # "members" => given = {secret} \ {0}
  /\ page = "members" /\ given # {} => secret \in given /\ \A s \in given : s <= secret

(* When nothing runs and the page shows no error, its list includes all    *)
(* that its own buttons changed, whatever was lost on the way; a button    *)
(* is busy only while its run lasts; and on the page of the keys a failure *)
(* to refresh is never told as a failure to create.                        *)
PageTellsWhatHappened ==
  /\ submission.isSubmitting <=> run # NoRun
  /\ submission.pendingRuns = (IF run = NoRun THEN 0 ELSE 1)
  /\ ~submission.isSubmitting /\ submission.error = "none" /\ page # "demo" => list.version >= owed
  /\ submission.error = "not_refreshed" => page = "keys" /\ owed > 0

(* What the panel shows is about the key on display: an answer to an       *)
(* earlier key, attempt or page changes nothing, so the chat opens with    *)
(* models of its own token and closes with it.                             *)
DiscoveryFollowsKey ==
  /\ discovery.of = (IF page = "members" THEN 0 ELSE secret)
  /\ discovery.status = "ready" <=> discovery.modelIds # <<>>
  /\ models = IF page = "demo" /\ discovery.status = "ready"
                THEN [modelIds |-> discovery.modelIds, of |-> secret] ELSE NoModels
  /\ {f \in fetches : ~f.aborted} =
       IF discovery.status = "loading" THEN {[of |-> secret, aborted |-> FALSE]} ELSE {}

(* The models on display were discovered with the key on display, and are  *)
(* some, different and not too many.                                       *)
ModelsBelongToKey ==
  /\ DiscoveryFollowsKey
  /\ IsInjective(discovery.modelIds) /\ Len(discovery.modelIds) <= MaxModels

=============================================================================
