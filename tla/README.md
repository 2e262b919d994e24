# good-enough: a TLA+ verification project

`good-enough` is a self-hosted inference gateway: a TanStack Start server that
authenticates OpenAI- and Anthropic-style requests with API keys, admits a
bounded number of generations, proxies them to a llama.cpp server on loopback,
and shows the owner of a key what happens to his requests. This directory
models the parts of it that have behaviour over time, checks the models with
TLC, and proves what matters most with TLAPS. Paths below are relative to the
repository root.

## 1. The system

### Components, their state and what makes them correct

| Component | State | Operations | Correct means | Where |
|---|---|---|---|---|
| **Generation admission** `src/features/inference-gateway/admission.ts` | `activeGenerations`, `queuedGenerations`, a FIFO of waiters per principal, the rotation `principalOrder`; per waiter a timer, an abort listener, `settled` | `acquire`, lease `release` + `dispatchNext`, timer, abort listener | limits hold; counters, queues and rotation always agree; nobody waits beside a free slot; FIFO within and round robin between principals; no starvation | `Admission`, `FairSlots` |
| **Gateway request handling** `proxy-stream.ts`, `request-lifecycle.ts`, `protocol-errors.ts`, `gateway.server.ts` | per request: where the handler waits, the abort controller, the lease, `finalized`, `firstOutputObserved`, the observer | one handler per request, `pull()` and `cancel()` of the returned body, the client's abort signal | every lease goes back once; an abort reaches the backend at any moment; outcomes blame the right party; events tell one story | `Gateway` |
| **Stream metadata observer** `metadata.ts` | text buffer, `droppingOversizedFrame`, metrics | `observe`, `finish` | what is seen does not depend on how the text was cut into chunks; the numbers at the end are those the backend reported | `SseText`, `SseFrames`, `TokenMetrics`, `Observer` |
| **Error replies and headers** `protocol-errors.ts`, `openai-errors.ts`, `anthropic-errors.ts`, `request-preparation.ts` | what was read of an error body | bounded read, fallback, error event of a stream | a client gets errors of its own protocol and request, no stale or hop-by-hop header, and notices a stream that broke off | `ProtocolErrors`, `Replies` |
| **Live event source** `src/features/live-inference-console/live-event-source.server.ts` | set of listeners per principal | `publishToPrincipal`, `subscribe`, unsubscribe | a tab hears exactly what is published while it is open | `LiveConsole` |
| **Personal event stream** `personal-event-stream.server.ts` | bounded list of pending items, platform queue, revalidation timer, `closed` | connect, event, `pull`, `revalidate`, abort, `cancel` | loss is reported exactly; a slow reader costs bounded memory; no stream outlives its session | `LiveConsole` |
| **Console projection and page** `personal-console-events.ts`, `ui/personal-live-console-page.tsx` | last 200 lines, connection state, the event source | event, open, error, reconnect, clear, leave | lines have no unreported hole and come from one connection; one source exactly while one is wanted; a stream that ended shows | `ConsolePage` |
| **API key authentication** `auth.server.ts`, `accounts/api-keys/inference-api-key-authentication.server.ts` | none (reads rows) | authenticate | only unexpired, unrevoked keys of active owners; a key that stopped working never works again | `Accounts` (`Authenticates`) |
| **Sessions and authorization** `accounts/sessions/` | session rows | create (cap of ten), read, delete, authorize | caps; a session of a disabled account reads as none; restriction follows the current row | `Accounts`; as external in `LiveConsole` |
| **Login, password change, registration, setup** `accounts/access/` | user rows, rate windows | each reads, awaits a hash, writes in a transaction | one administrator; unique names; a session that is open keeps its rights through calls that hashed meanwhile | `Accounts` |
| **Administration and recovery** `accounts/administration/` | user, session and key rows | disable, enable, temporary password, reset from host | access ends atomically | `Accounts` |
| **Personal keys** `accounts/api-keys/personal-api-keys.server.ts` | key rows | create, revoke | cap of 10 active keys | `Accounts` |
| **Demo tokens, rate limiter** `accounts/api-keys/demo-api-tokens.server.ts`, `accounts/rate-limit.server.ts` | key rows, windows | issue, clean, consume, clear | cap of 25; windows never admit more than their maximum and none in force is evicted, both until a user called `global` logs in | `DemoTokens` |
| **Anonymous analytics** `src/features/operations-analytics/` | pending map, timer, hourly rows | record, flush, timer | every accepted count is persisted once or pending with a timer armed | `Analytics` |
| **Public demo chat** `src/features/public-demo/` | messages, delta buffer, animation frame, abort controller, open bodies | enqueue, flush, submit, stop, leave | the transcript is the concatenation of the deltas; no delta after the end; the form is busy exactly while an answer streams; a body stays open only after a failure | `DemoChat`, `ChatEvents` |
| **Credential pages** `src/components/common/use-submission.ts`, `accounts/api-keys/ui/`, `accounts/administration/ui/`, `public-demo/public-demo-page.tsx` | runs under way, error, the secret on display, the list of the loader | buttons, replies, failures, refresh, dismissal, leaving | a secret that is shown once is shown; what the page says happened did happen | `CredentialPages` |
| **Onboarding and model discovery** `src/features/client-onboarding/`, `inference-gateway/openai-model-discovery.ts` | state of the discovery, fetches under way | discover, answer, retry, dismiss | the models on display belong to the key on display | `CredentialPages` |
| Configuration, schema, routes, markup, scripts, deployment | none over time | start-up, rendering | | not modelled |

### How they interact

A `/v1/*` route calls `handleGatewayRequest`. It awaits the authenticator (which
reads key and user rows), attaches an observer for the principal, and for a
generation calls `admission.acquire`. The result is a lease, a refusal, or a
promise that a later `release`, a timer or the client's abort will settle. The
handler then fetches from the backend and returns a body whose `pull` and
`cancel` are called by the host. Every path ends in `lifecycle.finalize`, which
releases the lease (and so dispatches a successor) and emits the terminal event
in one call. The observer publishes each event to the live event source, which
calls the queue function of every open stream of that principal synchronously,
and to the analytics recorder. The account operations change the rows that
authentication and session revalidation read.

Everything runs on one JavaScript thread: the code between two awaits, and every
callback, is atomic. The hard behaviour is therefore in what may happen *between*
an await and its continuation, in which order timers, aborts, dispatches and
stream callbacks come, and in long sequences of legal calls. Nothing of the
gateway or the console is persisted, so they have no crash recovery.
In the browser the same holds of each tab; between tab and server stand a network
that may fail at any moment and platforms that dispatch callbacks late.
`PROJECT.json` lists the hazards at their lines.

## 2. The modules

| Module | Contents |
|---|---|
| `Admission` | the controller; one action per call, callback and release |
| `FairSlots` | what admission promises: slots, and two orders "older" and "turn", with no counters or lists |
| `MCAdmission` | an instance of `Admission` |
| `AdmissionProofs` | the inductive invariant of `Admission`, the theorems from it, and the proof that `Admission` implements `FairSlots` |
| `Gateway` | many concurrent requests through the handler and lifecycle, composed with `Admission` (`A == INSTANCE Admission`) |
| `MCGateway` | instances of `Gateway` |
| `GatewayProofs` | the inductive invariant of `Gateway`, the theorems from it, the theorems of admission carried into the gateway, and the error replies of `Replies` |
| `LiveConsole` | the event source and the personal event streams |
| `MCLiveConsole` | an instance of `LiveConsole` |
| `ConsolePage` | the console's tab and its event sources, over the streams of `LiveConsole`, with the projection of events to lines |
| `MCConsolePage` | an instance of `ConsolePage` |
| `ConsoleProofs` | the inductive invariants of `LiveConsole` and `ConsolePage` and the theorems from them |
| `Analytics` | the recorder of anonymous counts, its timer and table, and the demo generations that feed it |
| `MCAnalytics` | an instance of `Analytics` |
| `SseText` | where a text has a blank line: what the gateway and the demo chat share |
| `SseFrames` | the splitter of event streams in the observer of the gateway |
| `TokenMetrics` | the metrics read from the payload of an event, by the formats of OpenAI, llama.cpp and Anthropic |
| `Observer` | the observer as a whole: `SseFrames` with `TokenMetrics` |
| `MCObserver` | backends of each format for `Observer` |
| `ObserverProofs` | the inductive invariants of `SseFrames` and of `Observer` and the theorems from them |
| `ProtocolErrors` | error bodies and headers of both protocols |
| `Replies` | an error answer, or a stream that may break off, on its way to the client; for a stream down to the reader of the demo chat |
| `MCReplies` | the error answers for `Replies` |
| `Accounts` | the rows of users, sessions and personal keys, and every operation on them, split at the await of its hash |
| `MCAccounts` | an instance of `Accounts` |
| `StoreProofs` | the inductive invariants of `Accounts` and of `Analytics` and the theorems from them |
| `Ranks` | the numbers of a finite set in order, and what a filter keeps of a list |
| `DataProofs` | lemmas about `Ranks`, about induction, recursion and loops, and about blank lines, for the proofs about the components that number, filter or cut |
| `DemoTokens` | the rate limiter with the four operations that share its map, and the demo tokens one of them issues |
| `MCDemoTokens` | an instance of `DemoTokens` |
| `DemoChat` | the conversation of the public demo: stream, delta buffer, frame, stop and unmount |
| `DemoProofs` | the inductive invariants of `DemoChat` and of `DemoTokens` and the theorems from them |
| `ChatEvents` | how the demo chat cuts and reads the body of an answer |
| `CredentialPages` | the pages that show a secret once, the form submissions behind their buttons, and model discovery |
| `MCCredentialPages` | listings of models for `CredentialPages` |
| `BrowserProofs` | the invariants of `CredentialPages` and of the chat's reader in `Replies`, and the theorems from them |

`Gateway` is composed with `Admission`, `ConsolePage` with `LiveConsole`, `Observer`
joins `SseFrames` and `TokenMetrics`, and `Replies` joins `ProtocolErrors` with
the reader of `ChatEvents`; `FairSlots` is instantiated by `Admission` with a
refinement mapping. The others are components that meet only at the events, rows
or signals their neighbours take as external.

### Admission

`active`, `queued`, `waiters`, `order` are the four variables of
`createGenerationAdmissionController`; an absent key of `waitersByPrincipal` is
the empty sequence. `status[r]` is what request `r` was last told: `"queued"` is
a waiter with `settled = false`, armed timer and registered listener;
`"admitted"` an open lease. A request identity is used again after it settled,
so behaviours are unbounded although the instance is finite.

| Action | Code |
|---|---|
| `AcquireAborted`, `AcquireAdmitted`, `AcquireRejected`, `AcquireQueued` | the four exits of `acquire` |
| `Timeout`, `Abort` | the timer callback and `onAbort`, with the whole of `removeWaiter` |
| `ReleaseIdle`, `ReleaseToNext` | `release()` with the `dispatchNext()` it calls |

The principals that `dispatchNext` shifts off without serving are modelled
(`NextTurn`), although `RotationExact` shows that there never are any: the
recovery branch is dead code, and so is the branch of `ReleaseIdle` for a
controller above its limit. A second `release()` of a lease is a stuttering
step. The snapshots handed out with decisions are functions of the state and
are left out.

### Gateway

`g[r].pc` names the await the handler of `r` is at; `pull` says that a `pull()`
of the returned body awaits `reader.read()`, which may be the case while
`cancel()` awaits too. `aborted` is the client's signal, `stopped` the handler's
own abort controller, `listening` the listener between them, `lease` the
lifecycle's `generationLease`, `outcome # "none"` its `finalized`, `log` the
events its observer was told. A promise and its continuation are different
steps: `A!Release(s)` of one request, the timer, or an abort changes
`status[r]`; `WakesAdmitted(r)` or `WakesRefused(r)` is the continuation, any
time later. `fetch`, the backend's body and the consumer of the returned body
are external and may settle in any way in any state in which the platform lets
them. Bodies, headers, durations and metrics are left out; a chunk either
contains a visible delta or not. `AcquireAborted` cannot happen here: the
handler looks at the signal in the same synchronous stretch.

### LiveConsole

`st[s]` holds the closure variables of one stream: `pending`, the timer (`due`),
`room` (how many chunks the platform still takes: one in its queue, one for a
reader that waits), and what the session's row says. `published` and `told` are
history: events published to the principal while the stream was open, and events
the stream handed over or declared lost. A pending item is an event with its
number, a gap with its count or the keep-alive; what a list stands for is the number
of those events (`Weights`, a cardinality). The session store is external:
`Revoke` ends or restricts a session at any time, `RevalidateThrows` is a store
that fails. A request that opens no stream, and one whose signal is aborted
before the stream starts, leaves nothing behind and is a stuttering step.

### ConsolePage

`page` is the state of the component, `conn[s]` the event source that reads stream
`s` with the variable `active` of its effect, `wire[s]` what that stream gave to the
platform and the page was not told yet. The streams of `LiveConsole` are the
successive connections of one tab; a server step is a step of `LiveConsole`
together with what it moves to the wire. `Mount`, `Reconnect` and `Unmount` are the
effect and its cleanup, `OnOpen`, `OnEvent` and `OnError` the callbacks; `NetworkFails`
loses what is under way. An event of a source that was closed may still be
dispatched. Of the validation (`Projected`) the model keeps which fields are
looked at; it shows that only an event with a negative number, which no part of
the gateway makes and a backend may, is silently dropped. `Reported` is what
`createGatewayRequestLifecycle` may report; the events of an instance are assumed to be
such (`EmittedAssumption`). A keep-alive reaches the wire as a comment, which stands for
no event. Sessions are not
revoked here: their end shows as `ServerRevalidate`, which may close a stream at
any check.

### Analytics

`pending` is the map of the recorder and `stored` the hourly table, both as
functions in which 0 is an absent entry; `timer` says that the flush timer is
armed. `accepted`, `lost` and `refused` are history: the counts for which
`record()` returned true, those that died with a process, and whether it ever
returned false. `FlushSucceeds` and `FlushFails` are `flush()` with the two ends
of the transaction of `persistAnonymousAnalyticsBatch`; `TimerFires` and
`SummaryRead` call them. `Restart` ends the process and starts another one on
the same table. A generation of a demo principal counts once when it starts and
once when it ends (`MetricFor`); its requests are the ones `Gateway` describes.

### SseFrames

`Observe(chunk)` is `observe` with the whole of `#consumeText`; the loop over the
blank lines is the recursive function `Split`. A text is a sequence of `"r"`,
`"n"` and `"x"` for `\r`, `\n` and any other character. `consumed` is history: the
events `#consumeEvent` was given. The decoder of bytes is external. `Readings` is the
reference: one reader of the whole body, character by character, without chunks and
without a limit.

### TokenMetrics and Observer

A number that may be missing is a set of at most one number, a payload a record
of the numbers on the paths the code looks at and of its text fields that are
non-empty strings. `Observed` is the end of `#consumeEvent`, one operator per
format; `Snapshot` adds the total. `Observer` takes each step of `SseFrames` together
with the calls of `#consumeEvent` in it: an event of `n` characters `"x"` stands for
the `n`-th payload of the backend. The backends of `MCObserver` report one truth in
five ways: OpenAI's usage, llama.cpp's timings, both without a total,
Anthropic's start and delta messages, and an answer that is not observed.
`Truthful` says what all five have in common, and is what the proof assumes of a
backend (`BackendsAssumption`): the final report tells the true output, the first
one (or the final one, where there is no first) the true prompt, and a number that
is given elsewhere is the true one too, except that an Anthropic stream may start with
an output it has yet to produce.

### ProtocolErrors and Replies

Headers are sets of names, an error body the set of its keys and of the texts in
it: what the validators of both protocols look at. In `Replies` the backend
answers with an error, whose body is read in chunks up to `MaxErrorBody`
(`ErrorChunk`, `ErrorOversized`, `ErrorReadFails`, `ErrorBodyEnds`) while the client may
abort, or with a stream of pieces (`"r"`, `"n"`, a data line with a delta or `[DONE]`)
that may break off inside a line (`StreamBreaks`). The client of the stream is
`streamDemoChat`; it reads in chunks of any size by `AfterChunk` and `AfterEnd` of
`ChatEvents`, which are the loop of `streamDemoChat` with
`processCompleteEvents`. An error event is its two lines. The lines of an event are
named by the places where they start (`LineStarts`); `Meaning` is what `processEvent`
makes of them.

### Accounts

`users`, `sessions` and `keys` are the rows of the tables; `calls[c]` holds what
one call in flight has read and will write after its await. A call goes through
at most three points: `Authorize` is the middleware that reads the session of
the cookie and evaluates the requirement of the operation; the handler then runs
with the account found there, however old that is by now; a handler with a
password stops again at the hash (`stage = "hashing"`), with the row it read and
the `now` it began at, and writes in one transaction.

| Action | Code |
|---|---|
| `Bootstrap`/`Bootstrapped`, `Register`/`Registered` | `bootstrapAdministrator`, `registerMember` before and after the hash |
| `Login`/`LoggedIn` | `login`: every condition is about the row read before the hash |
| `ChangePassword`/`PasswordChanged` | `changePassword` |
| `Disable`, `Enable` | `setMemberDisabled` |
| `IssueTemporary`, `Recover`, `TemporaryIssued` | `issueTemporaryPassword`, the recovery script, and the transaction both end with |
| `CreateKey`, `RevokeKey`, `Logout` | the operations of that name |
| `Refused` | every end of a call without effect |

Passwords are abstracted: a verification may succeed or fail, so the model has
every behaviour in which it depends on the hash. The retention of expired
sessions (`createBrowserSession` deletes them for everybody) and the choice
between sessions of the same creation time, which SQL leaves open, are modelled.
A new row takes an id that no row has; which one does not matter, so it is
chosen. `retired` is history: keys that once authenticated and then did not.
Key authentication and the reading of a session are the operators
`Authenticates` and `Reads` of the rows and the clock.

### DemoTokens

`windows` is the `Map` in the order of its keys, `Pruned` and `Consume` the whole
of `consumeRateLimit`. Login and registration consume the window of everybody
and then that of the name; `LoginSucceeds` clears the name's, any time after its
verification began. What is limited is a kind of call and a name, or everybody
(`Limited`); its `Key` is the string of the code, and the constant `Everybody` stands
for `global`, the suffix of everybody's keys, which the username policy also admits
as a name. That user's login therefore takes twice from one window, is refused once
that has counted five, and when it succeeds clears the window of everybody:
`reopened` is history and says that this has happened. Nothing in the repository
says whether that is meant. `Consume` takes maximum and length from the call and
not from the window, which may have been opened by a call of another kind.
`Issue` is the limit and the transaction of
`issueDemoApiToken`: cleaning at most `MaxCleaned` expired rows, in any choice,
counting, inserting. `IssueFails` is a transaction that throws: the limit stays
consumed. `Restart` empties the map, not the table. `admitted` is history: when
each limit admitted, with a number among those of the same time and the end of
the window that counted it, as far back as its windows or those of the names
behind it last, until `reopened`. The filters of the code keep the places that match, in order
(`At` of `Ranks`). Its `Init`, `Next` and `Spec` are called `TokensInit`,
`TokensNext` and `TokensSpec`, so that `DemoProofs` can extend it beside `DemoChat`.

### DemoChat

One conversation. `phase` says where `streamDemoChat` waits, `buffer` and `frame`
are the delta buffer of `demo-chat-delta-buffer.ts`, `mounted` says that the page is
shown. `Finish` is the synchronous end of `submitPrompt`: `flush()`, the status, the
`finally` block. A chunk is a sequence of events as `processEvent` tells them
apart; events after `[DONE]` are ignored, one that is an error ends the stream
with the deltas before it. After the page is left the stream goes on until its
abort is seen, and its updates have no effect. A delta has content, reasoning or
both; an event with neither changes nothing and is left out. The deltas of an
answer are numbered, and the text of a field is the sequence of the numbers of
those that have the field: all that the transcript needs to tell them apart.
`received` is history, the deltas of each answer. `bodies` are the
answers whose response body is open: `Refused` and an error in a `Chunk` leave theirs,
an abort closes it.

### CredentialPages

`run` is the operation a button started: on its way to the server function
(`calling`), done there (`performed`), not done (`declined`), or waiting for
`router.invalidate()` (`refreshing`). `CallRejects` is a call that fails before or
after the operation was done, `RefreshFails` a refresh that fails. `submission` is
the state of `useSubmission`; `secret` the key, token or password on display;
`list` what the loader last returned, `server` the data behind it, which other tabs
and administrators change too (`Elsewhere`). `discovery`, `fetches` and `models` belong
to the panel of a key: every attempt is a fetch, and dismissing, retrying,
replacing the key or leaving the page aborts it, which its answer may overtake.
`given` and `owed` are history. `Visit` leaves the page; what its run still does is a
change from elsewhere.

## 3. The runs

| Run | Instance | Shows |
|---|---|---|
| `admission` | 6 requests of 3 principals, 2 slots, queue of 3, 2 per principal, under fairness | the books agree, work conservation, round robin, refinement of `FairSlots`, no starvation |
| `gateway_requests` | 2 requests of 2 principals of every kind, 1 slot, queue 1, every backend answer, valid and invalid configuration, under fairness | the handler's events, leases, aborts, blame; every request ends |
| `gateway_crowd` | 3 generations of 2 principals, 1 slot, queue 2, 1 per principal | neither the exchanges nor what observers see exceed the limit |
| `console_streams` | 2 tabs of one account, list of 2, 4 events, interval 2, 4 ticks | exact loss, bounded list; subscription and timer of every stream; no stream outlives its session |
| `console_page` | 1 tab, 2 connections, list of 2, 3 events, 2 lines, 2 ticks, under fairness | exact lines; one source when one is wanted; what is published is seen |
| `analytics` | 2 demo generations, 2 hours, map of 3 entries, 4 counts, under fairness | no count lost or doubled; timer; the books of the table; `EventuallyFlushed` |
| `observer` | 5 backends, texts of up to 9 characters in chunks of up to 3, events of up to 4 | the observer's events do not depend on the cutting; bounded memory; true metrics |
| `replies` | 224 error answers, bodies of up to 4 units with a limit of 3; streams of up to 6 pieces, events of up to 6 | error replies of the client's protocol; a broken stream is noticed |
| `accounts` | 2 users, 2 names, 2 calls in flight, cap of 1 session and 1 key, 2 ticks, all nine operations | one administrator, unique names, session cap, rights of open sessions, keys retired for good |
| `demo_tokens` | 3 names, windows of 1 or 2 ticks, 2 tokens, 4 ticks, all four callers | limits, token cap, no window evicted while in force |
| `demo_chat` | 2 prompts, 3 deltas, chunks of up to 2 events | exact transcript; busy exactly while streaming; bodies left open |
| `credential_pages` | 3 secrets, 5 changes, 3 pages, listings of models with doubles and unusable ids | secrets shown; the page tells what happened; models of the key on display |

### Properties

* `BooksAgree`, `WorkConserving`: the counters, the queues and the rotation of the
  controller agree with each other and with the leases handed out
  (`CountersExact`, `QueuesExact`, `RotationExact`), and no slot idles while somebody
  waits.
* `RoundRobin`: between two turns of a principal nobody else has two, also when
  principals leave and re-enter the rotation by timeouts.
* `ImplementsFairSlots`: the lists implement the two orders of the promise.
* `EventsTellAStory`: what observers are told is in order, single and complete per
  request.
* `NothingLeaks`: an open lease always has a handler that will release it.
* `WithinLimit`: across requests observers never see more admissions without an end
  than slots, and no lease is released before its exchange with the backend ended
  or was told to stop.
* `AbortReachesBackend`, `BlameIsRight`: no window, in particular not the one
  between the dispatch of a waiter and its continuation, loses an abort or
  confuses it with a failure of the backend. The converse is not claimed: a
  body may be read to its end after its consumer cancelled, and then counts as
  completed.
* `LossIsExact`, `SlowReaderIsBounded`: every event published while a tab is
  open was handed over, is pending, or is counted by a gap at the place where it
  was dropped; and a reader that stalls costs one bounded list.
* `StreamsAreTended`: a stream that is open is subscribed and revalidated; one
  that closed, in whatever way, has left neither listener nor timer behind.
* `SessionOutlivesStream`: no stream goes on for more than an interval after its
  session ended or was restricted.
* `LinesAreExact`: the lines of a tab are the last ones of what it was told; each
  continues where the one above it stops, gaps counted with their width, and
  lines of a connection that was given up never mix with those of the next.
* `SourcesAreTended`: an event source is open exactly while the page is mounted and
  not shown as disconnected, and never a second one.
* `EventsAreSeen`: while a tab stays connected every published event reaches its
  listeners, as itself or in a gap, and the end of a stream shows.
* `NothingMiscounted`, `TimerWhilePending`, `BooksBalance`, `EventuallyFlushed`:
  through any flushes, failures and restarts every accepted count is in the
  table once, pending with the timer armed, or lost with its process; while
  nothing was refused, the table never shows more ends than starts of demo
  generations, and what it lacks is pending or still running.
* `EventsIndependentOfChunks`: the events seen are those of the whole text, in
  order, without those above the limit. The model gives the exact tolerance: an
  event within three characters of the limit is also dropped when a chunk ends
  inside its blank line, because the limit is applied to the unfinished text.
* `MetricsAreTrue`: once the backend gave its last report the numbers shown are the
  true ones in each format; at any time cached tokens are part of the prompt and
  a total is the sum of its parts; the time to the first token is that of the
  chunk that completed the first visible payload.
* `RepliesSpeakProtocol`: an error reply conforms to the client's protocol, carries
  this request's id, is never a body of the backend of which a part was dropped
  (`arrived` is history: what was read, whether it was kept), and has no header about another body
  or another connection.
* `FailureIsSeen`: a stream that broke off at any piece never looks complete to the
  chat, unless its `[DONE]` had arrived, and a well-formed one never looks broken.
* `OneAdministrator`, `NamesUnique`: whatever set-ups, registrations and resets
  hash at the same time, there is one administrator, always active, nobody
  exists before him, and no name is taken twice.
* `SessionsWithinCap`: the cap holds of the rows, expired ones included,
  although each insertion counts with the time its call began at, which may be
  older than rows that others inserted meanwhile.
* `SessionsKeepTheirRights`: no step of anybody turns an open session into a
  restricted one or back, or leaves the row of one whose access it ended. Each
  operation that changes a user row must also delete the user's sessions.
  It says nothing of the session that a login inserts when the change committed
  while it hashed, nor of a handler that runs on an account its authorization read
  earlier: the model has both steps, the code admits them, and no document or test
  says that it must not.
* `RetiredForGood`: a key that expired, was revoked or whose owner was disabled
  does not come back, not when the owner is enabled either.
* `LimitsHold`: until a user called `global` has logged in, every limit admits at most
  twice its maximum within any stretch of one window's length, the exact promise of
  fixed windows, whatever the other callers of the shared map do and although that
  user's attempts count in everybody's window. After such a login it is false of the
  code: each one reopens the limit of everybody, as often as the user logs in. The table of demo tokens, expired
  rows included, never exceeds the cap, although only an issuance cleans.
* `NoWindowForgotten`: a window in force is never evicted to make room. It holds
  because the callers' limits bound each other (see the bounds). A successful login
  ends the window of its key, which is everybody's for the user `global`; from then
  on a map that is full (`MapIsFull`) may evict. The instance has no such eviction:
  that a map with room still forgets nothing then is proved, and checked as far as
  the instance goes.
* `TranscriptIsExact`, `BusyWhileStreaming`: what is shown is what was received,
  however chunks, frames, stops, errors and the end of the body fall; and every
  end frees the form.

* `OnlyFailuresLeaveBodies`: a response body stays open after its answer only when
  that answer failed its protocol: then `streamDemoChat` gives up the reader and
  neither cancels the body nor aborts the request.
* `SecretsAreShown`: a secret that reached its page is on display until it is
  dismissed, whatever fails afterwards, and no other key takes its place.
* `PageTellsWhatHappened`: a page that is idle and shows no error lists all that its
  own buttons changed, and a failed refresh of the key list never reads as a failed
  creation. The converse is not claimed of the members' page: when only the refresh
  fails it says that the password could not be issued, beside the password.
* `ModelsBelongToKey`: models on display were discovered with the key on display.

### Bounds, and why they are enough

Six requests of three principals on two slots reach every shape the controller
distinguishes: a rotation of three with a middle, a principal with one and with
two waiters, both limits hit, one and two open leases. One principal has four
requests, a backlog that never ends: while two of them run two wait, so a
controller that let it keep its turn would starve the others. Two requests
exercise every path of the handler against every other; a third one is needed
only for a rotation, and `gateway_crowd` adds it with the backend reduced to one
answer. `MaxPending` = 2
with four events gives a list that is full with every combination of event, gap
and keep-alive at its end, and gaps of several widths. `Interval` = 2 with four
ticks lets a session end before, at and after a check. `MaxEvents` and `MaxTime`
are the only bounds on counters, and appear in the guards of `Publish` and
`Tick`; requests and streams are reused without bound. Four counts fill the map
of three entries and meet a full one (`MaxCounts`). Nine characters hold two
blank lines around an event at the limit, three hold every proper part of a
blank line (`MaxText`, `MaxChunk`).

Two connections (`Streams`) let a tab give up a source with events under way and
open the next; three events, of which the middle one cannot be shown, overflow
both the pending list and the two lines (`MaxPending`, `MaxLines`). Sessions of
`ConsolePage` last two ticks (`Lifetimes`), so that a stream may end on its own.
Error bodies of up to one unit more than the limit of three are cut, fit, or
overflow at any chunk (`MaxErrorBody`); six pieces of a stream (`MaxText`) hold two
events with their blank lines. `MaxSecrets` = 3 lets a second secret meet the first
one and a third replace it; five changes (`MaxChanges`) are two of each kind and
one from elsewhere; listings longer than `MaxModels` exist.

Two calls in flight race each operation of `Accounts` with every other at every
point; with a cap of one session (`MaxSessions`) every insertion evicts, and with
lives of one and two ticks in a clock of two (`MaxTime`) a session expires
before, while and after a call hashes. `SessionIds` and `KeyIds` are pools of
identities; one session id more than the two users' caps is always free.
`MCDemoTokens` scales the limits down and keeps their relations: a window of a
name needs an admission by the window of everybody, so that two windows of
everybody bound those of names, and `MaxEntries` = 9 is the least that
`CapacityAssumption` allows. It has three names and `global`. A name may log in twice
per window and everybody once, so that a login as `global` counts twice and passes,
and register once, so that a registration of `global` is refused by its own first
count; other orders of the figures, the source's among them, are left to the proof. `CapacityAssumption` states that relation for all
limits: at most two windows of everybody meet one of a name that lasts no longer,
at most three one that lasts up to twice as long (with the source's figures the
sum is 2·100 + 3·10 + 4, far below 10,000). `MaxCleaned >= MaxTokens`
(`CleaningAssumption`) holds of the source's figures as well. A token outlives the window of
its issuance (`TokenLife` = 3), so that the cap is met and an expired token cleaned. Two prompts let a
stream's end meet the next one's start; three deltas in chunks of two put a
delta before, in and after a frame (`MaxTurns`, `MaxDeltas`, `MaxChunk`).

### Fairness

* `Admission`: `WF(Release(r))`. The gateway releases on every way out of a
  request; `EveryRequestEnds` of `Gateway` is what discharges it. No timer, no
  arrival and no abort is assumed.
* `Gateway`: weak fairness of the continuations of a request (awaits settle,
  the host pulls the body it was given or cancels it) and strong fairness of
  the end of a body (one that is read again and again ends). The queue timer
  and the client's abort are not assumed. Without the assumption on the host a
  body that is neither read nor cancelled keeps its lease: the code has no
  timeout for it.
* `ConsolePage`: weak fairness of the platform's `pull()`, of the browser's reading
  and of its callbacks. Nothing is assumed of the network, the reader's clicks or
  the clock.
* `Analytics`: strong fairness of a flush that succeeds: an armed timer fires,
  and a table that is tried again and again takes the batch once. Nothing is
  assumed of new counts or restarts.

## 4. The proofs

`AdmissionProofs` proves, for every set of principals and requests, every owner
function, every positive concurrency limit and every configuration that passes
`validateConfig` (`OwnerAssumption`, `LimitAssumption`, `ConfigAssumption`):

* `BooksCorrect`, from `TypeCorrect`, `CountersCorrect`, `QueuesCorrect` and
  `RotationCorrect`, its four parts; `NoIdleSlot`: `WorkConserving`.
* `Inductive`: their conjunction `IInv` is inductive.
* `TurnsAreFair`: the action property `RoundRobin`, from `IInv` before and after
  the step. The rotation has no duplicates, so the place of a principal is where
  it is found; each way of removing an entry moves the places behind it by one.
* `AdmissionIsFair`: `Spec => ImplementsFairSlots`, the
  refinement of `FairSlots`. The lemmas at its head say which pairs of entries
  stand in order after `RemoveFirst` and `Append`; with `IInv` every action of
  the controller maps to one action of `FairSlots` or to a stutter, and the
  principals of `FairSlots` that want a slot are the range of the rotation.

None of the five is inductive alone. That `queued` stays positive when a waiter
leaves needs `CountersExact`; that the waiter is found in its queue needs
`QueuesExact`; that a principal leaves the rotation exactly when its last waiter
does needs both and `RotationExact`; and that a released slot finds somebody to
serve whenever there is a waiter, which is `WorkConserving`, needs
`RotationExact`. The sets of requests and principals may be infinite: the
invariant carries the finiteness of `Running` and `Waiting`. The proof has one
lemma per action; the lemmas at its head say what `RemoveFirst` and `Append` do
to an injective sequence and its range.

`GatewayProofs` proves the safety of the handler for any number of concurrent
requests and principals, on every limit, with valid or invalid configuration
(`ControllerAssumption` gives the constants of `Admission` their assumptions):
`GatewayTypeCorrect` (`TypeOK`), `StoryCorrect` (`EventsTellAStory`), `NothingIsLeaked`
(`NothingLeaks`), `AbortsReachBackend` (`AbortReachesBackend`), `LimitIsKept`
(`WithinLimit`) and the action property `BlameIsAlwaysRight` (`BlameIsRight`). Its
invariant is that of the controller and, for each handler, three formulas:

* `StoryOf`: the log is in the order of the events' ranks, so that it cannot be longer
  than they are, and it says the same as `outcome` and `lease`;
* `PlaceOf`: what each await implies, above all that an exchange that is open has
  its listener or was told to stop;
* `HoldOf`: what the controller holds for a request its handler knows of. Between a
  dispatch and the continuation the lease is held by the controller's word only:
  then the handler waits, and has not ended.

One lemma per action follows (`ArriveKeeps` to `QueueTimerFiresKeeps`), each about one
handler; the others
are untouched because a step changes one `g[r]` and the `status` of requests that
wait. `LimitIsKept` maps exchanges and admissions that were told into the
open leases of the controller, which `AdmissionProofs` counts. `ControllerObeyed`
(`Spec => A!Spec`) shows that the gateway never uses its controller but by its own
operations; with it `AdmissionIsFair` holds in the gateway (`GatewayIsFair`). The
theorems about the controller are not repeated: they are used through
`AP == INSTANCE AdmissionProofs`.

The last part of `GatewayProofs` proves `ErrorsAreTranslated` (`RepliesSpeakProtocol`)
for any set of error answers of a backend and any limit on their bodies. All that
is assumed of an answer is that the header `connection` names nothing when
there is none (`ErrorsAssumption`). What the gateway writes itself conforms to its
protocol (`OwnBodyConforms`); the three sets of headers it may send are clean
(`HeadersAreClean`); and `AnswersClientOK`, through which every way out of the body
passes, adds that nothing of an answer stands when the client has left.

`ConsoleProofs` proves, for any number of principals and tabs, every positive bound of the
pending list and every interval (`StreamAssumption`, and `BoundAssumption` about the
model's own bounds), all the safety of `LiveConsole`: `StreamsTended`, `StreamsEndWithSessions`,
`PendingIsBounded`, `NoLossIsHidden`. `ConsoleInv` says of an open stream that its
timer is ahead of the clock and neither the session's end nor one interval after a
revocation is ahead of the timer (`Timed`), and of its list that each event stands
where the events and gaps before it end (`Exact`) and that it has one
keep-alive at most: without that the keep-alives alone could fill it. The
lemmas at its head say what the cardinality `Weights` of a list does under `Append`,
`Front` and `Tail`.

Of `ConsolePage` it proves, also for every number of lines, of connections and of
reported events, `PageTendsSources` (`SourcesAreTended`) and `PageShowsEverything`
(`LinesAreExact`). `PageInv` puts one chain together over four places: the
server's list continues what was told, the wire what was heard and ends where the
stream's count is (`Chain`, `Reached`), and the last line of the source that is active is
followed only by events that cannot be shown (`HeardOf`). The steps of the streams are
those of `LiveConsole`, so its lemmas are used again; sessions need another bound
there, which is why the invariant of the streams leaves it open (`LooseStates`).

`StoreProofs` proves of `Analytics`, for every set of requests and hours and every size
of the map (`CapAssumption`), `CountsConserved` (`NothingMiscounted`) and
`TimerCorrect` (`TimerWhilePending`) from the invariant that joins both with the
types: conservation is per entry, and needs to know that every entry is a number.
`BooksStayBalanced` is `BooksBalance`: starts and ends over all hours are the
cardinality of a set with one unit per count. `BooksInv` carries that this set is
finite and that the starts counted exceed the ends counted by the generations that run.

Of `Accounts` it proves, for every set of users, names, sessions, keys and calls
in flight, every cap and every lifetime (`CapsAssumption`, `LivesAssumption`),
all the properties: `TypeCorrect`, `AdministratorIsOne`,
`NamesAreUnique`, `SessionsAreCapped`, `RightsAreKept`, `KeysEndForGood`. The
invariant adds what the calls in flight know: the user a call is about exists
(`CallOK`; the code never deletes a user), the time it began at is one of the
clock. With that, `SessionIsInserted` says that `createBrowserSession` adds one row
with an id that no row had, which is why a password change leaves no old row of
its user, and `CapIsKept` that the rows that are left have room for it: the
cardinalities come from the library's theorems on finite sets. A key ends for
good because the rows show it (`Gone`: revoked or expired): disabling revokes
every key that still works, so that enabling finds none.

`BrowserProofs` proves of `CredentialPages`, for any number of secrets and changes and any set
of listings (`PagesAssumption`), `SecretsStay` (`SecretsAreShown`) and
`PageIsHonest` (`PageTellsWhatHappened`). The invariant adds what a run knows: it
belongs to the page that is mounted, it creates a key only while none is on
display, and the secret it brings is newer than every one that was shown before.
`PanelFollowsKey` proves `DiscoveryFollowsKey`, the part of `ModelsBelongToKey`
about discoveries that are given up, from one more fact: only a page with a key
discovers. `ModelsStayWithKey` adds the listings (`ListingsAssumption`: each is a
finite list of texts): the ids that are kept stand at places of the listing whose
ids differ, so that they differ themselves, and the cut leaves no more than
`MaxModels`.

`DataProofs` serves these and the proofs of the demo. `Ascending` lists a finite
set of numbers as one would, and it is the only list that does (`AscendingIsOnly`),
so that the list of a union is the lists of its parts when one lies below the
other (`AscendingJoins`); a filter keeps what is at its places, each once and in
order (`AtProperties`). Its other parts are what the proofs about texts need.
Induction is stated about a set instead of an operator: a set of numbers that
has 0 and is closed under successor has all of them (`Induction`,
`StrongInduction`), because what it lacks has no least number (`LeastOfAny`). From
that follows that a recursion over numbers, and a loop whose states get smaller,
have the function that the recursive definition names (`RecursionExists`,
`LoopExists`), so that its equation may be used. The last part relates the
pattern `/\r?\n\r?\n/` to single characters: a match ends at a place exactly if the
text there reads `\n\n` or `\n\r\n` (`EndsAt`, `EndIsBoundary`), and the leftmost match
is the one that ends first, with the `\r` before it if there is one (`LeftmostIs`).

`DemoProofs` proves, for every number of prompts, of deltas and of events in a
chunk (`BoundsAssumption`), all of `DemoChat`: `TranscriptStaysExact`
(`TranscriptIsExact`), `FormIsBusyWhileStreaming` (`BusyWhileStreaming`) and
`BodiesAreClosed` (`OnlyFailuresLeaveBodies`). The invariant has one part for each of
them beside the types: `Busy`, how flag, phase and the last message go together;
`Transcript`, that what is shown and what the buffer holds make up what was
received; and `Bodies`. The text of an answer that grew is the old text and the text
of the new deltas (`TextGrows`), and every end of a stream passes through one
lemma, `FinishKeeps`.

Of `DemoTokens` it proves, for any number of names and all limits and windows that
fit the map (`LimitsAssumption`, `CapacityAssumption`, `CleaningAssumption`),
`LimitsAlwaysHold` (`LimitsHold`) and `NoWindowIsForgotten` (`NoWindowForgotten`).
The two need each other: a limit holds only if its window is not evicted, and
there is room for every window only because the limits of everybody hold.
`LimitsInv` therefore says of each limit (`LimitHeld`) that its admissions lie in
windows that do not meet (`Spaced`), at most the maximum in each (`Grouped`), and
that the window in force has counted its own (`Followed`); and of each kind of
names that its windows in force can be mapped one to one into admissions of the
limit of everybody (`Backed`), each made when its window began. `SpanHoldsFew`
counts both: a span no longer than a window meets two windows, one up to twice as
long three. With that `ThereIsRoom`, so `PrunedIs` forgets no window in force and
`ConsumeCharges` tells what a call does to its key and to the others. Only the two
limits about `Everybody` share a key (`LimitsAndKeys`), and their windows last equally
long (`Life`); a window that both count is held for each of them, since a count taken
for the other leaves it held (`ChargeKeepsHeld`, `ChargesAdd`). All of this is claimed
of the limits until `reopened` only; afterwards `RoomUnlessFull` is what is left, and
the types and the size of the table hold throughout. That the
table keeps its size is `CleaningIsComplete`: what an issuance leaves is in force.

`ObserverProofs` proves of the splitter, for every body, every way to cut it into
chunks and every limit above three (`LimitAssumption`), `EventsFound`
(`EventsIndependentOfChunks`), and the same for the observer as a whole
(`EventsObserved`). The invariant puts the observer beside the reader of the whole
text (`Rel`): the buffer is what the reader holds, or of an event that is too large
some end of it with at least three characters (`Keeps`); and the events that were
consumed are those the reader took, without some that come close to the limit or
exceed it (`Sees`). Three characters are enough because a blank line that is cut by
the next chunk has shown no more of itself. One round of the loop takes the
observer and the reader behind the same blank line (`LoopExists` gives the loop its
equation), and between two blank lines the reader only collects; so `Rel` holds after
a chunk if it held before, whatever its size.

On that rests `MetricsStayTrue` (`MetricsAreTrue`), for every set of truthful backends
(`BackendsAssumption`, `BoundsAssumption`). `Moves` says what one payload may do to the
metrics; `Sound` that what is known is the backend's truth, that a total is never
without its parts, and that only Anthropic's output may be a preliminary one; `Kept`
that the reports that were consumed are known from then on, and the final output
when no report of the backend follows the final one. For the time of the first token
(`Timed`) the invariant needs the reader again: the chunk that timed it is the one in
which the reader took the first visible event. Visible payloads are assumed to be
shorter than the limit by three, since only such an event is never dropped.

The second part of `BrowserProofs` proves `BrokenIsSeen` (`FailureIsSeen`) for every
stream, every division into chunks and every limit of an event (`ReplyAssumption`).
`ChatInv` puts the chat's buffer into the stream (`Holds`): what is in `net` is the end of
what the gateway relayed (`Relayed`: what was sent, and the error event if the stream
broke off), the buffer lies right before it, begins where an event begins and has no
blank line, and no error event was read past. So a chat that still reads at the
end of a broken stream would hold the two line ends of the error event, which is a
blank line (`BrokenIsNotRead`); it has failed, or has read a `[DONE]` that the backend
sent (`DoneIsSent`: the gateway adds none, and starts its event on a line of its
own). A chat that fails has found an event that fails or is too long (`Spoilt`,
`TooLong`), and a well-formed stream has neither (`EventsParse`, `PartsAreShort`). While
the stream goes on the invariant must say more, that it can no longer end as
a well-formed one (`Doomed`), for a stream that is not well-formed yet may become so.
The failure was decided by the part that was read, which the longer stream has too:
`AfterReads` is applied to every continuation of it.

Only model-checked: the liveness properties `NoStarvation`, `EveryRequestEnds`,
`EventsAreSeen` and `EventuallyFlushed`; liveness under fairness, and the `ENABLED` in
it, is out of the prover's reach. Every invariant and every action property that a run
checks is a theorem, and so is the refinement of `FairSlots`.
`Accounts`, `DemoTokens`, `DemoChat` and `CredentialPages` claim nothing under
fairness: their operations end by themselves or wait for a user.

## 5. Plan

1. Done: all the modules; and every safety property that a run checks is a
   theorem.
2. Left: the liveness properties, which stay with TLC.

## 6. Not modelled

* The account schema, the migrations, the opening of the database and the
  parsing of configuration: they are read once at start and keep no state; what
  they demand of values appears as assumptions on the constants.
* Routes, markup, wording, styles, clipboard and the text of the OpenCode
  configuration: no decision that lasts hangs on them. Buttons and loaders that
  change what a page knows are in `CredentialPages`, `ConsolePage` and `DemoChat`.
* Smoke-test scripts, service units, build files and generated code
  (`routeTree.gen.ts`): they are not part of the running program.
* Password hashing, randomness and digests: a verification succeeds or fails, and
  an id or a secret is a fresh one.

The llama.cpp server, the HTTP host, the browser and SQLite are outside the
repository and appear as actions of the environment.
