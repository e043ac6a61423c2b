# Mentor Connect in TLA+

Models, checks and proofs for the service in this repository: a FastAPI
application over PostgreSQL (`Python/`), a Node gateway in front of it
(`artifacts/api-gateway/`), the PeerBridge web client (`artifacts/peerbridge/`)
and the tools that start the service and change its schema (`ops/`,
`lib/db/tools/`). The modules are written from the source; a name in `code type`
is one of the program's, and `PROJECT.json` gives the lines behind every
definition.

Run `tlc -config X.cfg MCModule.tla` for a run of the table below, and
`tlapm XProofs.tla` for the proofs of a module.

## 1. Inventory

### How the parts interact

The browser loads the client from the gateway and calls `/api/...` through it.
The gateway checks routes, origin, size and rate, verifies the session with an
HTTP call of its own, forwards to one uvicorn process on the loopback interface,
and tunnels WebSockets the same way. Every Python handler opens a new connection
(`db.py`), runs one READ COMMITTED transaction in a worker thread, commits or
rolls back, and closes it. So two handlers interleave at every statement except
where a row lock (`FOR UPDATE`, `FOR SHARE`), an advisory lock or a unique index
orders them; and a handler goes on when the gateway, or the client, has given up
waiting for it. The socket registry of the chat lives in the one Python process
and is gone when it ends. `ops/run-service.py` starts both processes and ends
both when either one ends. An operator changes the schema with the commands of
`ops/` while the service may be running.

### Components

| Component | State | Operations | Hard behaviour | What makes it correct |
|---|---|---|---|---|
| Mentorship lifecycle: `requests.py`, `request_interactions.py`, `request_events.py` | `requests`, `request_applications`, `request_events`, `blocks` | publish, edit status, delete, apply, accept, reject, cancel, block | transactions of two students on one request, a block next to the row lock, long sequences (refuse, reopen, apply again) | the two tables agree; no match without consent; refusals are final |
| Publication and alerts: `create_request`, `auto_match.py` | `requests`, `request_submission_keys`, `notifications` | publish with or without a key, replay, coalesce, match, delete | lost answers and retries, concurrent equal submissions, matching that fails after the commit, eligibility read early and used late | one request per key and per content, one batch of alerts, to eligible mentors |
| Chat history: `syncChatHistory`, `expandHistory`, the paged queries | messages, the cached window | first open, refetch, load older | many requests for one read, messages saved out of order or deleted in between, two readers of one cache entry | the window has no hole and never loses a row |
| Live chat: `_broadcast`, socket handlers, `connectChatSocket`, `useChatSocket` | dict of socket lists, scheduled broadcasts, permissions, the client's socket and query | send, register, broadcast, recheck, drop, reconnect | lists that change under a scheduled task, unnoticed disconnects, permissions that change while a check runs, restarts | a live client at rest is current; frames need access |
| Repeatable calls: `start_dm_conversation`, `_save_message`, `create_comment`, `create_report`, and their composers | `dm_conversations`, `client_message_id`, comments, `reports`; drafts and keys of the client | start, send, comment, report, repeat, edit, delete, moderate | a call repeated while the first still runs, after an edit, a deletion or a moderation; typing while sending | one row per key, pair or target; no text is lost |
| Gateway WebSocket tunnel: `websocket.ts` | set `connections`, map `users`, per-handler variables and timers | upgrade, verify, pipe, flush, time out, drain | callbacks in any order around one `await`; limits at their bound | exact counts, caps, nothing leaked, deadlines |
| Gateway proxy: `gateway.ts`, `route-policy.ts`, `public-contract.ts` | a request between its awaits | authenticate, limit, read, forward, answer, time out | waits ended by an answer, a timer or the client; limits taken before and after the body | a refusal was not performed; every request ends |
| Rate limiter: `createLimiter` in `request-controls.ts` | counters per key and window | take | full table, clock set back, windows that touch | at most twice the limit in any span of a window; an honest Retry-After |
| Readiness probe and drain: `readiness.ts`, `shutdownGateway` | cache, probe in flight, a pool of one client | probe, time out, drain, close | abort at every step, a connection that arrives after it | the client goes back clean exactly once; close ends |
| Supervisor: `ops/run-service.py` | two children, one deadline | start, watch, stop | a child that does not stop, two deadlines that have to fit | no child survives, the gateway is not killed |
| Email verification: `auth.py`, `email_delivery.py` | `users`, `email_verification_tokens`, `email_verification_requests` | register, log in, request mail, confirm | mail sent in a transaction that may not commit; attempts counted even when they fail; a clock that stands still while a call waits for the lock | tokens are used once and only by their account; limits hold |
| Migrations: `lib/db/tools/migration-*.mjs`, `ops/upgrade-*.mjs`, bootstrap | ledger table, schema, operator's journals, locks | bootstrap, three upgrades | concurrent operators, failures between migrations, a COMMIT that takes effect after it was given up | release to release in one step; journals tell the truth |
| Blocks and reports: `reports.py` | `blocks`, `reports` | block, unblock, report, moderate | a repeat next to a moderation | one active report per target |
| Inbox: `notifications.py` | `notifications.read_at` | list, mark read | an alert between the two | nothing to speak of |
| Score and ranks: `find_matches.py`, `activity_ranks.py`, `mentor_ranks.py` | none | score, rank, cut, tier | ties and boundaries | agrees with its definition |
| Account policy: `security.py`, `member_access.py`, `account_policy.py` | none (predicates over one row) | | | |
| Directory, tags, districts, statistics, scheduling | none | read-only queries | none | |
| Generated clients, lessons, sandbox, earlier API server, scripts | none at run time | | | |

`PROJECT.json` lists the hazards line by line, with the property that covers each
one, or the reason why none does.

## 2. Modules

Each component has one module, an `MC` module that only adds symmetry and small
constants, and one `.cfg` per run. Definitions under a comment "Broken variant"
are plausible mistakes; putting one in the place of the definition after it has to
violate the property that `PROJECT.json` names under `mutants`. They are not used
otherwise. A module `XProofs` holds the theorems about `X`; `ChatProofs` those about
`ChatDelivery` and `ChatHistory`, `GatewayProofs` those about `RateLimiter`, `GatewayProxy`
and `WebSocketGateway`. Modules that are proved about together keep their names apart
(`HistorySpec`, `ProxySpec`, `LimiterSpec` beside `Spec`).

### Mentorship, Consent

`Mentorship` has one variable per column that matters (`status`, `role`,
`author`, `matchedUser`, `app`, `blocks`, `matchLog`) and `txn`, the transaction
that holds the row lock of a request. A handler that takes the lock, looks the
block up and writes is two steps: `BeginApply` / `BeginAct` do the locking
`SELECT` and every check, `CommitApply`, `CommitAccept`, `CommitReject`,
`CommitCancel` all writes at once. In between, `Block` and `Unblock` run, which
need no request lock; everything else that touches the row has to wait
(`Unlocked`). `Rollback` is an exception or the end of the process. PATCH and
DELETE of a request take the lock and depend on nothing else, so they are one
step, and PATCH to `matched` is always refused or changes nothing. `raced` is an
auxiliary variable: requests whose open transaction was overtaken by a block of
its own pair. Answers that change nothing (errors, idempotent repeats) have no
step.

`Consent` is the promise without rows, locks and transactions: offers, one
chosen partner, refusals that last. `ImplementsConsent` maps its variables to
the tables.

### Publication, OnceOnly

`create_request` is a transaction of two steps. `Submit` takes the author's advisory
lock (`AuthorFree`) and reads what is published already (`Found`: the request of the
key, or one with equal content of the last five minutes), which it locks; `draft` is
what it read. `Commit` writes what that calls for: `Replay` of a known key,
`Coalesce` with equal content, or `Insert`; `Rollback` is an error or the end of the
process. That no second submission of the author reads in between is what
`NoDuplicatePublication` rests on. The same call goes on as `auto_match_request`, a second transaction under the row lock of the request and
a share lock of its author: `Skip`, or `Rank` (read and rank), `Recheck` (lock
the recipients, read the blocks again) and `Deliver` (insert, commit). `Fail`
ends it anywhere. `SetState`, `Delete`, `SetStanding`, `Block`, `Unblock` are
what other handlers do to the same rows, waiting for those locks where the code's
statements would. Which of the eligible mentors rank best is left open.
`answered` (what a client was told) and `overtaken` are auxiliary.

`OnceOnly` is the promise to the client: a key that was answered keeps meaning
the same request as long as that exists, and a request is announced at most once,
to an allowed audience (at most `TopMatches` users) without its author.

### Submissions

The four calls a student may repeat because no answer came, and the composer that
repeats two of them. Their server side is one scheme in four variants: a message
has the unique index only (`InsertOrConflict`, `Reselect`), a conversation is
looked for first (`LookForConversation`), a comment runs under the lock of its
request (`Comment`), a report under the reporter's advisory lock (`Report`). Each
statement after which another transaction can commit is a step. A call goes on
after the client gave up (`GiveUp`), so calls of one key overlap. `Submit`,
`Succeed`, `Type`, `Close` are the composers of `ChatWidget.tsx` and
`RequestComments.tsx` with their draft and their remembered key. `EditComment`,
`DeleteComment` and `Moderate` change rows between repeats. `tries` and `reopened`
are auxiliary. One behaviour follows one of the four: they share no table. The attempt of a
comment also remembers the comment it answers (`parentId`); a text of the model stands for the
pair of both.

### ChatHistory

Messages are numbers in the order of `(created_at, id)`, which is not the order
in which they commit, so `Save` takes any of them. A read is `Refetch` or
`LoadOlder`, any number of `ReadOn` (one more page) and `Finish` (last page, the
window is replaced) or `Fail`. Only one read of each kind runs, as `cancelQueries`
and the mutation ensure. `known` is auxiliary.

### ChatDelivery

`saved`, `allowed`, and for each message the broadcast `task` with the list it
captured; for each socket what the server knows (`server`), what is on its
`wire`, and for each client its connection (`link`, `using`), its history query
(`fetch`) and what it shows. `Commit`, `Capture`, `Snapshot`, `Check` and
`Send` / `Drop` are the stages of `send_room_message` and `_broadcast`.
`Unregister` removes an empty list from the dict; a task that still holds it is
`lost`. A handler that refuses before `accept()` answers the handshake with HTTP 403, which the
browser sees as a broken connection (`Refuse`); only a close after it says `4403` (`denied`).
The history is read in one piece here; `ChatHistory` has its pages.

### WebSocketGateway

One handler per connection with its phase, its `userId`, its session check, its
upstream, its timer and its early bytes, next to the shared `connections` (`open`)
and `users` (`held`). Node runs one callback at a time, so a callback is a step.
The answer of `verifySession` is a step of its own (`Verified`, `NotAdmitted`, or
`SettledLate` when the handler ended before).

### RateLimiter, GatewayProxy

`RateLimiter` is `createLimiter`: `Take` for a key and a clock, with pruning when
the table is full (`Room`), the Retry-After of the key's own window or of the
soonest one in a full table, and windows that no longer count because they are over or lie
in the future of a clock that was set back. `grants` and `promises` record what
callers were told. `LimiterSpec` is the limiter on its own, one call after the
other.

`GatewayProxy` is `handleRequest` with that table. An action is what runs between
two awaits: `Arrive`; `SessionKnown`, `SessionUnknown` or `SessionCheckFails`
after `/me`; `BodyRead`, `BodyRefused` or `BodyTimeout` after the body; `Answer`
or `FetchFails` after the forwarded call; and `Leave`, the client's departure, in
every wait. The limits are taken in the code's order, those that need the body after it
(`SessionClasses`, `BodyClasses`, `TakeAll`), and what was taken stays taken when a later
one refuses. `Perform` is the Python service, which may perform a forwarded call
after the gateway gave up. Routes, headers, schemas and projections are data: a
route is one of nine kinds, an invalid request a refusal.

### Readiness, Service

`Start` is a probe; `Connected`, `Queried`, `QueryFails`, `RolledBack` are
`checkDatabase` on the only client of the pool (`slot`, `dirty`), `Healthz` the
side of the Python service, `Settle` the end of `Promise.all`. `Deadline` and
`Shutdown` abort at every step and leave no positive answer behind; `LateConnect` is the client of a `connect()` that
nobody waits for any more.

`Service` puts the probe into the gateway and the gateway under the supervisor:
`Spawn`, `Signal`, `Terminate` (the `finally` block), `Kill` at the common
deadline, `Exit`; on the gateway's side `HandleTerm` (drain the probe, close the
server, start its own deadline), `Drained` (exit 0) and `GatewayDeadline`
(exit 1). Time counts in ticks after the SIGTERM, and only where nothing is due.

### Verification

A call is a transaction: `Begin...` fixes its `start`, which is what `now()`
returns in every statement of it; `Admit` gets the row lock of the account and
finds room in the history, `Refuse` is the 429. A request then waits for the
provider (`Accept`, or `Fail`, with or without the mail in `mailbox`) and
commits (`Store`, `Apologize`); a confirmation commits `Verify` or `Reject`.
`Record` is the part of `_limit_attempt` that every commit contains: the purge of
old attempts and the new one. `Rollback` loses all but a mail. `drawn`, `newest`,
`uses` and `answered` (the attempts before any purge) are auxiliary. `Fail` stands
for every reason of `DeliveryUnavailable`. `Patience` is the longest a call stays
open, which no setting of the program bounds; the clock waits for calls that
reached it. It is at least a tick: with none, the window of the mails would count one
instant too many (section 5).

### SchemaSteps, Migrations

A run of a command is two parties. The client takes the steps of
`runMigrationTransaction` with the hooks of its command (`Lock`, `Before`, `Read`,
`Apply`, `After`, `Commit`, `Finish`) and syncs a journal entry at some of them;
the session of the server holds the transaction, the advisory lock and the SHARE
locks of the journey. Either fails on its own: `GiveUp` is the client's error or
deadline, `RolledBack` and `Committed` are what the session does, the latter also
after the client has left. `Write` is the application, which keeps running.
`schema` and `ledger` are the committed effects and the committed rows that claim
them. `SchemaSteps` is the promise: the schema goes from the release a command
starts from to the one it ends at, in one step.

## 3. Runs

| Run | Config | What it shows | Bounds | Distinct states |
|---|---|---|---|---|
| `mentorship` | `MCMentorship.cfg` | tables agree, events, blocks, and `Consent` is implemented | 3 students, 1 administrator, 1 request, 2 acceptances | 20 112 |
| `mentorship_block_race` | `MentorshipBlockRace.cfg` | fails: a block between lookup and commit does not stop the match | the same | |
| `publication` | `Publication.cfg` | no duplicates, alerts reach eligible mentors, and `OnceOnly` is implemented | 2 students, 2 requests, 1 key (or none), 2 contents of which one is a mentor's offer, 2 calls | 953 930 |
| `publication_retry` | `PublicationRetry.cfg` | a repeated key repairs a failed delivery | 2 students, 1 request, 1 key, 1 call | 12 942 |
| `submissions` | `Submissions.cfg` | one row per key, retries are safe, no text is lost | 4 calls, 2 texts, each of the four operations | 497 015 |
| `chat_history` | `ChatHistory.cfg` | windows without holes, nothing lost, older pages arrive | 5 messages, 2 deletable, pages of 2 | 535 989 |
| `chat_delivery` | `ChatDelivery.cfg` | a live client at rest is current, frames need access | 1 client, 2 sockets, 2 messages | 638 248 |
| `websocket_gateway` | `WebSocketGateway.cfg` | counts, caps, leaks, drain, and every handshake ends | 4 connections, 2 users, 3 places, 2 per user | 53 760 |
| `gateway_proxy` | `GatewayProxy.cfg` | budgets over any span, honest Retry-After, refusals were not performed, every request ends | 2 requests of 1 user, 3 kinds of routes, a table of 2 windows, limits of 1 and 2, clock 0..2, set back once | 190 775 |
| `service` | `Service.cfg` | the pool's client, measured answers, probes and shutdown end, deadlines fit, no child survives | 2 abandoned connects, deadlines of 5 and 6 ticks, 1 request | 6 938 |
| `verification` | `Verification.cfg` | stored links were mailed and work once and in time; pause and windows under lagging clocks | 1 account, 2 calls, 3 links, 2 mails in a window of 4, 1 confirmation in a window of 2, waits of 2, clock 0..5 | 2 846 910 |
| `migrations` | `Migrations.cfg` | `SchemaSteps` is implemented, journals are honest, compared rows are the committed ones, the lock is freed | 2 runs of any of the four commands, ledger of 8 | 45 350 |

`ChatHistoryLate.cfg` is kept beside them for the observation in section 6.

Why the bounds are enough. Requests of `Mentorship` share nothing but blocks, and
no handler touches two, so one request shows what can happen to each; an author,
an applicant and a rival are all the roles there are, and the second acceptance
comes after a reopen, with an event of the first one in the log. In `Publication`
two calls are needed for every race (the locks admit one at a time), two requests
for a key that could move, two contents for a key that is used again; either
student is author and mentor in turn. Four calls of `Submissions` are a try, two
repeats that overlap it and each other, and one with another text. Five
messages and pages of two give windows that need three pages, an anchor at the
edge and inside of a page, and deletions of either. Two sockets of one client are
a reconnect that overlaps its predecessor; clients share nothing but the list, in
which a second socket stands for another client's. Four connections exceed both
limits of the gateway. The two requests of `GatewayProxy` use more keys than its table
holds, reach both limits, and overlap in every wait; its three kinds of routes
take limits before the body, after it, and both. `MaxLate` bounds connects that no
probe waits for; with two of them they already overlap a third probe. Deadlines of
five and six ticks are the program's 10 and 12 seconds. Times of `Verification` are
ticks: three links and two mails per window let a request find the window full, and a clock of six
instants fills it, steps past it and purges from it; accounts share no row, and that a link is of no
use to another account is `WorksOnce`, proved for any number of them. With a `Patience` of two, a
confirmation that began later overtakes a waiting request and purges an attempt the request's own
clock would still count, which makes room for one mail more: with the full hour in the place of
the shorter one, `AttemptsLimited` fails in this run. The program can do that too, by as much as a
call waits between `BEGIN` and its lock; the property leaves out exactly that.
Two operators are enough for an advisory lock that admits one; a third would wait behind
either.

`MaxMatches`, `MaxLate`, `MaxHttp`, `Last`, `EarlyLimit`, `MaxLinks`, `MaxTime` and the sets are the
only bounds; ids are used once except for sockets, which `Reuse` returns.
Deadlock is checked for `ChatHistory` only: in all other models ids, keys, calls,
ticks or connections run out, or a drained process has nothing left to do.

## 4. Fairness

Safety properties assume none.

* `publication_retry` (`RetrySpec`): the author keeps repeating the key, a transaction of
  `create_request` ends (`Commit` or `Rollback`, weakly fair), PostgreSQL
  grants a lock in the order of the waiters, and not every attempt fails.
  Repeating, the commit of a replay and each matching step get strong fairness, because a
  lock that is taken, or an attempt that fails, again and again disables them in between;
  `Fail` is never forced.
* `websocket_gateway`: Node fires the handshake timer, so `Expire` of that timer is
  weakly fair; nothing is assumed of session check, client and upstream.
* `gateway_proxy`: only the timer of each wait is fair; neither the session check, the
  client's body nor the Python service has to come.
* `service`: the supervisor's loop, timers and promises that are settled go on, and an
  abandoned connect ends by `connectionTimeoutMillis` at the latest. Neither child has
  to obey SIGTERM, and Python, the database and browsers may stay silent.
* `migrations`: the deadline ends an upgrade (bootstrap has none, so nothing is claimed
  for it), and PostgreSQL ends the session of a client that left.

## 5. Proofs

The theorems hold for every value of the constants that satisfies the named
`ASSUME`s. Each invariant is proved from an inductive one (`IInv`; where a module has several,
`DeliveryInv`, `HistoryInv`, `LimiterInv`, `ProxyInv`, `TunnelInv`), with one lemma per action or
group of actions.

`MentorshipProofs`: `TypeCorrect`, `PartnerAgreement`, `NoStrandedApplication`,
`EventsNameMentor`, `ConsentRequired`, `RefusalStands`, `BlockRespected`, and
`Refinement` of `Consent`. The invariants are not inductive: when `CommitAccept`
writes, it relies on checks made when the lock was taken. `IInv` therefore adds
`InFlight` (an open transaction still sees the status and the application it checked,
and an accept is the author's) and `RowIntegrity` (a request that does not exist has no
author, no partner and no applications). `InFlight` holds because every other action
that writes the row is guarded by `Unlocked`, which is the row lock. `Refinement` maps
each `Begin`, `Rollback` and block to a stutter and each commit to a step of `Consent`.

`PublicationProofs`: `TypeCorrect`, `NeverTwice`, `OnlyMentorsAlerted`,
`BlocksRespected`, `Refinement` of `OnceOnly`, and with them that a key names its own
request and that alerts come with their summary. `CallsOK` says what a running call
still knows of the rows it read: its request is open and unannounced because it holds
the row lock, its author and, once rechecked, its recipients are in good standing
because they are share-locked, and a block among them came after the recheck
(`overtaken`). `Exclusive` says that one call at a time holds a request. `DraftsOK` says what a
submission still knows: the request it found is there and locked, or, when it found none, there
still is none, because `Serialized` admits one submission of an author at a time. `Refinement`
needs `StillMeant`: the meaning of a key to the client is what is stored for it, also
after its request was deleted. Users are a finite set.

`SubmissionsProofs`: `TypeCorrect`, `SavedOnce`, `SafeToRetry`, `TextKept`. On the
server, `Exclusive`: a row excludes others of its key already before it is committed,
by the unique index or the lock; on the client, `KeysAreBound`: a key is never sent
with two texts, so that the row an answer names has the text the composer clears.

`ChatProofs`, delivery: `DeliveryTypeCorrect`, `LiveIsCurrent`, `AccessIsNeeded`. The core is
`MissedIsComing`: of a client on a member socket with a quiet wire, whose query is idle or
answered, every saved message that its history (or the answer) lacks has a broadcast that has not
passed its socket yet (`Coming`). It rests on `MembersAreListed` (a list with a socket in it is the
one the dict holds, which the next broadcast captures), `OwnSockets` and `OpenIsAccepted`. `ClearedHaveAccess` says that a socket that passed
its recheck has access or lost it since (`late`).

`ChatProofs`, history: `WindowHasNoGap`, `ResyncKeeps`, `OlderRowsAreReached`. `NoGap` speaks of
the finished window only; what carries it over a read of many pages is `Gathered`: nothing in a
running read lies below its cursor, and all that was saved when it began, is still visible and
lies from the cursor on has been gathered. A page keeps it because it holds the newest rows below
the cursor (`NewestUpward`), and the last page completes it because a short page holds all of them
(`ShortIsAll`). `AllNewer` is `NoGap` without `Min`; `RefetchIsOfView` says that a refetch that
runs remembers the window still shown, also after "Load older messages" replaced it, which is what
`ThenRefetch` is for.

`GatewayProofs`, tunnel: `TunnelTypeCorrect`, `CountsAreExact`, `NothingLeft`,
`StaysDrained`. The set `connections` is exactly the live handlers, and a handler has a
user only once its place is counted, so that `cleanup()` gives back what admission
took (`ReleasedIsCounted`), whichever callback comes first. No finiteness is assumed:
the set grows by one.

`ServiceProofs`: `TypeCorrect`, `PoolSound`, `Measured`, `DrainedExit`, `EndsItself`, all
of the composition. `ProbeOK`: a step that needs the client has it, and an aborted probe
knows no ledger row. `Measured` also says that a draining gateway keeps no positive answer. `InTime`: no time passes before the gateway has handled the SIGTERM,
nor beyond its deadline while it runs, so `Graceful < Patience` is all that is needed.

`VerificationProofs`: `TypeCorrect`, `MailedBeforeStored`, `WorksOnce` from `Inv`, whose
point is `RequestIsFresh`: the link of an open request is in no other mailbox, stored
nowhere, used by nobody, and shared with no other open request, so that whatever order
the commits come in, `Store` cannot revive a used link. `FailureIsHarmless` and
`NewestInTime` are action properties. `Spaced` needs that a request under the lock began
a pause after every answered one (`HolderPaused`); the row that a call reads may have
been purged by a call with a later clock, and `PurgedIsOld` and `OpenIsShort` make such
a row too old to matter, provided `Gap + Patience <= RequestWindow`: a call waits less
than the 59 minutes between pause and window. `LimitsKept` needs `HolderHasRoom`: whoever
holds the lock may add one more row to what it counted, and since nobody else adds rows meanwhile,
that stays so until it commits. What is counted is a set of rows; `RowsAreNumbered` gives each
answer a number of its own among the equal ones, and `EachAnswerCounts` says that none is merged
into an earlier one. `WindowsWithin` is the property for every window, also those to
come; that the rows counted are all the answers that matter follows from `PurgedIsOld`. The proof
showed that `Patience` has to be at least one tick, which `TimesAssumption` now says: a call that
takes no time at all does not exist.

`MigrationsProofs`: `TypeCorrect`, `JournalsAreHonest`, `RowsKept`, and `Refinement` of
`SchemaSteps`. `IInv` is that ledger and schema agree and `Sound(r)`: a session that can
still commit holds the advisory lock, and for a journey the SHARE locks, and what its
client read under them is still so.

`GatewayProofs`, limiter and proxy: `CapacityKept`, `BudgetKept`, `RetryAfterKept` of
`LimiterSpec`; `ProxyBudgetKept`, `ProxyRetryAfterKept`, `RefusedWasNotSent` of `ProxySpec`.
`Windowed` relates the table to the history: a window starts at the first call it counts and a
limit of calls before that lies a whole window back (`Started`); a key without a window has rested
that long (`Rested`), which is why dropping one from a full table is harmless. `PromisesStand`
extends the promise of a refusal to all later times. It holds when the promise is made by
`WaitIsEnough`: at the time told, the refusing window is over, or some window of the full table is
(`FirstResetEnds`, over the rounding of `SecondsSuffice`), so that pruning leaves a place
(`RoomForOne`). All of it is proved of values, one `Take` at a time (`TakeInStep`), so that the
handler, which takes two classes before it writes anything down, needs only that the two have
different keys (`ClassesAreFew`, `AllAnswer`). `RequestOK` adds that a forwarded call exists only in
the stages after the body. `KeysAssumption`: the limiter has a key for each class and account.

Only model-checked is all liveness (`RetryRepairsDelivery`, `HandshakeEnds`, `ProbesEnd`,
`StopLeavesNothing`, `RequestsEnd`, `LockIsFreed`), which is out of the prover's reach, as are
`ENABLED` and induction over data. Every other property of the passing runs is a theorem.

## 6. Where code and documents disagree, and observations

* A block that commits while an accept is in progress does not prevent the match
  (`mentorship_block_race`). `BlockStopsConsent`, which holds and is proved, is what the
  code does guarantee.
* A chat message that commits after a window was read but sorts below its first
  row stays hidden until the window is opened anew (`ChatHistoryLate.cfg`: the invariant
  `NothingHiddenBelow` does not hold). `chat-socket.ts` 120-121 stops at the first row it
  knows, and `ChatWidget.tsx` 736 shows the button by the same comparison of 50 rows. No
  document promises otherwise, so it is an observation.
* `expandHistory` (`ChatWidget.tsx` 648-663) writes the window it read into the query cache
  when its last page arrives, also when the account was changed meanwhile; whether the cache is
  the former account's is not looked at. It is read off the code; no module has accounts
  and caches together.

* "Denied sockets close with 4403" (`docs/superpowers/plans/2026-10-03-codebase-remediation.md`
  43): a refusal before `accept()` does not reach the browser as that code but as a failed
  handshake, and `connectChatSocket` keeps trying until a read of the
  history is refused (`Refuse`).
* The advisory lock of the migrations is a second guard: with it removed the ledger's primary
  key and the DDL itself would still fail the later of two operators, and `ImplementsSchemaSteps`
  would still hold. The lock appears in what `Sound(r)` proves and in `LockIsFreed`.

## 7. Not modelled

* Requests that only read: directory, tags, districts, statistics, analysis, the lists of
  blocks, reports, notifications and applications. Marking the inbox read is one `UPDATE`.
* Registration, login and logout keep no state across calls but one row and a signed
  cookie; the account policy is predicates over one row. Changes of standing
  appear where they matter, in `Publication` and `ChatDelivery`.
* `find_matches.py`, `activity_ranks.py`, `mentor_ranks.py`: pure functions. `Publication`
  holds for any ranking, so nothing in it depends on the score.
* The route table, header and origin rules, request schemas and response projections of the
  gateway: data that its tests enumerate. `livez`, `readyz` and static files wait for nobody.
* Validation, formatting, titles, texts, tags, and edits of a request that leave its state alone.
* `read_at` marks of direct messages.
* The migration planner and its dry run, which write nothing; seeding, demo, backup, restore
  and release scripts, which run alone, in one sequence.
* Pages of the client other than the chat, the discussion and the report dialog.
* Generated clients and schemas (a quarter of the implementation's lines), lessons, the mock-up
  sandbox and the earlier API server. Together with the pages, the scripts and the data above
  they are most of the repository; the modules cover the part that keeps state between
  interleaved steps.

The reasons are in `PROJECT.json`, component by component.

## 8. Plan

Done, in the order of their weight: consent and matching, publication, live chat and its history,
the gateway's sockets, requests and limits, repeatable calls, the service's start and stop,
email verification, schema changes; proofs of every safety property of all of them.

What would come next:

1. `Matching`: score, stable ranking, competition ranks and tiers as operators, checked against
   definitions over bounded inputs, and put in the place of the open choice in `Rank`.
2. `ChatThread`: `ChatHistory` and `ChatDelivery` composed, with accounts that change under a
   running read.
3. Theorems: the limits of `Verification` in terms of the rows alone; a promise of the chat (each
   message shown once, in order) that `ChatThread` implements.
4. A fair `Verification`, in which the send deadline ends every call and the calls waiting behind it.
