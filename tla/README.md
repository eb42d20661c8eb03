# A TLA+ model of trello-issur

Specifications of the server in `src/apps/api` (TypeScript: Express, Drizzle on
PostgreSQL, Valkey, RabbitMQ) and of the session code of its web client, checked with TLC and proved with TLAPS. Paths below are
relative to `src/apps/api/src` unless they start with `src/`.

## The system

Two processes share the database, the cache and the broker: the HTTP API
(`infra/http`) and the queue process (`infra/queue/app.ts`). Command handlers in
`modules/*/application/commands` change aggregates; those that must tell the rest of the
system write an `outbox_events` row in the same transaction.

| Component | State | Operations | Hard behaviour | What makes it correct | Modelled |
| --- | --- | --- | --- | --- | --- |
| Outbox and relay (`infra/queue/outbox-relay.ts`, `drizzle-outbox.repository.ts`, `unit-of-work.ts`) | `outbox_events` rows, open relay transactions, amqplib's write buffer | record, tick: select with row locks, publish, mark, commit or roll back | overlapping ticks, failure inside a batch, commit before the frame has left | no published row vanishes; every row is published | yes |
| Broker topology and consumer (`adapters/rabbitmq/consumer.ts`, `client.ts`, `publisher.ts`) | main, retry and dead queues, unacknowledged deliveries, idempotency keys in Valkey | check, handle, mark, retry, dead, ack | up to ten deliveries interleaved, redelivery after a crash, a cache that fails open | bounded repeats and outcomes, no attempt skipped | yes |
| Dead letters and replay (`dead-letter.consumer.ts`, `drizzle-dead-letter.repository.ts`, `infra/http/queue.router.ts`) | `failed_queue_events` rows, replay requests in progress | persist, acknowledge, read, publish, mark replayed | crash between INSERT and ack, concurrent replays | rows multiply only by crashes; a replay reaches its consumer (it does not) | yes |
| Members and invites (`modules/workspace`) | members, invites, two page caches | invite, accept, reject, change role, remove, six queries | check-then-act without a constraint, reads outside the transaction, cache invalidated before the commit | events match rows, open invites bounded, one owner, a page is stale only for a cause | yes |
| RBAC (`modules/auth/infra/db`, `authorize.middleware.ts`, `validate-workspace.middleware.ts`) | roles in the database, three cached facts per account | read through, invalidate, permission checks | reads racing with invalidation, a failed delete | a role is stale only for a cause | yes |
| Workspace records and avatar (`create-workspace`, `update-workspace-avatar`) | rows, storage objects | create, take a file, update the avatar | two INSERTs without a transaction, upload and delete around a save | nobody's workspace only after a cut; the avatar is stored | partly |
| Authentication (`modules/auth/application/commands`, `idempotency.middleware.ts`, `src/apps/web/src/shared/api/client.ts`) | two token stores, cookies, kept responses | log in, refresh, log out, access check, repeat | two stores written in parallel, concurrent refreshes, lost answers, expiry | cookies match the stores, a logout is final | yes |
| Rate limit (`rate-limit.middleware.ts`, `valkey-cache.repository.ts`) | a counter with a time to live | count, expire, compare | INCR and EXPIRE apart | the limit holds and is lifted | yes |
| Boards (`modules/board`) | boards, columns, cards with fractional positions | thirteen operations | whole-row saves from copies, equal positions, deletes against moves | no orphans, cards where they were asked for | partly |
| Accounts (`modules/account`) | rows, cache | sign up, look up | e-mail check before the INSERT | one account per e-mail | partly |
| Notifications (`modules/notifications`, the invite consumers) | rows | create, list, mark one, mark all | whole-row save from a copy | read for good | yes |
| Core (`core/entity`, `core/events`) | in-memory lists | watched list (a class no module uses yet), pagination | page bounds | pages make the list, pending changes do not overlap | partly |
| Circuit breaker, mail, buses, metrics, tracing, HTTP wiring | none of their own | | | | no |
| Web client (`src/apps/web/src/entities/session`, `features/authenticate`, `app/routes`) | auth store, overlay flag, route | bootstrap, log in, log out, guards | answers lost on either side of a request, overlapping actions behind a lifted overlay | the tab knows its session, the page follows the store, the overlay lifts | partly: the session |
| Packages, compose files | configuration | | | | no |

Interaction: handler -> outbox row -> relay -> main exchange -> consumer queue ->
handler (mail, notification) or retry queue -> ... -> dead exchange -> dead queue and
`dead-letters` queue -> `failed_queue_events` -> an operator's replay -> main exchange.
Every HTTP request passes authentication, then the role cache (through
`validateWorkspace`, `resolveBoardWorkspace` and `authorize`), then its handler.

## Modules

```
Broker            queues, bindings, publish, expiry of retry queues
  OutboxRelay     rows, ticks, write buffer                       EXTENDS Broker
  QueueConsumer   processMessage calls, idempotency keys          EXTENDS Broker
  DeadLetters     dead-letter consumer, rows, replays             EXTENDS Broker
    EventDelivery the queue process: all of them, and crashes     EXTENDS the three
EventLifecycle    the abstract promise, implemented by EventDelivery
Rbac              roles, permissions, what each controller requires
  AccountRoles    role table, role cache, the two middlewares     EXTENDS Rbac
    Workspaces    members, invites, page caches                   EXTENDS AccountRoles
  Boards          boards, columns, cards                          EXTENDS Rbac
Sessions          token stores, cookies, idempotency, requests of the tabs
RateLimit, SignUp, WorkspaceRecords, Notifications, WatchedList, WebSession
  ApiParts        one of the six at a time                        EXTENDS the six
```

A module `X` is given to TLC by `XMC` (symmetry sets, operation lists, and checks of pure
operators as ASSUMEs) and proved about in `X_proofs`; the proofs about `EventDelivery` are in
`EventDelivery_proofs`, `EventRepeats_proofs`, `EventAttempts_proofs` and
`EventLifecycle_proofs`.

**Broker.** One event type is modelled: each consumer has its own main, retry and dead
queue under its own names and nothing crosses between them. A queue is a bag of
messages, because delays and redelivery reorder them. A message is the event it is
about, its idempotency key (the outbox row's id, or the dead-letter row of a replay) and
its retry count; the retry queues `<queue>.retry.1..n` are one bag, as the count tells
them apart. `Bound` holds the bindings that `setupTopology` and
`DeadLetterConsumer.start` declare; a publish that nothing is bound for is dropped, as no
publish is `mandatory`. All topology is declared before the relay starts
(`app.ts` `startServices`), so it is part of the initial state.

**OutboxRelay.** `Record` is the commit of a unit of work: aggregate and row appear
together. The relay's timer does not wait for a tick, so ticks overlap; each is a
transaction whose rows are locked (`todo` and `done`). `TickPublish` is one turn of the
loop, `TickCommit` makes the marks visible, `TickAbort` is any failure of the
transaction. `outbound` is the socket's write buffer: `channel.publish` only fills it,
since `client.ts` creates a channel without confirms; `Flush` is the frame's arrival.

**QueueConsumer.** A worker is one `processMessage` call, i.e. one of the prefetch
slots. The steps end at each `await`: check (`Receive`), `handle`
(`HandleResolves`, `HandleRejects`), mark (`MarkProcessed`). The retry or dead copy and the
acknowledgement are written to the same channel in this order, so a crash can fall
between them. `handled` and `failures` count outcomes of `handle` per key; a handler that
fails half-way and its partial effects are not modelled. `CacheMayFail` allows what the
code tolerates: a check or mark that fails, and a key that expires or is evicted.
`Unparseable` are the events for which `parsePayload` yields nothing (a payload that is
not JSON, or the JSON `null`).

**DeadLetters.** The dead-letter consumer acknowledges whether or not its INSERT
succeeded. A replay is the request handler of `POST /queue/dead-letters/:id/replay`, one
step per `await`, in the API process, which has a connection of its own; the loss of its
write buffer is not modelled. This consumer has delivery slots of its own (`DeadSlots`),
since the prefetch holds per consumer.

**EventDelivery.** Composes the parts, adds `Crash` - end and restart of the queue
process. A lost connection is the same event: nothing listens for it or reconnects. A
graceful stop is a crash after the frames have been flushed, which the model includes. `processMessage` itself throws only when the channel is
closed; the `nack` that follows (`consumer.ts:39`) then throws as well, and the process ends.

**EventLifecycle.** What a caller may rely on: a recorded event ends up handled, dead, or
dropped by a crash. `ImplementsLifecycle` maps the pipeline's state to its phases.

**Rbac, AccountRoles.** `Rbac` is the permission table and one record per controller of
the workspace module: which facts its middlewares look up, the permission it asks for, the
status of each result. `AccountRoles` holds the `account_roles` rows and the role cache:
`CacheGet`, `RowQuery` and `CacheSet` are the three awaits of a lookup, `Invalidate` the
three deletes at once, of which a failure may leave any. Membership is refused with 404, a
missing permission with 403. `Kept` bounds the accounts whose entries are not evicted at
once. `raced` is history: what a race or a failed call may have left stale.

**Workspaces.** One workspace, every command and query on its members and invites. A request
slot goes from `Arrive` through the middlewares to the handler's awaits; a unit of work
writes and invalidates at one step (`InsertInvite`, `AcceptWrite`, `RejectWrite`) and commits
at another, when outbox and rows become visible. Row locks and the unique
`(account, workspace)` hold a second answer of one invite back (`Blocked`). Cached pages are
"fresh" or "stale": a commit ages the copies in the cache and in the hands of readers. `Die` is a
rejected query or the end of the process at any await; an open transaction rolls back.
`AlreadyAMember` leaves the invite pending as the code does; no property forbids it.

**Boards.** The boards of one workspace. A handler reads its row (`FindCard`, ...), the
siblings, and writes the whole row from its copy; `DropCards`, `DropColumns` and `Commit` are
the deleting transactions under foreign keys that restrict. `Position` is in units with halves rounded
down, so midpoints run out as doubles do, only sooner. Roles and membership are inputs here
(`Arrive`), as `AccountRoles` is where they change. A new row's id is one no request names.

**Sessions.** One account, one browser with tabs, and the request slots of the API. Two
stores are written by two independent calls (`Write`, in either order, either may be
rejected and still reach the store). Tokens carry their account and the second they were
issued in, so a pair is that second. The tab is `client.ts`: a 401 leads to one refresh, a refresh
whose answer is lost is repeated once under its key. `Drop` loses a request or its answer.
`raced` says why cookies and stores may differ and is cleared by an answer that nobody
raced; `ended` follows a logout no other store write overlapped.

**WebSession.** One tab. `status`, `transitioning` and `route` are the auth store and the page;
`session` says if the cookies open a session, which `Sessions` has in detail. `Boot` is the
memoized promise of `bootstrapSession`, an action a login or a logout, awaited step by step; any
request may fail on the way there or back. `Begin` is a press on a button no overlay covers:
the escape hatch lifts the overlay while its operation runs on, so actions overlap. `drifted` is
history: a failure or an overlap after which the store need not tell the session.

**ApiParts.** Six parts that share no state. `part` chooses the one a behaviour exercises,
so the instance is their sum and not their product. `RateLimit`: one address and path, INCR
and EXPIRE apart. `SignUp`: one e-mail, the read-through cache, the unique column as second
line. `WorkspaceRecords`: one slug, the two INSERTs, and the avatar over storage with one
object per extension; `Taken` is what `FileUploadMiddleware` and the controller let through.
`Notifications`: rows, made by the three invite consumers, copies written back whole, and the
list with its filter and `Pagination`. `WatchedList`: the class's four lists, with the array that
the constructor shares between two; no module of the program uses the class, so it is a
model of library code and stands under no hazard.

## Runs

| Run | Instance | Shows |
| --- | --- | --- |
| `delivery_safety` | 1 event, 2 ticks, 2 slots, 1 retry, 1 rollback, 1 crash | `TypeOK`, `NothingVanishes`, `RepeatsBounded`, `OutcomesBounded`, `DeadMeansExhausted` |
| `relay_batches` | 3 events, batches of 2, 2 ticks, 1 rollback | `NothingVanishes` when a batch fails in the middle |
| `dead_letters` | 1 unparseable event, 4 rows, 2 slots, 1 replay request, 1 rollback, 1 crash | `DeadRowsBounded` |
| `delivery_liveness` | 1 event, 2 retries, failing cache, 1 rollback, 1 crash, fairness | `OutcomesBounded` (one tick, keys forgotten), `ImplementsLifecycle`, `EventuallySettled` |
| `workspace_membership` | owner and 1 account, 2 requests, 2 invites, 2 rows per account, roles not cached | `TypeOK`, `AnswersMatchEvents`, `JoinsMatchAcceptances`, `LivePendingBounded`, `PageStaleHasACause` |
| `workspace_access` | owner and 1 admin, 2 requests, 1 invite, the admin's roles cached, cache calls may fail | `OneOwner`, `RoleStaleHasACause` |
| `boards` | 2 boards, 2 columns, 2 cards, 2 requests with their own operations, index and position up to 2 | `TypeOK`, `NoOrphans`, `PlacedWhereAsked` |
| `sessions` | 2 tabs, 2 slots, 2 seconds, access good for 1 and refresh for 2, 2 faults | `TypeOK`, `CookiesMatchStores`, `LogoutEnds` |
| `api_parts` | rate: 3 requests, limit 2, up to 4 counted; sign-up: 3 at once, 4 in all; records: 3 commands, 2 extensions; 2 notifications, 2 readers, 2 requests, 3 days; list of 3 items; tab: 3 actions | `TypeOK`, `LimitHonoured`, `LimitLifts`, `OneAccountPerEmail`, `OwnerlessWasCut`, `AvatarStored`, `ReadForGood`, `ChangesApart`, `TabTellsTheSession`, `PageFollowsStore`, `OverlayLifts` |
| `duplicate_processed_twice` | 1 event, 2 slots, 1 rollback | violated: `RepublishedNotProcessedTwice` |
| `published_event_lost` | 1 event, 1 crash | violated: `NeverLost` |
| `replay_goes_nowhere` | 1 event, 1 row, 1 replay request | violated: `ReplayReachesConsumer` |

Why the bounds are enough:

- Events meet only in a batch and in the queue of slots, so one event with several copies
  is the interesting instance for the consumer, and three with batches of two for the relay.
  Two copies make a race of duplicates: a rollback or a crash makes them. The bound of
  `OutcomesBounded` is attained. In `dead_letters` two
  dead messages in two slots when the process crashes need the four rows, so the bound of
  `DeadRowsBounded` is attained. Retry counts 0, 1 and 2 reach first attempt, last attempt and
  the dead queue. `MaxAborts` and `MaxCrashes` bound the rollbacks and crashes, `DeadRows` is the
  supply of row ids.
- Members and invites: every race listed under `hazards` is between two requests; two invites
  let one account hold two open ones at once, which is the bound of `LivePendingBounded`
  attained, and `MaxRows = 2` lets a member be removed and join again. Caching roles multiplies
  the states and is a question of its own. `workspace_access` keeps the entries of one account,
  the administrator, who acts on the owner and on itself while the owner changes its role or
  removes it; the one invite brings it back, so that a removal and what it asked for before
  overlap with its return. The owner's roles are looked up and never kept, as no step makes
  them stale. The members page is not cached in `workspace_membership`; the theorem
  `PagesGoStaleForACause` is about both pages.
- Boards: two boards make "a column of another board" possible, two columns a move, two cards a
  sibling. Each slot has its own operations, so that each deletion meets each write of a card.
  Longer lists are covered by `NthCountsInOrder` and `BetweenPlaces` (`BoardsMC`), which check
  `Position` against its reference definition on all lists of up to four positions, and by the
  theorem `BetweenPlacesIt` on all lists.
- Sessions: two slots hold a refresh and what races with it. Two seconds let an access token
  expire while its refresh token is good, and a pair of the same second be generated twice. Two
  faults are one lost answer and one rejected write. With a third slot or fault
  TLC does not finish in minutes; both properties are proved for any number.
- `api_parts`: three requests are one more than the limit; the fourth sign-up meets what three
  left behind; of three commands two can overlap while a third has read before them. Three
  actions of a tab are two that overlap and one whose timer goes off meanwhile. Its
  deadlocks are the ends of bounded parts. `PagesMakeTheList` (`ApiPartsMC`) checks Pagination
  for totals up to 7 and limits up to 4; the theorem `PagesMakeEveryList` has no such bound.
  `ListsAreMine` checks the list of notifications, filter, page and limit included, on all
  tables of up to 4 rows of two accounts.

Deadlock is checked in `boards`, `sessions` and the two workspace runs; `api_parts` stops at its
bounds, and the event runs may stop, as a pipeline with nothing left to do does.

**Fairness.** `EventDelivery!Fairness`: weak fairness of each tick (the timer keeps
firing and PostgreSQL answers), of each event's flush (the socket drains), of retry
expiry and delivery per message (the broker), and of each call's steps (every `handle`
settles; a handler that hangs for ever has no timeout in the code and is excluded).
Nothing is assumed of commands, faults, the dead-letter consumer or operators.
`RateLimit!RateFairness`: the EXPIRE that was called is carried out or rejected, and a key with a
time to live goes away. `WebSession!WebFairness`: a timer that is set goes off, `setTimeout` of the browser. Nothing is
assumed of requests and answers there. The other components promise nothing that must happen: a request may be
cut off at any await and its client need not come back.

### Where code and documentation disagree

1. `outbox-relay.ts:47-50` says a row republished under its key is recognised instead of
   being processed twice. The check (`consumer.ts:77`) and the mark (`consumer.ts:94`) are
   apart by the handler, so two copies in two prefetch slots are both handled. What does
   hold is `RepeatsBounded` and `OutcomesBounded`.
2. `create-account/handler.ts:54-56` says a crash can delay an event but never lose it.
   The row is marked published while its frame may still be in the write buffer. What does
   hold is `NothingVanishes`.
3. `src/apps/api/README.md:60` says a replay republishes to the original routing key. The
   stored key is the dead queue's (`dead-letter.consumer.ts:57`), for which the main exchange has no
   binding: the message is dropped and the row marked as replayed. The e2e test of the
   route inserts a row with a routing key of its own and does not meet the case.

Found while modelling, without a run of their own:

- FR-008 (`src/specs/001-board-card-module/spec.md:186-187`) asks for edits of a card's title
  "without changing its column or position"; `contracts/card-routes.md:22` and
  `update-card/handler.ts:28-29` repeat it. The handler saves the whole row it read: an edit
  reads a card in one column, a move puts it in another and answers 200, the edit saves its copy
  (`SaveCard`) and the card is back.
- `src/apps/api/README.md:67` says a refresh "atomically rotates both tokens". The two stores are
  written by two independent calls, and two refreshes may interleave: what holds is
  `CookiesMatchStores`, which excuses that race. The same holds of line 69: a repeat under its
  key replays the answer once it is kept, but one that arrives before is served anew.
- `with-session-transition.ts:9-11` and `auth-store.ts:11-12` of the web client say a login's
  mutation and its navigation go through `withSessionTransition`. `login-page.tsx:21` and
  `signup-page.tsx:23` wrap the navigation only, so the form is live while the mutation runs.
  `WebSession` has it as the code does (`SignIn`, `Refetched`).

## Proofs

Checked by TLAPS for every value of the constants, from the assumptions named in the
modules (finite sets of slots, requests or cards, naturals as bounds, ids of different tables
that differ, no account named like a page). Every invariant and action property that a passing
run checks is the statement of a theorem.

Events:

- `TypeCorrect`: `Spec => []TypeOK`. One lemma per group of actions.
- `PublishedNeverVanishes`: `NothingVanishes` is not
  inductive: it does not say why an acknowledgement, a commit or a duplicate may forget a
  copy. `BackingInv` adds that remembered keys were handled, that a call past its handler
  is backed by something else, and that a row published in an open transaction is backed.
- `RepeatsAreBounded`: the inductive form (`RepeatsInv`) counts
  calls at "mark" until the key is remembered and calls at "handle" afterwards; the two
  sets of slots are disjoint, and each run of the process adds at most one set of slots.
- `DeadRowsAreBounded`: rows, copies in `dead-letters` and deliveries before their INSERT are
  together never more than the copies in `<queue>.dead` and one set of slots per crash. The
  inductive form adds that the sets counted are finite. `Copies` numbers the copies in a bag, so
  that its size is a cardinality and no sum has to be unfolded; what a crash requeues injects
  into the slots that held it (`CopiesRequeued`).
- `OutcomesAreBounded`: the invariant counts all an event has had or can still have: frames, copies in
  the three queues, calls that have yet to pass their message on, completed handles, and one
  publish to come (`Credit`) while its row is neither marked nor in an open transaction's `done`.
  Every step but a rollback or a crash moves one of these to another or drops it. That a publish
  uses up the credit needs `LocksInv` and that no tick has a row in `todo` and `done` at once.
- `DeadOnlyWhenExhausted`: `AttemptsInv` gives every copy,
  queued or held, at least as many rejections as its retry count.
- `PipelineImplementsLifecycle`: the refinement. Initial states map to initial states; a step
  that is not a crash is about one key at most, and what was backed stays backed, so one event
  changes phase or none; a crash backs nothing that was not. `LifecycleInv` adds that a row a
  tick has selected is pending and selected by no other, and that an event not recorded
  has no copies.

HTTP side:

- `Workspaces_proofs`: `TypeCorrect`; `OwnerStays`, with `SparesOwner`: past its checks no
  removal, role change or acceptance is about the owner; `InviteEventsTellItsStory`, with
  `EventsInv`: no request answers an invite that is not written. `RolesGoStaleForACause` and
  `PagesGoStaleForACause` need what `RoleInv` and `PageInv` add: what is on its way into a cache is
  excused like what is in it, and the pages an open transaction has invalidated are raced if
  they are cached or in flight again. `OpenInvitesBounded` is inductive as it stands, on
  cardinalities: only `FindPending` makes a new candidate, and it saw no open invite.
  `JoinsAreAnnounced` counts acceptances as numbered pairs too; the commit that adds the row
  adds exactly one pair, of the account it adds the row for.
- `Boards_proofs`: `NothingOrphaned`, with `RequestsOK`: a copy's column belongs to the copy's
  board for ever, and what a transaction drops held only what it dooms. `CardsStandWhereAsked`:
  `Nth` is a CHOOSE, so the proof first shows that its position exists (the least position with
  enough siblings up to it) and what follows from it; then one lemma per case of
  `Position.between`. `BetweenPlacesIt` states this of the operator alone.
- `Sessions_proofs`: `LogoutIsFinal`, with `LogoutInv`: after such a logout no slot has a pair
  left to write. `CookiesAreTheStores`, with `CookiesInv`: while nothing has raced, one change at
  most is under way; every request that bears one key gets one answer; and as long as the jar
  differs from the stores, a request or an answer that will tell the browser is still on its way.
- `ApiParts_proofs`: one invariant per part (`RateInv`, `SignUpInv`, `RecordsInv`, `NotesInv`,
  `WebInv`).
  `RateInv` counts the requests of the window still open against the counter, the others say
  what each slot's position implies. `StaysRead` is an action property. `PagesMakeEveryList` is about
  the operators of Pagination alone. `TabKnowsItsSession` and `PageIsGuarded` rest on `WebInv`:
  bootstrap comes before any action (`BootFirst`); an action that is alone, or of a tab that has not
  drifted, is the only one (`OneByOne`); and at each step of it store and cookies are what the
  steps before made them (`Stage`).

Only model-checked: `EventuallySettled`, `LimitLifts` and `OverlayLifts`, which are liveness under fairness and
beyond the prover; `NthCountsInOrder`, whose reference definition sorts recursively; and
`ListsAreMine`; and `FlattenSeq` in `PagesMakeTheList`, a fold, for which the theorem speaks of row numbers instead.
Proof modules use no recursive operator.

## Not modelled

- Message contents beyond the key and the retry count; the text of headers and logs; partial
  effects of handlers; the broker losing durable messages; the database losing committed rows.
- The circuit breaker's own states, which belong to its library. What callers see of it is a
  rejected call that may still take place, and every module has that.
- Mail, buses, metrics, tracing and dependency wiring: no state of the program's own.
- The order of columns (it uses the same `Position` as cards), names, titles and assignees of
  boards; presigned URLs; the branch for personal workspaces, which no controller reaches;
  argon2 (a password is right or wrong); `DomainEvents`, which no module uses.
- The web client but for its session code: React views over server data. The workspace routes
  keep server data of their own (`ensureQueryData` in `workspace-layout.route.tsx` and
  `workspace-index.route.tsx`), see the plan.

Hazards listed without a property: an acknowledged dead letter whose INSERT failed (deliberate),
concurrent replays of one row (without effect while no replay arrives), the invite that stays
pending when a member answers it (one request, no race), and the edit of a card that undoes a
concurrent move (in the model, and against FR-008: see above).

## Plan

1. A third request slot in `sessions`, if symmetry brings it within minutes.
2. `Position` over columns, and assignees that lose their membership.
3. The workspace routes of the web client: both loaders answer from kept data, and the layout
   redirects to `/` on any failure, where the index picks the first kept workspace again.
