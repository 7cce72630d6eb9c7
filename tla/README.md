# Nexus services: a verification project

TLA+ modules for the state-changing core of this repository, TLC configurations
that check them on small instances, and TLAPS proofs of the safety of
all of them for every size. Paths below are relative to `internal/` unless they start with `cmd/` or
`docs/`.

To check a module, `tlc -config MCOutbox_safety.cfg MCOutbox`; to check the
proofs about it, `tlapm OutboxProofs.tla`. `PROJECT.json` lists the runs, the
lines of code that each definition models, the hazards of the code with the
properties that cover them, and for each property a plausible bug that TLC
finds it violated by.

## 1. The system

Three kinds of processes run, each in any number of instances, and share
nothing but their stores:

| process | what runs in it |
|---|---|
| `cmd/api` | HTTP handlers, the websocket gateway, an image cleanup loop |
| `cmd/outbox-publisher` | publishing goroutines and a lease-recovery loop |
| `cmd/delivery-dispatcher` | one loop over a durable JetStream consumer |

The stores are a MongoDB replica set (documents, multi-document transactions,
TTL indexes), NATS (a JetStream stream `CHAT_EVENTS`, and Core NATS, which
keeps nothing) and Garage, an S3 object store. A message travels

    POST /messages -> MessageStore -> outbox document -> Outbox worker
      -> JetStream -> Delivery dispatcher -> Core NATS -> Gateway -> websocket

and every arrow may break: a process dies, a reply is lost, a lease runs out, a
clock is behind. The promise of `docs/message-delivery-architecture.md` is
at-least-once delivery up to the dispatcher, and re-reading the timeline after
a websocket was closed.

### Inventory

| component | state it keeps | operations | what is hard | what makes it correct |
|---|---|---|---|---|
| Transactional outbox (`application/outbox`, `resources/mongodb/outbox_repository`, `drivers/worker/outbox_runner`, `resources/nats/jetstream_publisher`) | outbox documents: status, lease, two times; the lease and event in the hands of each worker | insert, claim, publish, mark published, mark failed, reschedule, recover | workers that outlive their leases; lost and late publishes; recovery that reads before it writes | no event lost, none failed that was sent, fencing by lease, every event settles |
| Message creation (`application/messages`, `resources/mongodb/message_store`) | chats (last sequence, summary), timeline items, outbox events, images | create: lookup, transaction, second lookup | racing retries of one key, unknown commits, clocks that differ | one message per key, gapless sequences, an event with each message, true answers |
| Sessions (`application/auth`, `domain/session`, `resources/mongodb/session_repository`) | one document per session: digest, expiration, revocation | sign in, refresh (read, sign, rotate, or revoke after a reuse), log out, TTL deletion | two holders of one token; logout during a refresh; documents that vanish | single use, reuse ends the session, an end is final |
| Images (`application/images`, `resources/mongodb/image_repository`, `resources/garage`, `drivers/worker/image_cleanup`) | image document: status, lease, two owners' tokens, grace; the object in the bucket | upload (reserve, put, confirm, release), attach, clean up (claim, delete, complete) | two stores without a transaction; PUTs that arrive late; takeover | no message without its object, no object without a document |
| Delivery (`application/delivery`, `drivers/worker/delivery_runner`, `resources/nats/delivery_failure`, `realtime_publisher`) | consumer state per event; failure records | fetch, dispatch, ack, nak, record and terminate | overlapping deliveries, half dispatches, lost acks, events that never succeed | acked means told to both, given up means recorded, each event is settled |
| Websocket gateway and subscriber (`drivers/websocket`, `resources/nats/realtime_subscriber`) | connections with queues, one shared subscription per user, health epoch | reserve, prepare, activate, broadcast, write, fail, close, release, check sessions, shut down | goroutines over one mutex per structure; callbacks during subscription; reconnects | no silent gap on an open connection, ready comes first, no subscription leaks |
| Rate limiter (`resources/mongodb/message_rate_limiter`) | one document per user: admitted times, last check | reserve; TTL expiry | primaries with different clocks; the document expires | never more than 30 per 10 s and 60 per minute, no refusal without cause, Retry-After is true |
| Timeline (`application/timeline`, `resources/mongodb/timeline_repository`) | none; reads items | list by sequence, backwards or by time; audit | reading while the log grows, with times that disagree | following the answers misses nothing and is not refused |
| Chats and users (`application/chats`, `application/users`, `resources/mongodb/chat_repository`, `user_repository`) | chat documents with a unique pair key; user documents | sign up, create direct, list chats, list users | concurrent upserts; paging over a key that moves | one chat per pair; a list shows each entry once |
| Access tokens, HTTP plumbing, cryptography, configuration, wiring, stress tool | nothing that outlives a request | verify, parse, start | little: single statements | see "not modelled" |

## 2. The modules

| module | models | abstract specification | proofs |
|---|---|---|---|
| `Outbox` | the outbox and its workers | `Publication` | `OutboxProofs` |
| `MessageStore` | creating a message | `IdempotentLog` | `MessageStoreProofs` |
| `Sessions` | one session | | `SessionsProofs` |
| `Images` | one image | | `ImagesProofs` |
| `Delivery` | the dispatchers and their consumer | | `DeliveryProofs` |
| `Gateway` | one user's websockets on one instance, and the NATS subscriber | | `GatewayProofs` |
| `RateLimiter` | one key of the limiter of attempts | | `RateLimiterProofs` |
| `Paging` | pages, cursors and walks, for the next two | | `ReadingProofs` |
| `Timeline` | reading a timeline, and the audit of old data | | `ReadingProofs` |
| `Directory` | accounts, direct chats and their lists | | `ReadingProofs` |
| `Reading` | `Timeline` and `Directory` in one instance | | `ReadingProofs` |

`MCx.tla` with `MCx*.cfg` instantiate module `x` for TLC. Conventions: an
operator that follows the comment "Mutant:" is a plausible wrong version of the
definition after it and is used by nothing else; an action has the name of the
function it models; an answer of a request is a state, so that what a client
was told can be compared with what happens afterwards. `MessageStore` abstracts
the life of an image to three actions, which `Images` details; `Images` in turn
has the attachment by a message as one action. The outbox event that
`MessageStore` writes is the one that appears in `Outbox` as `InsertEvent`, and
what reaches the stream there is `Publish` in `Delivery`; `told` in `Delivery`
is `Publish` in `Gateway`; the items that `MessageStore` inserts are those of
`AppendItem` in `Timeline`, and its summary is `Touch` in `Directory`; a session
that ends in `Sessions` is `EndSession` in `Gateway`. These hand-overs are single
atomic writes in the code, which is why the parts can be checked apart.

### Outbox

An event's document is `status`, `leaseId` and two flags, `due` and `expired`,
for the two comparisons with a clock that the filters make. They flip at any
moment: the result covers every speed and every skew. A worker (`pc`, `claimed`,
`held`) is one goroutine in `RunOnce`; between claiming, publishing and
finishing anything else may happen, and `Return` is also its death. `observed`
is the batch that `RecoverExpired` has read and not yet written. `inflight`
holds publish requests that their sender gave up on. The attempt counter is
left out with the delay it selects.

### MessageStore

A request goes through "lookup", "transaction" and "duplicate" or
"unavailable", as `CreateWithOutbox` does; the transaction is one step, as its
snapshot isolation and majority commit make it, and its commit may succeed while
the request learns of an error. Each request has read its creation time before.
Its idempotency key is a pair (sender, client message ID).

### Sessions

One session document, a set of tokens each with the times signed into it, and
requests that stall between their calls of the repository for any time. `known`
is what some client holds: any known token may be presented again by anybody.
The reply of a refresh may be lost. Clocks are behind by at most `Skew`.

### Images

Times are kept as what is left of them, so that a state has no absolute clock.
An instance reads a clock, or has read it, up to `Skew` ago. `put[u]` is how
much longer a PUT may take effect. `delay[p]` bounds suspensions at the two
places where `docs/images.md` leaves an unbounded one to operators: before a PUT
is sent, and between a deletion and the clock reading that judges it.
`ImagesAssumption` and `DeadlinesAssumption` say how periods must be related;
the code's (lease 2 min, grace 5 min, PUT timeout 30 s) leave room for
suspensions and clocks of more than a minute. Attachment keeps the object
because the filters of the cleaner name PENDING and READY only.

### Delivery

`consumer[e]` is what JetStream knows of an event, `answers` the
acknowledgements that are under way to it, from any delivery of the event. A
dispatcher goes from "dispatching" to "halfway" (the recipient was told),
"dispatched", "invalid", "recorded" or "failed". `Crash` may come anywhere.
A `Stuck` event is one whose dispatch fails whenever it is tried.

### Gateway

Every region under a mutex is one step, and what a goroutine copies there and
uses afterwards is a variable: the listeners that a failure has still to call
(`failing`), the connections that somebody is about to close (`closing`), the
event and the connections of a broadcast (`pushing`). The goroutine of `prepare`
has a `stage` for each state object that the connections of a user share; a
failed one is replaced, so that an old and a new one live side by side. The link
to NATS breaks, which the server knows before the client does; the client then
queues callbacks that run `fail`, once for the loss and once for the reconnect,
and one more for each event that overflows its pending limit. Events are numbers
and 0 is the ready message. `EndSession`, `SessionsUnread` and `CloseItself` are the
three reasons for which a single connection is closed. Left out: the map of
attempts, the limits that only refuse a request, and the sizes of the events.

### RateLimiter

One document of one key, which each attempt changes by the aggregation pipeline
of `reservationPipeline`; the windows, their limits and the second are constants.
`$$NOW` is the true time plus the offset of the current primary, and
`ChangePrimary` takes another one, so that the clock of the database jumps in
both directions. `admitted` and `promised` are what the requests were told, from
which the properties are stated in true time. An upsert that meets a duplicate
key is a step of its own, and so is its retry. `Filtered` is the `$filter` over the
stamps, said as the sequence of those that satisfy the condition, in their order;
`FilterKeepsOrder` in `MCRateLimiter` has TLC compare it with `SelectSeq`, which is
recursive and would be out of reach of the proofs.

### Timeline, Directory and Reading

`Paging` has what the repositories share: a sort, one document more than the page
to know whether there is another one, the last item as the cursor. In
`Timeline` a reader begins with any admissible or inadmissible combination of
`order`, `beforeSequence`, `afterSequence` and `throughSequence`, chooses the size
of each page, and follows what the answers say (`NextRequest`). The items come
from old data that the audit accepted, and from `AppendItem` with the next
sequence, any time and any ID. In `Directory` a call that creates a chat has the
steps of `GetOrCreateDirect`: the search and the insert of one upsert, which the
unique index keeps apart from another, and the second search after a duplicate
key. Its readers page the two lists by the same rules. `Restorable` and
`Restored` are the checks of `toDomain`, which turn one unsound document into a
failed request. `Reading` runs either part and leaves the other at its start: the
two share no state and their product would only multiply states.

## 3. The runs

| run | instance | shows |
|---|---|---|
| `outbox_safety` | 2 events (one unpublishable), 3 workers, 1 recovery loop, 7 leases | sole ownership, FAILED implies never sent, fencing, refinement of `Publication` (confirmed only when stored, settled for good) |
| `outbox_live` | 2 events, 1 worker, 1 recovery loop, fair | every event settles |
| `message_store` | 3 requests, 3 keys, 3 users, 2 chats, a text and an image, 2 clock readings, `MaxSequence` 2 | gapless bounded sequences, events, attachments, summaries, true answers, refinement of `IdempotentLog` (one message per key) |
| `sessions_safety` | 3 refreshes, 1 logout, 4 tokens, time up to 4 | single use, reuse detection, logout, finality, expiration with the token |
| `sessions_deleted`, `sessions_skewed` | 2 or 1 refreshes, 1 logout | two divergences from the documented answers (section 6) |
| `images` | 2 uploads, 2 contents, 2 cleaners, smallest admissible periods, fair | stored while usable, gone when DELETED, true 200s, exclusive leases, and an unattached image is deleted in the end |
| `delivery` | 3 events (valid, invalid, stuck), 2 dispatchers, `MaxAckPending` 2, fair | acked means told, given up means recorded and invalid, every event but the stuck one is settled |
| `gateway_safety` | 2 connections, 2 state objects, 2 events and breaks in all, queues of 2, 1 pending event in the client | no silent gap, order, one shared subscription, bounded queues |
| `gateway_live` | 1 connection, 1 state object, 2 events, 1 break, 1 ended session, fair | feeds advance or end, doomed connections close, shutdown completes |
| `rate_limiter` | 2 requests, limits 2 in 3 ticks and 3 in 6, 2 ticks to a second, skew 1, time up to 11 | both limits, justified refusals, Retry-After; no deadlock |
| `reading` | 1 reader, 4 items, 2 times, pages of 1 or 2, `MaxSequence` 5; 3 users, 2 calls that create chats | complete, repetition-free walks; no late refusal; one chat per pair |

**Why the bounds are enough.** A race needs an old owner, a new owner, and
somebody who interferes: three workers or refreshes, two uploads and two
cleaners, two dispatchers and the answers of earlier ones. Two events, chats or
contents distinguish "this one" from "another one". In the message store three
requests give a winner, a loser that collides with it and a retry in every
combination of bodies. Seven leases are one for each of the three workers and
two documents with two to spare: a lease is taken anew only while nobody
remembers it, which is freshness, not reuse. `MaxSequence` 2 lets the third
message of a chat meet the limit. The periods of `Images` are the smallest that
satisfy its assumptions with `Skew` and `Suspension` at 1; with `Grace` one smaller
than the assumption requires, TLC finds an orphaned object.

In the gateway two connections share a state or leave a failed one for a new one;
a queue of two is full with the ready message and an event, or with two events
that precede it; two events or one event and a break (`MaxBoth`) suffice for an
event before, during or after any step of a preparation. The liveness instance
has one connection and state, so that a shutdown, an end and a failure meet on it,
but three occurrences. In the rate limiter time runs for almost two of the longer
windows, so that the document fills, frees its burst window before the other one,
expires and fills again. Four items and pages of two give three pages, with
appends between any two of them; two times make ties and times that contradict
sequences. Two calls for one pair are the race, and three users give the pairs
that overlap.

Safety runs use symmetry over interchangeable processes; runs with liveness use
none. All that is not liveness holds for every size by proof (section 5), so that
for it the instances only had to be large enough to break the mutants.

Only `rate_limiter` checks for deadlock. Elsewhere the system really comes to
rest: finished requests, connections and walks are not replaced, events and
items are bounded, and nothing is left to do when all is settled.

## 4. Fairness

- `Outbox`. `RecoveryFairness`: time passes (`LeaseExpires`), a recovery
  that has read a batch writes it, and an event that is expired again and again
  is in a batch at some time, because `recover.go` sorts by `locked_until` and
  the loop runs on a timer of its own. `WorkerFairness`: `RunOnce` returns, since
  each of its calls has a timeout; a due event is claimed in its turn, because
  `claim.go` sorts by `next_attempt_at`; and a worker that tries often enough
  gets its answer within the lease some time (`publish_one.go` refuses a lease
  not longer than its two timeouts). Strong fairness is needed because leases
  expire between any two steps.
- `Images`. Time passes; a process is not suspended beyond its bound; an
  image that can be claimed again and again is claimed (`Run` repeats every
  minute without end); and the deletion and its completion succeed some time
  when the claim that they belong to is still theirs.
- `Delivery`. AckWait and delays end; the consumer serves redeliveries and new
  events in turn; `processMessage` ends, all its calls having timeouts; dispatch,
  record and acknowledgement of an event that is not stuck succeed if they are
  tried without end.
- `Gateway`. Goroutines run: the one of a preparation, the handler of a
  subscription, the request of each connection, its writer, and whoever is going
  round to close connections. The client library notices a break and runs its
  callbacks, and the monitor of sessions comes round. Nothing makes the link
  come back, a client connect or leave, or the monitor of health succeed; a
  subscription whose flush is not answered is refused by its timeout, which is one
  of the steps of `Prepare`.

Nothing is assumed of crashes: they may repeat without end, as long as some
attempt goes through.

## 5. What is proved

All theorems are for every value of the constants that satisfies the assumption
of its module. They rest on one inductive invariant for each component,
`InductiveInvariant` (`Spec => []IInv`) or, for the two parts of `Reading`,
`TimelineInvariant`, `DirectoryInvariant` and `ListsInvariant`.

- **Outbox.** `IInv` joins to the safety invariants what a worker knows: a busy
  worker holds an event and a lease, no two remember one lease
  (`LeasesAreUnique`), an acknowledged event is in the stream (`WorkerKnows`), only
  valid events are ever sent. `LockedExactlyWhileClaimed` is needed even for
  types: recovery copies a lease out of a document. Proved: all five invariants,
  `SettledIsFinal`, `ClaimEndsByOwnerOrExpiry`, and `Refinement`
  (`Spec => ImplementsPublication`).
- **MessageStore.** The invariants are inductive together once it is known that a
  request without an answer has stored nothing. Every step that stores nothing
  gives an answer that the store justifies (`TruthfulReply`); the transaction is
  the only other step. `Refinement`: an append adds one element to the function
  that the log is mapped to, in which no earlier place changes.
- **Sessions.** A token that a refresh has signed is its own secret until it is
  stored (`Rotating`), and a token that was exchanged is never current again
  (`Spent`). From these follow single use, reuse detection, logout, expiration and
  the finality of an end.
- **Images.** `Reach(u)`, how long upload `u` can still bring the object about, is
  bounded by the lease of who holds it and by the grace less a suspension
  for everybody else; so a deletion that is judged the last one comes when no
  reach is left. `DeadlinesAssumption` is used for exactly two facts, in lemma
  `Margins`. Proved: `TypeOK`, `ReadyIsStored`, `DeletedIsGone`, `OkMeansStored`,
  `LeaseIsExclusive`.
- **Delivery.** What a dispatcher has done shows in its place (`Progress`); an
  answer under way was earned (`AnswersEarned`). Proved: `TypeOK`, `AckedIsTold`,
  `TerminatedIsRecorded`.
- **Gateway.** Say that a state object is `Good` while no failure of the link has struck
  it or is about to. Then what a connection was sent, what waits in its queue, what
  broadcast is handing on and what the NATS client still holds are together an interval
  of the events that ends with the last one published and begins, at the latest,
  after the activation (`NothingMissed`); and the four follow one another
  (`FeedsInOrder`, `EventsInOrder`), so that the interval comes in order. Why it is one
  from the start: nothing is on its way before the server knows the subscription, which
  it does from the answer to the flush on (`SubscriptionsAreSound`), and nobody is ready
  before that (`StatesAreShared`, `ConnectionsAreSound`). What happens to a state that is not
  good: each of its connections is stopped or is on the list of somebody who will stop it
  (`FailedAreClosing`), so that the gap it may have is not silent. Proved: `TypeOK`,
  `SharedSubscription`, `FeedInOrder`, `NoSilentGap`.
- **RateLimiter.** The document's stamps are those of the latest attempts admitted,
  each at most `Skew` later than its attempt, and the attempts without a stamp are out of
  the longer window already (`StampsAreLatest`); of the stamps no `BurstLimit` + 1 lie in
  one burst window and no `MinuteLimit` + 1 in one minute (`StampsAreFew`). Stamps go up,
  because `$max` keeps `last_checked_at` from going back, so that each of the two filters
  keeps a suffix (`FilterIsSuffix`), and a limit is reached exactly if a certain stamp is
  younger than the window. A promise needs one more fact, that at the promised time the
  stamps that fill a window begin to leave it (`PromiseHolds`): refusals change no stamp.
  Proved: `LimitsHold`, `RefusedOnlyWhenFull`, `RoomAsPromised`.
- **Paging.** A page is what comes first in an order and all that comes before
  any of it; if more was found than fits, the page has a last element, the cursor
  (`PageIsPrefix`). Hence appending the page after a cursor to what was read up to it
  leaves nothing out. The lemmas take the order as a set of pairs, since one that is
  an operator could not be instantiated by the provers.
- **Timeline.** What the audit lets pass has every sequence of 1..counter once, and
  appending keeps it (`DataIsSound`, `AuditIsEnough`). A recovery has all sequences that it
  has passed (`Recovery`), history all from its cursor up (`History`), and a walk by time
  all the items it found at first that are not behind its cursor (`Legacy`). Proved:
  `RecoveryComplete`, `HistoryComplete`, `LegacyWalkComplete`, `NeverRefusedLate`.
- **Directory.** That the index refuses a second chat needs the pair in order, so that
  equal pairs are equal field by field (`PairsAreOrdered`, from lemma `Ordering`), and
  that a call reports a creation only once it is answered (`CallsAreSound`): then the
  call that inserts finds no other call for the two that was answered. Every stored
  chat can be restored (`ChatsAreSound`): inserting gives it one time, and `$max` never
  moves the other back. A list is read while chats move in it; an entry that was shown,
  or was there at first, has moved only to where the reader has been already
  (`OnlyMovesAhead`), and everything up to the cursor that did not move was shown
  (`UpToCursor`). Proved: `OneChatPerPair`, `ListWalkComplete`.
- **Reading.** Each step of the composition is a step of one part and leaves the other
  alone, so that all six properties hold of it (`ReadingIsComplete`).

Induction over numbers is made through least elements of sets of numbers
(`LeastNumber`), because the library's induction theorems take an operator as a
parameter. The assumptions on constants are those of the modules: bounds are numbers,
"none" is no item, request or entry (`NoneAssumption`, `DirectoryAssumption`), and the
relations between periods that `Images` and `RateLimiter` state.

Five of the proved properties are not listed in a run, because another one of
the run includes what they say: `TypeOK` of the first five modules is part of
`IInv`; `LockedExactlyWhileClaimed` is inductive with it; `PublishedIsStored` and
`SettledIsFinal` follow from `Promise!Spec` in `ImplementsPublication`; and
`OneMessagePerKey` follows from `ImplementsIdempotentLog`.

Only model-checked: the six liveness properties (`EveryEventSettles`,
`UnattachedIsDeleted`, `EveryEventIsDelivered`, `EveryFeedAdvances`, `DoomedIsClosed`,
`ShutdownCompletes`), because the prover has no rule for fairness.

Taken as given in the models, and so in the proofs: atomic single-document
updates and serialisable transactions in MongoDB; UUIDs that do not repeat
while they are remembered; digests that do not collide; a stream that keeps what
it has acknowledged; a Garage that, once a deletion was acknowledged, shows the
object again only if a PUT takes effect after it.

## 6. Findings

- `sessions_deleted`: a session that the TTL index deletes between the read and
  the rotation of a refresh makes it answer 500, where
  `docs/frontend-auth-contract.md` has 401 (`application/auth/refresh.go`,
  `rejectReusedToken` passes `ErrSessionNotFound` on).
- `sessions_skewed`: a logout on an instance whose clock is behind the one that
  signed in stores `revoked_at < created_at`; `session.Restore` refuses that
  document from then on, so every refresh answers 500 and, in the batch read of
  the gateway, the check of all sessions of the batch fails.

Met while modelling, and no disagreement with a document: a delivery that always
fails occupies one of `MaxAckPending` places for good, so 32 of them stop all
delivery (`EveryEventIsDelivered` holds with fewer only); a logout with an expired
token answers 204 and revokes nothing; a retry of a stored message consumes rate
quota, as `docs/frontend-messages-contract.md` says it does; a user whose window of
connection attempts is over is refused while the map of attempts is full, until
the monitor has removed the entry (`drivers/websocket/hub.go`); `GetOrCreateDirect`
answers the one who created a chat with times in nanoseconds that the store keeps
in milliseconds only.

## 7. Not modelled

- Access-token verification, HTTP plumbing and configuration keep no state over
  several steps, so that a unit test reaches what a model would. Authentication is
  one verification and one read whose outcome is `Active` in `Sessions`.
- Password hashing and tokens are taken as ideal; e-mail and password rules of a
  user are single checks.
- `images.Service.Access` reads one document and decides. Image parsing and the
  upload slots of a process are left out of `Images`.
- In the gateway, the limits that refuse a request (all connections, attempts per
  minute), the ping and write timers (they are `CloseItself`), codes of closing,
  and the subscriber's `Close` at the end of the process.
- The retry of a transaction by the driver, and the wording of errors and logs.
- The stress tool is no part of the service.

## 8. Plan

Done: `Outbox`, `MessageStore`, `Sessions`, `Images` and `Delivery`, which are the path of a
message to the dispatcher and the two protocols with leases and secrets; `Gateway`,
`RateLimiter`, `Timeline` and `Directory`, which are what a client sees; and the proofs of
every invariant, action property and refinement that the runs check. To do, most
important first:

1. An abstract specification of the gateway: a feed that, from ready on, has every
   event in order until it is closed. `NothingMissed` is what its refinement would rest
   on.
2. `Pipeline`, `Outbox` and `Delivery` joined by the stream, for the claim that each
   stored message is told to both participants. With one event TLC checks that
   composition; with two, the strong fairness of both parts together is beyond
   it, so that the join should be made on `Publication` in place of `Outbox`. Its safety
   follows by proof from `Refinement` and `AckAfterDispatch` once the two specifications
   share the stream.
