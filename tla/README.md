# A TLA+ verification of the LogFlux Go SDK

The SDK (repository root `src/`) collects log entries in an application,
encrypts them and sends them to a LogFlux ingestor.  Three things make it hard:
an asynchronous client (a bounded queue, a pool of workers, a retry loop, rate
limits, key renewal and a `Close` that brings all of it to an end); a package of
global functions that any goroutine may call while another initialises it; and
integrations that hang on to requests they did not start.  This directory models
all three in TLA+, checks them with TLC on small instances, and proves their
core invariants with TLAPS for every instance.

`PROJECT.json` is the index: components, runs, the source lines behind every
definition, a mutated definition per property, findings, hazards, theorems.

## 1. Inventory of the system

| Component | State it keeps | Operations | Talks to | Hard behaviour | Module |
|---|---|---|---|---|---|
| Queue `pkg/queue` | slice, closed flag, two channels | Enqueue, Dequeue, DequeueBatch, DequeueWithContext, Clear, Close | clients, workers | wakeups, shutdown while asleep | `Queue` |
| Retry `pkg/retry` | configuration, written without a lock | Retry, readiness probes, EnableResilientMode, SetHealthCheckURL | the closure that sends | budget against free 429s, cancellation | `Retry` |
| Resilient client `pkg/client/resilient_client.go` | counters, pause, blocked categories, closed flag, encryptor | Send*, SendLogBatch, Flush, Close, RenewSession, EnableResilientMode, statistics | queue, retryer, server, encryptor | everything concurrent | `ResilientClient`, `Session`, `Startup` |
| Encryption `pkg/crypto` | AES key, its mutex | NewEncryptor, EncryptRaw, Close | both clients | key zeroed under a user | `Session`, `Startup` |
| Sync client, multipart builder `pkg/client` | encryptor | SendEntry, SendLogBatch, Close | server | sends after Close | `AsyncLogger`, `Startup` |
| Configuration `pkg/config` | none | key and environment parsing, defaults | constructors | layers of defaults over each other | `Startup` |
| Discovery `pkg/discovery` | endpoints | static document, four gateways | HTTP | fallback order, one deadline for all | `Startup` |
| Handshake `pkg/handshake`, `pkg/crypto/rsa.go` | the session key | init, complete | ingestor | a reply lost after the key is registered | `Startup` |
| Async logger `pkg/logger` | buffered channel, done channel | Log*, Fatal, Close, worker | the sync client | Close against the draining worker | `AsyncLogger` |
| Global SDK `logflux.go` | package variables under one lock, a context under another | Init*, hooks, sampler, captures, breadcrumbs, Close | client, ring | Init in the middle of captures | `Sdk` |
| Scopes, spans, tracing | fields and attribute maps | setters, End, headers, TracingMiddleware | global SDK | a map shared with a payload | `Sdk`, `Middleware` |
| Breadcrumb ring `pkg/payload` | circular array | Add, Snapshot, Clear, Size | global SDK, scopes | wrap-around | `Breadcrumb` |
| Payload builders, sampler `pkg/payload` | the shared context | ApplyContext, ShouldSample, Marshal | captures | | `Sdk` |
| Adapters `pkg/adapters` | fields, an entry's map | log methods, With, Named | a client | memory two requests share, Fatal and panic | `Adapters` |
| Web frameworks `chi`, `gin`, `echo`, `fiber` | a span per request | the middleware | global SDK | panics, errors, nested requests | `Middleware` |

What makes each of them correct:

* **Queue.**  An entry is handed out once and in order; nobody sleeps while
  there is work or after a shutdown; nil means it is really over.
* **Retry.**  The budget is spent exactly, 429s are free, a cancelled context
  ends the loop and its traffic.
* **Client.**  Every entry has one owner until it is settled; the statistics
  count what they say; the key outlives the workers; `Close` returns.
* **Session.**  Key ids and keys stay together; renewals neither destroy the key
  in use nor leave one behind.
* **Startup.**  A client that starts is usable, and the key it holds is the one
  its ingestor knows by the id it names, after any number of failed attempts.
* **Async logger.**  Entries leave in order, all of them, and readable.
* **Global SDK.**  What one Init brings stays together; an entry never meets
  hooks older than its client's; what sampler or hook filters leaves no
  breadcrumb; a span is sent once; the trail holds the newest breadcrumbs; only
  maps the application has lent can be written while they are read.
* **Integrations.**  A message carries its own call's fields; a finished request
  has one trace, an error if its handler failed or answered 5xx; traces follow
  the headers handlers inject.

## 2. Modules

    Queue ----.                          Startup <-- AsyncLogger --> Batches
    Retry ----+--> ResilientClient
    Batches --'         |                Trail <---- Sdk ----> Breadcrumb
    Session             +--> Ledger      Adapters <- Middleware

    QueueProofs  RetryProofs  SessionProofs  LoggerProofs  BreadcrumbProofs
    SdkProofs    MiddlewareProofs  ClientProofs --> QueueProofs, RetryProofs

`Ledger` and `Trail` are abstract specifications, of the client and of a
breadcrumb ring.  `Queue` and `Retry` are checked by themselves and are then
components of the client, which makes their steps its own.  The `MC*` modules
add what a `.cfg` cannot spell: symmetry sets, constant functions and records,
and the constraints that bound the runs.

**Queue.**  A method body under `q.mu` is one action.  `DequeueWithContext` is
not one critical section, so each caller has a program counter through it:
Dequeue, the closed check, the select, the sleep, the last Dequeue.  The channel
`notEmpty` is its one-token buffer; as in Go, a send with a sleeping receiver
hands the token over and otherwise fills the buffer, and closing a channel wakes
all its receivers with that case.  A select with several ready cases picks any.
`compactLocked` changes a slice's capacity only and is not modelled; `Size`,
`IsFull`, `IsEmpty`, `GetItems` change nothing.

**Retry.**  One caller is one goroutine in `Retry`: `attempt`, `lastErr` and the
position in the loop, its two selects and `waitForServerReadiness`.  Errors are
reduced to the classes the code tells apart: counted (`server`: 500, 502, 503,
504; `net`: the keywords of `isRetryable`), free (`rate`: 429) and final
(`quota`: 507; `client`: other statuses; `fatal`: everything else, cancellation
included).  `ResilientMode` and `HealthCheckURL` change at any moment, as they
do without a lock in the code.  The ghosts `failures` and `lateStarts` count
what the properties speak of.

**ResilientClient.**  Composes the two: `Q == INSTANCE Queue`, `R == INSTANCE
Retry`, sharing the client's context.  `enqueueEntry` is five steps (closed
check, admission, Enqueue, statistics), the worker follows its loop (dequeue,
pause check, re-enqueue, pause, fill the batch, Retry, report), `sendMultipart`
is one exchange whose outcome the server chooses, and an exchange that fails may
have been accepted all the same.  `Close` is one step per statement.  The ghosts
`fate`, `deliveries` and `replyLost` follow every entry and decide nothing.
`Batches` holds what a `before_send` hook may leave of a batch.

**Ledger.**  What all of this owes the user, without queue, workers, retries or
Close: an entry ends at most once, in one way, and is counted so; the server gets
it before it ends or not at all, and again only if the first acceptance was not
acknowledged; what is counted as sent was delivered, what is counted as dropped
was never acknowledged, and what was turned away before any request was never
delivered.  `LedgerContract` maps the client's ghosts and counters to it.

**Session.**  The keys: sealers fetch encryptor and key id under `c.mu`, seal
the parts one at a time and send; `RenewSession` negotiates, swaps, zeroes;
`Close` cancels, waits for the workers, reads the encryptor, zeroes.  Sealing
with a zeroed encryptor succeeds under the zero key, as `EncryptRaw` does.

**Startup.**  One goroutine runs one of the five constructors and may run it
again when it failed.  `Construct` checks the key and lays the defaults of
environment, options and constructor over each other; discovery is one action
per answer or failure of its five URLs, under a deadline they share; the
handshake is its two requests.  Attempt n generates key n.  The ghost-like set
`registered` is the ingestors' memory: a key is in it although its reply was
lost, which is what a retry must live with.

**AsyncLogger.**  Extends `Startup`: the channel, the worker's two loops (main
select, drain), `Log*` that never wait, and goroutines that call `Logger` or the
client's `SendLogBatch` directly at the same time.  `SealPart` and `Post` are
`doIngest`: parts are sealed one by one, each with the key of that moment,
because the synchronous client has no closed flag and no lock around a request.

**Breadcrumb, Trail.**  The ring's methods are operators on a record, since
several rings live at once in `Sdk`; `Trail` says what each of them promises: the
newest N since the last Clear.

**Sdk.**  Every capture function is the same pipeline with stages left out or in
another order: get the client, sample, apply the context, run the hook, get the
ring, add or copy breadcrumbs, marshal, send.  So a function is its *route*, a
sequence of stages, and a stage is an action, because between two stages the
code holds no lock and an Init may step in.  `InitLocks` and `InitReturns` are
the two ends of the package lock around discovery and handshake; the n-th Init
brings generation n of client, hooks, context and ring.  A hook or a sampler may
drop any entry before its breadcrumb is added, encoding and the client
(validation, `Options.BeforeSend`, a quota, a full queue, a Close) after it.

Maps are the memory goroutines share without a lock.  A payload keeps the map
`SetAttributes` is given, a breadcrumb keeps it as its `Data`, and `Snapshot`
copies breadcrumbs but not their maps.  So each call that takes a map has one of
its own, named like the call; `held` are the maps of others that a payload will
walk, and the application writes its maps whenever it likes, also after the call
has returned.  A write during `payload.Marshal`'s walk, or during the copy in
`scope.Event`, may end the process (`crashed`), which is what the Go runtime does.

**Adapters, Middleware.**  `Adapters` is the loggers: per library the order of
level check, field and send, the memory the field goes to, and what Fatal and
panic do.  A derived logger is its parent with one
field more, `ZapWith(n)` being the derivations that add to n fields.  Two calls
that use shared memory at the same time are `Collide`: the spare slot of a zap
logger holds or shows a mixture, which formatting may not survive
(`FormatTorn`), and a map written while it is used may end the process.
`Middleware` wraps it: a request arrives from outside or from the
handler of another request, its middleware continues the trace of its header,
its handler logs, returns, fails or panics, and the middleware ends the span,
captures and answers, in the order of its framework.  The middleware's span is
local to it, so a handler that calls another service can inject a span of its
own only, one it starts or one that continues its request a second time
(`Outgoing`).  `written` is the status the client gets, `recorded` the one the
middleware reads: they differ when `WriteHeader` was called more than once.

### Abstractions

* *Time.*  A timer may fire at any moment after it is set; `paused` says whether
  now is before `rateLimitPauseUntil`.  Delays, jitter, `FlushInterval` (which no
  code reads) and `Retry-After` values are left out.
* *Data.*  An entry is a model value, or the call it comes from; encryption is
  the pair of key id and key; a setting is a number below, at or above zero; a
  field is the request that set it; a status is ok, 4xx or 5xx.
* *Results.*  The error `Send` returns and `FailsafeMode`, which only turns it
  into nil, are left out: the statistics do not depend on them.
* *Information.*  `X-RateLimit-*` values, `lastSendError` and `lastSendTime` are
  reported and never read by the code.
* *Torn reads.*  Racing writes of the retryer's configuration take effect at any
  moment but as a whole.  In `Adapters` a race on a slot is a mixture (`Torn`).
* *The client below Sdk, Adapters and Middleware.*  It takes an entry or refuses
  it; what it does with it is `ResilientClient` and `AsyncLogger`.

## 3. Runs

| Run | Instance | What it shows |
|---|---|---|
| `queue` | 3 consumers, 2 entries, capacity 2, fairness | no lost wakeup, no sleep through a shutdown, nil only when over, drained after Close |
| `retry` | 2 callers, 1 retry, 2 probes, fairness | the budget is exact, one late start at most; cancellation ends every Retry, a limited one returns |
| `client_close` | 2 workers, 2 entries, capacity 1, 1 Close, batches of 2, 1 retry with its backoff, 1 probe, resilient mode on or off | one owner per entry, the workers stand by until Close, the key outlives them, and the client keeps the ledger, also when an entry goes out again because its first answer was lost |
| `client_batch` | 1 worker, 2 queued and 1 direct entry, capacity 1, 1 Close, no counted retry, a quota that is exceeded | types, exact statistics and the ledger, with SendLogBatch and its quota filter and with a full queue at re-enqueueing |
| `client_live` | 1 worker, 2 entries, 1 Close, fairness | entries settle, Close terminates |
| `session` | 1 worker, 1 direct sender, 2 renewals, 2 Closes, 3 sessions, 2 parts | keys and key ids stay together, no live key but the client's and its renewers', the current key lives, no zero key sent before a renewal |
| `logger` | all 5 constructors, 3 keys, 2 ingestors, 2 attempts, then 3 callers with one call each, a channel of 2, fairness of the worker | order, readability (a registered key or, after Close only, the zero key), everything accepted is tried |
| `sdk` | 2 goroutines with one call of 13 kinds (all but a Debug log), 2 Inits of three kinds, 1 span, rings of 2 | one Init's things stay together, an entry never meets older hooks than its client's, what is filtered leaves nothing, one trace per span, every ring is a trail, only lent maps race |
| `integrations` | 7 services for 5 middlewares and 4 libraries, 2 requests, 1 log call each | own fields only, one trace per request, connected traces |
| `client_loss`, `session_zerokey`, `logger_close` | the smallest that matters | each finds one promise broken, see section 4 |

**Why these bounds.**  Three consumers are what it takes to have one awake, one
on its way to sleep and one asleep; two entries with one token show that a token
stands for several entries; a queue of one makes overflow happen, and with a
third entry the refused re-enqueueing too (one is paused, one fills the queue,
one was rate-limited).  A limit of one retry shows both comparisons of the
budget; two probes show the wait between probes and its absence after the last.
Two renewals of three sessions interleave in every order.  Two attempts to start
show a key registered by a failed one.  A channel of two with three callers is
full, drained in the main loop and drained after Close.  Two Inits and one call
per goroutine put an Init between any two stages of a call, beside another call;
a ring of two with the earlier breadcrumb of the scope and two more wraps
around.  Two requests are the least that share a logger or nest; the seven
services pair each middleware and library with the derivations that differ.
The two client runs share the work: `client_close` has two workers and what a
retry does between its attempts, `client_batch` the direct batch beside one
worker, the quota and the overflow.

Named bounds: `AttemptCap` stops the attempts of an unlimited Retry, `MaxParts`,
`MaxSessions`, `MaxAttempts`, `MaxCalls`, `MaxInits` and `MaxLogs` bound
requests, renewals, constructor calls, calls, initialisations and log calls, and
the ghosts saturate at two (or one more than the budget), which is all the
properties ask.  In `client_close` the action constraint `ResilientFirst` has
the application enable resilient mode, if it was not configured, before it sends
or closes, and `AllAdmitted` leaves the drops by validation and BeforeSend to
`client_batch`; in `client_close` and `client_batch` `OneCountedError` leaves one of
the two counted errors, which are treated alike; `retry` has both errors and
changes of the mode at any moment.
`client_loss` has two others, so that what it finds takes more than an unlucky
schedule: Close is called when every Send has returned (`SendsReturnFirst`), and
the flush times out only while the workers wait for a pause to end
(`TenSecondsAreLong`).  In `integrations` the constraint `FiberAndOthers` has two
different services serve the requests only if one of them is fiber's: services
meet in the trace header alone, and there are two ways to continue one, fiber's
and everybody else's.

**Symmetry** is used in `client_*`, `session*`, `sdk` and `integrations`, on
goroutines, closers and requests the specification does not tell apart, and in
`client_batch` on its two queued entries, which have one category; never with
liveness.

**Deadlock** is checked for the queue and the retry loop.  The others may stop:
all entries settled, client closed, all calls made, all requests answered.

**Fairness.**  The Go scheduler runs every runnable goroutine: weak fairness of
each goroutine's next step.  The consumers of a queue are the workers, which
call again after every entry.  A select among ready cases is random, so the
`ctx.Done()` case of the queue's select has strong fairness.  Exchanges end
because requests carry the client's context and `http.Client` has a timeout; a
pause ends.  In `AsyncLogger` only the worker is fair, its exchanges included.
Nothing is assumed of the application (it need not send or close) or of the
server: liveness that fails when the server answers 429 forever says so in its
premise.

Every property has a mutant: a definition with a plausible bug, under which the
same run violates the property.

## 4. What the code does not keep

Each of three runs finds a promise of a comment violated:

| Run | Promise | What happens |
|---|---|---|
| `client_loss` | `resilient_client.go:104` "loss tracking" | An entry is accepted and dequeued.  A direct `SendLogBatch` gets a 429 and sets the pause; the worker finds it, puts its entry back and waits; `Close` gives up flushing after ten seconds, less than the 60 s a 429 pauses by default, and cancels; the worker leaves by `ctx.Done()`.  The entry stays in the queue, neither sent nor counted. |
| `session_zerokey` | `crypto.go:33` "must not be used after Close" | A renewal zeroes an encryptor that a sender has fetched and is still using; the rest of the request is sealed under the zero key and sent. |
| `logger_close` | `logger.go:251` "waits for all messages to be sent" | `AsyncLogger.Close` closes `done` and the client and returns; the worker is still sending, and drains the channel with a client whose key is gone. |

The models also have the following in them, as the code does it.  The properties
name the exceptions where they meet one.

* `Retry` wraps its last error when it gives up; the type assertion in
  `handleSendError` (`resilient_client.go:619`) misses it and a 5xx is counted
  as `network_error`.  Its branch for 429 is unreachable.
* A quota answer blocks the category of the batch's first entry, whichever was
  over its quota, and nothing unblocks a category.
* `RenewSession` during or after `Close` installs a live key in a closed client,
  although `README.md:420` has keys "zeroed from memory on `Close()`".
* A session key stays in memory when the handshake fails after generating it.
* A second `AsyncLogger.Close` closes the closed `done` and panics.
* A non-positive `MaxRetries` from the environment or `Init` is the default.
* Scopes bypass sampler and hooks; a failed Init leaves no client, and a client
  that is replaced is not closed.
* Maps the application lends are read without a lock: `Span.End` hands the
  span's own attribute map to the payload, `SetAttributes` (`payload.go:190`)
  keeps the caller's, and breadcrumbs keep the `Data` they are given
  (`logflux.go:233-250,479`, `scope.go:93-98,171-175`), which a `CaptureError`
  marshals much later.  A write at that moment may end the process, whatever
  `README.md:423` says of SDK errors.  `OnlyLentMapsRace` lists these and shows
  that there are no others: scopes copy their attributes under their lock.
* A capture reads client, hooks and sampler one after the other.  Across an Init
  it may pair an old client with the new hooks, which may be none; never the
  other way round (`NeverOlderThanItsClient`).
* What fails to encode and what the client drops, its `BeforeSend` included,
  has left its breadcrumb already.
* `TracingMiddleware` has no recover, although `README.md:296` has "panic
  recovery" for all middleware: a panic through it leaves no trace.
* No middleware gives its span to the handler, although `tracing.go:113` says it
  "propagates the trace context" and `README.md:296` has it for all: requests a
  handler sends are connected to the spans the handler makes itself only.
* `statusWriter` records the status of the last `WriteHeader`, the client gets
  the first; a trace may contradict the answer then.
* The fiber middleware continues the trace but not the parent span.
* A `LogrusEntry` writes fields into its own map, and `LogrusLogger.WithFields`
  takes the caller's map for it (`logrus.go:132-139`): requests that share an
  entry or a map of base fields see each other's fields and may race on it.  A
  zap logger made by `Named` may have a spare slot behind its fields that its
  users share, and reading it while it is written may end the process.
* zerolog's Fatal and Panic events neither exit nor panic.

## 5. Proofs

Checked by TLAPS for every number of goroutines, every capacity and every limit,
from the named assumptions on the constants only (`QueueAssumption`,
`RetryAssumption`, `SessionAssumption`, `StartupAssumption`, `LoggerAssumption`,
`BreadcrumbAssumption`, `SdkAssumption`, `AdaptersAssumption`, and for the client
`ClientAssumption`: finitely many entries, and no entry in two places of the
batches or in a batch and the queue).

**QueueProofs.**  `QueueTypeCorrect`, `WakeupsAreNotLost`,
`ShutdownWakesEveryone`, `NilIsExplained`.  The inductive invariant joins the
type invariant, `NoLostWakeup` and `NoSleepThroughShutdown`: the first wakeup
argument needs the second, because a token sent into the buffer is safe only
when nobody is parked beside it.  Its fourth part, `NilMeansOver`, says that whoever has just
been given nil was given it because the queue is closed or the context is
cancelled; the client's proofs need it.  Per action: Enqueue either leaves a token or
moves a sleeper back to Dequeue; a consumer falls asleep only when there is no
token; whoever takes the token is awake.  `NilOnlyWhenOver` is an action
property: each of the returns of nil is looked at under the type invariant.

**RetryProofs.**  `RetryTypeCorrect`, `BudgetIsExact`, `CancelStopsTraffic`.  The
invariant ties the ghost counters to the position in the loop: failures equal
attempts at the top of the loop and one more in the backoff; a caller that
started late can only get a final error back, so it is never at a wait again.

**SessionProofs.**  `SessionTypeCorrect`, `KeysAreNotMixedUp`,
`RenewalsCleanUp`, `RenewalsKeepCurrentKey`, `CloseSendsNoZeroKey`.  None of the
properties is inductive alone.  `KeysInv` adds that encryptor and key id change
together (`Paired`), that every live key belongs to the client or to a renewer
under way (`Accounted`), that client and renewers hold different sessions
(`Distinct`), that a negotiated session is still live (`FreshAreLive`), and that
what a Close has zeroed stays dead, being older than any session still to come
(`BuriedInv`).
`OneKeyInv` describes a client that was never renewed.

**LoggerProofs.**  `LoggerTypeCorrect`, `StartedIsUsable` and
`ReadyKeyIsRegistered` (what the constructors promise), `DeliveredIsReadable`,
`EntriesKeepTheirOrder` and `WorkerLeavesNothing`.  `ConfigInv` says the sizes
are positive from the moment they are filled in.  `KeysInv` carries readability
from the key through sealed parts to accepted ones: whatever Close does, every
part is sealed under a key its ingestor knows or, once `done` is closed, under
the zeros that Close left; `registered` only grows.  `OrderInv` is `InOrder` with
the sequences' types.  With it the action property `WorkerLeavesNothing` is a
matter of the drain loop: the worker goes only after it has tried everything the
channel had accepted by then.  `LoggerShape` adds to the types what a goroutine
has in hand at each position.

**BreadcrumbProofs.**  What the ring's operators compute, for every capacity and
every ring `Rings` admits.  `SnapshotEntries` says which slot the i-th entry of a
Snapshot comes from (`SlotOf`); with it `AddRecords` compares the sequences
before and after an Add entry by entry, through filling, the step at which the
ring becomes full, and wrapping around; `ClearForgets` is Clear.

**SdkProofs.**  `SdkTypeCorrect`, `GenerationsStayTogether`,
`EntriesMatchClients`, `NothingLeftBehind`, `SpansAreSentOnce`,
`OnlyLentMapsAreAtRisk`, `RingsAreTrails`.  Two lemmas keep the cases down:
`RoutesAreGood` checks each route once for the facts the rest needs (`GoodRoute`:
what comes before the hook, what after it), and `StageMoves` says what any stage
may do to its call (`Continues`).  `GenInv` relates the generations of client,
hooks and context while an Init is half way through; `MatchInv` carries them
along a call, because what a call has read stays as new as its client although
the package moves on; `SpanInv` lets one call at most hold an ended span;
`RaceInv` says who walks a map; `CrumbInv` says which stages lie behind a call
whose breadcrumb is in a ring.  `RingsInv` needs all breadcrumbs made so far to
be of their kind and gives `TrailContract` by the lemmas of `BreadcrumbProofs`.

**MiddlewareProofs.**  `IntegrationsTypeCorrect`, `RequestsLeaveOneTrace`,
`LoggersAreApart`, `TracesFollowHeaders`.
`RoomInv` says that a call which reads the shared slot has written to it.
`Accounted` lists, per position of the middleware, how many traces and reports a
request has left and with which status; it implies `EveryRequestTraced` and is
kept by every step, because a step touches one request's account only.
`ApartInv` says, library by library, which fields a message carries; it needs
`RoomyIsNamed` (only `Named` makes a zap logger with a slot to spare) and
`PutInv` (a call that writes to a map of all calls has put its own field before
its level is checked).
`ChainInv` gives every request whose header parses a chain of requests, each sent
by the handler of the one before, up to one that came from outside or whose
handler began the trace.  A chain cannot be longer than there are requests
served, and serving one more puts it at the end of its sender's or begins one
with it, so no induction over chains is needed.  `Begun` says that a trace a
handler begins is not its own request's.

**ClientProofs.**  First the components.  `StepOfQueue` and `StepOfRetry` map
every step of the client to a step of its component or to a stutter; `HandsInv`,
what a goroutine has in its hands at each position, is needed because what is put
back is what was taken.  What is proved of the components alone then holds in the
client: `QP` and `RP` are instances of `QueueProofs` and `RetryProofs`, and their
invariants are part of the client's `TypeInv`, kept by the components' own
lemmas.  `ClientTypeCorrect` and `ClientRetriesExactly` (the budget is exact and
a cancelled context stops the traffic, for every sender in the client) follow.

*Workers.*  `WorkersAreStandingBy`: a worker leaves on a nil result or a
cancelled pause only; the queue's `NilMeansOver` and `CancelledFirst` (all that
ends the client comes after `c.cancel()`) make that imply a cancelled context,
and the wakeup properties are the queue's.  `KeyOutlivesTheWorkers`: a worker
that left does not come back.

*Owners.*  There are ten ways for entries to change hands (`EntryMoves`), and
`StepMoves` shows that every step of the client is one of them.  `OwnerInv`, the
exclusive places of an entry, is kept by each (`EntriesHaveOneOwner`); with it
the counters follow, because a move settles only entries nobody has settled yet
and a batch holds each entry once (`StatisticsAreExact`).

*Ledger.*  `StepServes` says what a step means for the exchanges: the result of a
Retry stays with its sender until its entries are settled (`DoneStays`).  It
carries `SentInv` (what is about to be counted as sent was delivered) and
`DeliveryInv` (a delivery is known to its sender or its reply was lost, and until
the entry is settled it is part of a request).  With these `StepOfLedger` maps
every step to Deliver, to End or to a stutter: `ClientKeepsLedger`.  What the
ledger itself promises is proved of it once, of `LedgerNext` alone
(`LedgersAreHonest`), and so holds of the client (`ClientIsHonest`):
`SentIsDelivered`, `DuplicatesAreExplained`, no drop of an acknowledged entry,
no delivery of an entry turned away; and, as an action property, nothing ends
twice or is delivered after its end (`SettledForGood`).  The runs check
`LedgerContract` instead of these.

**Only model-checked.**  The liveness properties: `DrainedAfterClose`,
`CancelEndsRetry`, `RetryReturns`, `EntriesSettle`, `CloseTerminates` and
`AcceptedIsAttempted`.  They rest on fairness, which is defined by ENABLED, and
TLAPS cannot reason about it.  Every safety and action property of a passing run
is the subject of a theorem.

## 6. Not modelled

* **External code.**  AES-GCM, RSA, gzip, HTTP, JSON and MIME formats.
* **Values nobody branches on.**  Rate-limit headers, error values returned to
  the application, `lastSendError`, `GetVersion`, `HealthCheck`, `Flush` of the
  global SDK and `Stats`, which only read.
* **Dead ends.**  `ValidateEndpoints` and `RefreshEndpoints`, which no other
  code calls.
* **Formats.**  Messages, field values, the severities adapters hand to clients,
  validation rules but the empty message, durations, names; the `FromEnv`
  constructors of the adapters.
* **An unbuffered `logChan`.**  `NewAsyncLogger` may be given zero; the channel
  then hands over only to a waiting worker.
* **Time.**  How long a pause lasts, and which requests it should have held back.
* **Torn reads** of the retryer's URL, and reading a string in halves.
* Examples, test utilities, scripts.
