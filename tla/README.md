# TLA+ models of the call centre and its SMS gateway

This directory holds TLA+ specifications of the programs under `src/`: the SMS
gateway server and its worker (Go, `src/sms-gateway-server`), and the call
console (Python and JavaScript, `src/call`). The modules are translated from
the code; `PROJECT.json` names for every definition the lines it stands for.

Run a model: `tlc -workers 2 -config <run>.cfg <module>.tla`.
Check the proofs: `tlapm <module>Proofs.tla`.

## 1. The system

The SMS gateway server stores the messages of senders (third-party API) for
phones that run the gateway app (mobile API). A sender's call stores a message
and publishes an event; the event reaches the device as a push notification
or over its stream of server-sent events; the device pulls its pending messages
and reports their states; the sender polls the state. A separate worker process
cleans up and hashes. The call console is a web page with a SIP phone and a
small Python server that sends SMS through one of several gateways.

    sender --HTTP--> messages service --> database <-- worker tasks (one at a time,
                       |  |   |                |          by a MySQL named lock)
                       |  |   +-> state cache  +-> read by devices' pulls
                       |  +-> hashing worker (queue in memory)
                       +-> events --pubsub--> events loop --+--> push (cache, ticker, FCM)
                                                            +--> sse (streams)
    console page --SIP--> PBX         console server --HTTP/SMPP--> SMS provider

Server and worker run in several processes over one MySQL database; caches and
pubsub are in memory (one server) or in redis (shared by servers).

### 1.1 Inventory

| Component | State | Operations | What is hard | What makes it correct |
|---|---|---|---|---|
| messages: service, repository, state cache, hashing worker | rows of `messages`, `message_recipients`, `message_states`; cache of state documents; queue in memory | Enqueue, UpdateState, GetState, CancelMessage, SelectPending, SelectStates, Cleanup, HashProcessed | calls interleave between the statements of a read, a transaction and a cache write; reports come late, twice or out of order; the queue dies with the process | a message that waits for its device is intact; the cache never shows what was not stored; every settled message is hashed in the end |
| messages: queue limiter | a verdict per device in a cache; a set of devices to refresh | Check, Refresh, the loop | the verdict is stale by design; requests come while the loop is at work | a refresh that was asked for is computed |
| push | cache of waiting events by token and type; blacklist | Enqueue, sendAll, retry | a failed event goes back while newer ones arrive; several servers drain one cache; crash | bounded attempts; newest event wins; none forgotten |
| pubsub | subscriptions by topic, their channels, a read-write lock | Publish, Subscribe, Close | deliveries block under a read lock; channels are closed by another goroutine | no send on a closed channel; order; cancellation ends every wait |
| sse | connections by device, a channel of 8 events each | handleStream, Send, Close | three goroutines end a connection | closed once, order kept, `Close` ends all |
| events | a subscription to one topic | Notify, the loop over events | push or stream, several devices, redis gives every server each event, and may lose it | every device of the user is tried; what a device is not told of was lost on the way |
| devices | rows; cache by token and by ID | Insert, GetByToken, Update, Remove, SetLastSeen, Clean | a cache entry is written after the read it came from, in two maps | a removed device stops authenticating |
| online | cache of last-seen times | SetOnline, the loop that drains it | times are drained before they are stored | last-seen never goes back |
| users, auth, middlewares | rows; cache of verified logins | Create, Login, ChangePassword, the four ways to authenticate | an old password in the cache; two changes at once | the old password stops working, as far as the server can reach |
| jwt | rows of issued tokens | GenerateTokenPair, RefreshTokenPair, RevokeToken, RevokeByUser, ParseToken, Cleanup | two refreshes with one token; a refresh against a change of the password; a deleted row revokes nothing | one refresh token gives one pair; a revoked chain stays revoked |
| otp | cache of codes | Generate, Validate | a draw may collide; a code is used by two at once | a code works once |
| settings | one row per user | GetSettings, UpdateSettings, ReplaceSettings | read, merge and write against each other, with and without a row to lock | no patch is lost |
| webhooks | rows by user and ext_id | Select, Replace, Delete | a device may be gone when a webhook names it | a webhook belongs to a user's own device |
| inbox | none | Refresh | | |
| HTTP handlers | none | parsing, validation, service calls | | |
| worker: executor, locker | a MySQL named lock, a pinned session per task | Run, AcquireLock, ReleaseLock, Close | the lock belongs to a session, sessions belong to a pool; crashes; cancelled contexts | one process runs a task at a time, and the task keeps running |
| health | a counter of failed pings | getLiveness, getReadiness, getStartup, the database's ping | probes are concurrent with each other, with outages and with the stop of the server | only its own failed ping makes a probe fail; the count recovers |
| console page (`app.js`) | SIP agent, session, timers; SMS tabs | connect, call, answer, hunt over seats, hang up; send one, send many | callbacks of old sessions, timers against answers; a batch that fails among others | one call at a time, a refused caller is handed on; every recipient accounted for |
| console server (`app.py`) | log tables in SQLite | send one, send many, log calls | committed after the last of many sends, one writer at a time | what the page shows as sent is in the log |

`PROJECT.json` lists them with their sources, and lists the hazards of this
code, each at the line where it bites.

## 2. The modules

| Module | Models | Checked by |
|---|---|---|
| `MessageLifecycle` | what the messages component promises of one message, abstractly | as a property of `messages_concurrent` |
| `Messages`, `MCMessages` | `modules/messages`, the worker's message tasks, the handlers of messages | `messages_*` |
| `Push`, `MCPush` | `modules/push` | `push` |
| `PubSub` | `pkg/pubsub/memory.go` | `pubsub` |
| `Sse` | `modules/sse/service.go` | `sse` |
| `TaskLock` | `internal/worker/executor`, `internal/worker/locker` | in `tasklock` |
| `Health` | `pkg/health`, `modules/db/health.go`, `handlers/health.go` | in `tasklock` |
| `Outage`, `MCOutage` | one database for the workers and a server; composes `TaskLock` and `Health` | `tasklock` |
| `Accounts`, `MCAccounts` | `users`, `jwt`, the middlewares for passwords, tokens and scopes, the worker's token task | `accounts` |
| `Devices`, `MCDevices` | `modules/devices`, `modules/auth`, `modules/webhooks`, `online`, `otp`, the worker's device task | `devices` |
| `Settings` | `modules/settings` | in `delivery` |
| `Limiter` | `modules/messages/limiter.go` | in `delivery` |
| `Delivery`, `MCDelivery` | `modules/events` and who notifies, `pkg/pubsub/redis.go`; composes `Settings` and `Limiter` | `delivery` |
| `CallConsole` | the calls and seats of `call/static/js/app.js` | `console`, `console_hunt` |
| `Sms`, `MCSms` | the SMS tabs of `app.js`, the SMS and the logs of `call/app.py`, the gateways | `sms` |
| `*Proofs` | theorems about the module they are named after; `ChannelProofs` about `PubSub` and `Sse`, `ConsoleProofs` about `CallConsole` and `Sms`, `DeliveryProofs` about `Settings` and `Limiter` too, `TaskLockProofs` about `Outage` too | `tlapm` |

Each module also has definitions named `X_Something`, introduced as "Fault":
plausible bugs of the definition `X`. No specification uses them. For every
property of a passing run `PROJECT.json` ("mutants") names one that breaks it,
so that each property is known to say something about the code.

### 2.1 Messages

State: `db` maps a pair (external ID, device) to a row (the unique index allows
one); `cache` maps an external ID to an entry that is absent, "not found", or a
document; `queue` and `batch` are the hashing worker's queue and what it has
taken out of it; `call` is the progress of every API call, with the document it
carries; `registered` are the devices that were not removed. `seen` and `forgotten`
are history.

A call is a chain of actions, one per statement, transaction or cache operation:

| Call | Actions |
|---|---|
| Enqueue | `Insert`, `Fill` |
| UpdateState | `ReadForReport`, `WriteReport` (or `FailCall`), `Fill`, `QueueForHashing` |
| GetState | `GetLookUp`, then `Select`, `Preload` and `Fill`, or `FillNil` |
| CancelMessage | `ReadForCancel`, `MarkCancelling`, `DropEntry`, `CancelLookUp`, then as GetState, `Answer` |
| hashing worker | `TakeBatch`, `HashBatch` |
| worker's tasks | `HashAll`, `Cleanup` |
| environment | `Expire` (cache entries), `Restart` (server), `RemoveDevice` (by its user, or by the cleanup of devices) |

The content of a message and its recipients' numbers are the flag `hashed`; a
phone that was stored without its leading `+` (`BarePhones`) is never found by a
report, because `recipientsStateToModel` adds the sign. A read is two statements,
one for the row (`Select`) and one for what belongs to it (`Preload`). The lists are
operators over filters (`list`, `SelectPending`, `SelectStates`): `PullableIntact`
says what a device is served, `CacheAgreesAtRest` compares the cache with the
history of messages. A device that is removed takes its messages with it, as the
foreign key cascades (`models.go:50`), whatever their state; `Removable` bounds which
devices may be.

Assumptions: devices do not report `Cancelling`, a state that the server gives
(`ReportsAssumption`; the server would accept it from a device, and take a settled or
hashed message back to it), fewer than `maxPendingBatch` = 100 messages wait for a
device, and senders do not use the ID of a message again that was cleaned up.

`MessageLifecycle` has a phase for each row (absent, queued, cancelling,
settled, hashed) and the steps between them. `Messages` implements it
(`ImplementsLifecycle`) under the mapping `phases`, `sealedRows`.

### 2.2 Push

Events are numbered as they are accepted. `events` is the cache by token and
type, `server[s]` the progress of a server's `sendAll`: `Drain` takes
everything out, `Send` calls the provider, and `Retry` handles what failed, one
event a step: `LastTry` decides between `GiveUp` (blacklist) and `PutBack` (only
where nothing newer waits). `replacedBy` records which event took the place of
another under its key: one that was accepted while it waited, or one that waited when it
should have gone back. `Accounted` excuses an event for that one alone, and
`NewerNeverUndone` says that while one server sends, the newest event of a key never
gives way to an older one and nothing older is sent after it; with two servers it may be:
one puts an event back while the other has the newer one in hand. A server with FCM has an outcome for each event; one
that pushes through the upstream server (`Private`) has one for the whole
request, which a public server receives as `postPush`. A cache operation may
fail (`CacheMayFail`); `Restart` loses what a process holds.

### 2.3 PubSub

One topic. A publisher is `Begin`, `Enter` (the read lock), one `Deliver` or
`Skip` for every subscription, as each has its goroutine, and `End`. A
subscription is `SubscribeBegin` (its check), `Subscribe` (the write lock),
`Wake`, `Unsubscribe` (the write lock) and `CloseChannel`. The lock is Go's
`sync.RWMutex`: a waiting writer keeps new readers out (`CanRead`, `CanWrite`).
A channel holds `bufferSize` messages, and one more that the consumer took and is
working on.

### 2.4 Sse

Connections register, write what is in their channel, fail, or are told to stop
by `CloseService`, and remove themselves. `Send` takes the read lock, offers the event
to each connection of the device (`Offer`, in any order: the properties do not
depend on it) and returns (`Sent`). With a `keepAlivePeriod` a connection also
writes keep-alives, and a failing one ends it. Assumption: a write to a stream
ends, well or with an error.

### 2.5 TaskLock

One task. `owner` is the process whose session holds the named lock, `conn` the
pinned connection. A lock attempt never waits (the timeout `10` is
nanoseconds), so `AcquireLock` is one step that is granted or not. A run ends
well, with an error or with a panic (`RunEnds`); `ReleaseLock` releases over the
pinned connection unless the context is cancelled or the session is gone.
`Shutdown`, `Close`, `Crash` and `Restart` are the ends of a process and its
new beginning; `Drop` ends a pinned session from outside. Assumption: a session
that went back to the pool lives until its process ends.

`Health` is one gateway server that is probed. `getProbe` lets a request in, `LiveProbe`
and `Ping` with `CountPing` are the two providers that answer with checks, and `writeProbe`
answers; the ping and its counting are two steps, as concurrent probes share the counter.
`StopServer` ends the context of every request: a ping may fail, and what was not checked
yet is left out of the answer (`Complete`). `Outage` puts `TaskLock` and `Health` over one
database: `DatabaseStops` ends all sessions, with their locks, and until `DatabaseStarts` no
lock is taken and every ping fails; everything else goes on.

### 2.6 CallConsole

The page is one thread, so a step is one callback up to its end or its next
`await`. `page` holds the page's variables: the current session, the call of
the hunt timer and of the alert, the tone, the stage and the seconds. The code's
small functions (`clearHuntTimer`, `stopTimer`, `resetToIdle`, ...) are operators
on it, and the handlers of a session's events (`onAccepted`, `onConfirmed`,
`onOver`) are built from them as in the code. Incoming calls are `Rings`, or
`HandsOnBusy` when the page is busy; then `acceptCall`, `rejectCall`,
`HuntTimeout`; outgoing ones `placeCall` (a click, or the automatic call after
registration), `Accepted`, `EarlyMedia`; both go through `Microphone`,
`IceCandidate`, `LocalSdp`, `Confirmed`. A tone that was asked for starts
when audio is unlocked (`ToneReady`). `connectAsAgent` stops the user agent that
the page knows and waits; `Configured` goes on with the new one; `PickSeat` and
`loadAgentsAndConnect` lead to it, from the list of seats or from the seat of
last time. Two changes of
the seat that overlap leave the first user agent running and unknown to the page
(`Astray`): the properties about the whole page hold for as long as there is
none, and the run reaches the states in which there is one. External: the
JsSIP library, whose `terminate` and `stop` run the handlers before they
return and whose `call` fails at once on a user agent that was stopped, and the browser. At least two seats are configured.

### 2.7 Accounts

One step for every access of the login cache and every statement or transaction.
A request logs in (`Login`, `ReadUser`, `Keep`) or shows a token (`ShowToken`), and
then does its work: `GenerateTokenPair`, `RefreshTokenPair` (over the locked row of
the refresh token), `RevokeToken`, or the steps of `ChangePassword`: `Evict`,
`RevokeByUser`, `UpdatePassword`, each of which may fail and end the change.
`Expire` is time, `Cleanup` the worker, `Forget` the expiry of a cached login,
`Stop` a server that stops. Passwords are numbered in the order they are taken.

`evaded` records the cached logins a change could not evict: on another server,
put back by a login that overlapped, or of a password that a second change at
the same time had set. `OldPasswordEvicted` says that there are no others; that
there are these is how the code is, until `loginCacheTTL` is over.

### 2.8 Devices

Registration (`getUserCode`, `NewCode`, `LogIn`, `CreateUser`, then `RegisterDevice`),
the request of a device that shows its token (`ShowToken`, `SelectByToken`, `SetByID`,
`SetByToken`, `Stamp`, `SetOnline`), an update or a removal (`EvictByID`,
`EvictByToken`, `Delete`), the worker's `Cleanup`, the online statuses (`Drain`,
`SetLastSeen`), webhooks (`ReplaceHook` for the check, `SaveHook` for the row). The
two maps of the cache are two variables: `DeleteByID` finds a device only through
the first, so an entry that is in the second alone stays until it expires;
`RemovedLockedOut` says that it does. External: the database enforces
`fk_webhooks_device`, and IDs of devices are not drawn twice.

### 2.9 Delivery, with Settings and Limiter

`Settings` has the operators of `utils.go` (`FilterMap`, `AppendMap`) and the two
transactions over the user's row; where there is no row yet, MySQL locks a gap,
which several transactions may hold, and rolls one of two insertions back.
`Limiter` has the set of requests, the goroutine and the three limits, evaluated
over every queue of at most `MaxQueue` messages; where any limit is set, its cache may be
unreadable, which refuses a message as well (`IsEmpty`, `CheckLimit`). Each server has a
limiter of its own; the model has the one of `Home`, and its `Restart`, which loses the
requests the process held, is a part of that server's `Close`. `Delivery` puts both together
with the requests that notify devices, the goroutine that publishes, the redis
subscription of every server, the loop of the events service, push and streams,
and the devices that ask for what they were told of. `due` records what changed for a device
(an event's kind, or `moved`: a webhook that was for the device no longer is)
and was not asked for since, `missed` what was lost on the way: by a publication
that failed, by redis, by a stream that is full or gone, or by a server that stops (`Close`). External: redis
delivers at most once, and what devices do.

Where the code says one thing and does another: a webhook that is put again, for another
device, is announced to the new one only (`webhooks/service.go:105`), although the comments
speak of the user's devices (:71-72, :123). The one it was for before keeps it until it asks for
its webhooks for another reason. `ReplaceWebhook` records that change, and
`ToldOfChanges` excepts it by name (`Moved`), so the run passes although the code does not do
what its comments say.

### 2.10 Sms

A tab sends one message to what was typed, or the bulk tab in batches; the request
of each batch goes through `SendToAll` or `SendToNext`, `Insert` (which waits while
another connection writes), `Commit` and the answer. A provider accepts or not, and
its answer arrives or not; SMPP and the modem may say sent of what was not.

The page tells numbers apart as it normalizes them (`Normalize`, `Keys`): "0911..." becomes
"+251911...", but what starts with a plus is kept, so "+0911..." stays as it is
(`app.js:681-695`), while the gateway sends both to "251911..." (`afromessage_gateway.py:25-33`),
although a comment says that the page follows the same rules (`app.js:674-679`). A subscriber who is typed in both
ways gets a bulk message twice: `OncePerJob` is about the page's numbers, not about subscribers,
and the run's texts have such a pair.

`Fail` is a request without an answer: the log stayed locked, the server
threw or stopped, or the connection was lost. What the server still does for a
request the page has given up is left out but for the rows it may have
committed before.

## 3. What is checked

| Run | Shows |
|---|---|
| `messages_serial` | one call at a time, one external ID on two devices, three recipients (one that reports never find, one they leave out): at rest the cache agrees with the history from the database (`CacheAgreesAtRest`); every settled row is hashed in the end, although the server's queue may lose it (`EventuallyHashed`); what waits for a device is served to it intact, though another device may be removed with its messages (`PullableIntact`) |
| `messages_concurrent` | two calls at once, a cache that may fail and survives restarts: `PullableIntact`, `CacheNeverAhead`, `HashRequestNeverLost`, and `ImplementsLifecycle` |
| `push` | two servers, one behind an upstream server, over one cache that may fail: no event is forgotten but for one that took its place (`Accounted`), `RetriesCountAttempts`, a retry never undoes a newer event while one server sends (`NewerNeverUndone`), every event is resolved |
| `pubsub` | two publishers, two subscriptions, unbuffered: no send on a closed channel, order, and every wait ends |
| `sse` | two connections, one or two devices, with keep-alives: signalled once, in order, `Close` ends all |
| `tasklock` | two workers, two stops, sessions lost at any time, and a server with three probers, over a database with outages: `MutualExclusion` (unless a session was ended from outside); the task goes on once the database is back, as no lock is left behind (`RunsAgain`); `AnswersTruthful`, `RecoversFromOutage` |
| `accounts` | two requests at a time: `OneSuccessor`, `ChainsEnd`, `RevokedStaysOut`, `OldPasswordEvicted` |
| `devices` | two servers, two requests at a time: `CodesUsedOnce`, `HookDeviceOwned`, `LastSeenGrows`, `RemovedLockedOut` |
| `delivery` | two requests, two servers, a device with a push token and one with a stream: `NoPatchLost`, `ToldOfChanges` (but for a webhook that was moved away, see below), and a refresh that was asked for is computed unless the limiter's server stops first (`RefreshServed`) |
| `sms` | two tabs, batches of two or three, three providers and the bulk tab's: `ReportAddsUp`, and no number, as the page has it, gets a job's message twice (`OncePerJob`) |
| `console` | three calls in any mix of directions, two changes of the seat that may overlap: the page is never busy with a call that is over (but for one that a stopped user agent refused, see below), the hunt timer belongs to the call that rings, there is one call and its tone fits it, and ICE servers hold nothing up |
| `console_hunt` | *violated*: a second incoming call takes the hunt timer and the alert from the call that rings |

The violated property is the code's disagreement with its own comment, listed
under "findings". Some more that the models reach have no run of their own:

* a call that is placed while the page waits for the configuration of a new seat, or
  after that could not be had, goes to the user agent that was stopped. JsSIP fails
  it inside `ua.call`, before `attachSessionHandlers` (app.js:1672, 1684): the page shows an outgoing
  call for ever, its buttons throw, no seat can be chosen and every incoming call is
  handed on, although a comment (app.js:1371) says that failures of outgoing calls
  are always shown (`placeCall`, `Refused`; `NeverBusyForNothing` without `Refused` is
  violated after five steps);
* a successful cancellation may answer `Pending`, because another call cached what it
  read before (`Select`, `MarkCancelling`, `DropEntry`, `Fill`, `CancelLookUp`), where the
  API documentation speaks of the state after cancellation;
* a cancellation may mark the messages of two devices: `Insert`, `Fill`, `ReadForCancel`
  (one row has the ID), `Insert` for the other device, `MarkCancelling` (by user and ID), although
  an ambiguous ID is refused where it is seen;
* a webhook that moves away from a device is not announced to it (`ReplaceWebhook`, see 2.9);
* a subscriber typed as "0911..." and as "+0911..." gets a bulk message twice (`Normalize`, see 2.10);
* two cancellations for one device within a debounce interval share a key, and the
  first is never sent (`Put` replaces what waits);
* the locker's `Close` returns pinned sessions to the pool with their locks (`TaskLock`,
  `Close` leaves `owner` alone), although its interface says that it releases them;
* a `Publish` waits for the read lock without looking at its context, which is
  bounded only because every publisher of this server has a deadline.

### 3.1 Bounds

The race conditions here take two actors and one thing they share, so two calls,
two servers, two publishers, two connections and two workers are enough to
meet them; a third only repeats the roles. `messages_concurrent` has one message
and two reports: `Pending` and then `Failed`, so that a late report moves the
message backwards; its calls are interchangeable (`Alike`), which is sound as it
checks safety and a refinement without fairness. Its one device stays; in
`messages_serial` one of the two may be removed at any time. Three push events allow one in
hand, one waiting and one newer; `maxRetries` is 2 where the code has 3. Sse has
channels of 2 events and 3 events, so that channels fill; the code has 8.
`MaxStops = 2` lets both workers stop, or one twice, while outages and ended sessions are not
bounded. Two probers ask for readiness, so that a late failure meets a newer success, and a
third for what never pings; `MaxCount = 1` tells a count that is zero from one that is not.

`accounts` has one user, as users do not share anything, and one server:
`OldPasswordEvictedAlways` covers the caches of others. `MaxPairs = 3` is a chain
of a pair and its successor and one more, `MaxPassword = 2` are two changes that
may overlap, and `MaxTotal = 3` bounds both together, so that a pair that was
refreshed meets one change of the password, and a single pair two. One pair expires (`Expiring`), so that its
row can be cleaned up. `devices` has one device and four requests: one to
register it, one that shows its token, one that removes it and one webhook, in any
two at a time. Its registration is closed (`Public = FALSE`) and both keys are
shown. `delivery` has two requests, of which each may be any; queues of two
messages suffice for limits of two; the limiter is the first server's, and the other one
stops without it. `sms` has two subscribers, one of whom is typed in two ways that the page
does not take for one: three numbers, so that there are two
batches, and `PageMax` above the server's limit, so that a batch is refused. The
console has three calls: one that is current, one that comes while the page is
busy, and one afterwards; and two changes of the seat, which can overlap.

Deadlock checking is off where the system may stop: PubSub, Sse and CallConsole, whose
publishers, subscriptions, connections and calls are used once and end, and
Accounts, Devices, Delivery and Sms, whose requests are bounded.

### 3.2 Fairness

* Messages: weak fairness of `HashAll`: the worker's periodic task runs again and
  again (`TaskLock` shows that it does). None for calls, which may be abandoned.
* Push: a ticker ticks, a provider's call ends by its timeout, the loop goes on.
* PubSub: goroutines that can proceed do; contexts run out, as events.Service gives
  every publication a deadline; consumers need not read.
* Sse: sends go on, and stopped connections clean up. `removeConnection` has strong
  fairness, as Go's RWMutex does not starve a waiting writer.
* Devices: requests end, and entries of the caches expire.
* Delivery: the limiter's goroutine has a ticker. None for events, which may be lost.
* Accounts and Sms: none.
* Outage: tickers tick, tasks end, stopped processes are started again; requests are
  answered, and supervisors probe again and again. None for the database, which
  `RunsAgain` and `RecoversFromOutage` suppose to be back for good.
* CallConsole: the machine's own ICE candidate is found, and the timer after it
  fires. Nobody has to answer, to allow the microphone, or to hang up.

## 4. What is proved

TLAPS proves these for every value of the constants: any number of messages,
devices, calls, servers, users, tokens, publishers, connections, workers.

| Module | Theorems | Argument |
|---|---|---|
| `MessagesProofs` | `TypeCorrect`, `PullableIntactAlways`, `CacheNeverAheadAlways`, `HashRequestNeverLostAlways`, `LifecycleImplemented`, `CacheAgreesAtRestAlways` | `Sound` is inductive over `TypeOK`: `CacheNeverAhead` alone is not, since a call may hold the document that it is about to cache, so `CallSound` says the same of documents in hand, and `RowsSound` that hashed or deleted rows are settled. The refinement follows step by step from `Sound`. `Coherent`: an entry agrees with the rows of its ID unless a call is about to renew it, and what that call holds agrees instead |
| `PushProofs` | `TypeCorrect`, `RetriesCountAttemptsAlways`, `BlacklistEarnedAlways`, `AccountedAlways`, `NewerNeverUndoneAlways` | the invariant adds to the type where every event is (`Placed`: waiting under its own key, or in one server's hands), without which counting says nothing. `NewestWins`: what waits or is held is not older than what was sent under its key, a server holds one event of a key and what waits is newer, and what gave way gave way to a newer event (`ReplacedByNewer`); with `Accounted`, the newest did not give way |
| `ChannelProofs` | of PubSub: `LockProtectsAlways`, `NoSendOnClosedAlways`, `OrderKeptAlways`; of Sse: `SseTypeCorrect`, `SignalledOnceAlways`, `WalksRegisteredAlways`, `StreamInOrderAlways` | `LockProtects`: who waits holds the read lock, so no subscription it waits for can be removed. `Ordered`: what a subscription got or has waiting is from publishers that no longer wait for it, and one that had returned before another began is done. `Kept`: registered exactly while not signalled, under the write lock. `Flow`: what a stream shows rises, what its channel holds rises and comes after it, and all of it is older than the event that is still to be offered to it |
| `ConsoleProofs` | of CallConsole: `TypeCorrect`, `NeverBusyForNothingAlways`, `HuntsOnlyRingingAlways`, `AlertShowsCurrentAlways`, `OneCallAlways`, `ToneFitsCallAlways`, `SecondsFitCallAlways`; of Sms: `SmsTypeCorrect`, `OncePerJobAlways`, `ReportAddsUpAlways` | `Attached`: the first are inductive together with `Sane` (seconds that were started are counted), since what ends a session resets the whole page whichever session it was. `Tied`: a session that is not over belongs to a user agent that runs, which is the page's own while none is astray; an astray one stays astray. `Toned` says of the tone that waits what is said of the one that sounds, `Timed` that `started` tells whether an interval runs. For Sms, `Formed`: the batch of a request and what is left of the job have no number in common, what is logged and what is to do make up the batch, and a job is one tab's. `Once`: what a job still has to send was accepted for nobody, so accepting it counts to one (numbers as the page has them). `Books`: of the recipients of a job, what the page shows (sent and failed), the batch at hand and the batches to come are all (`Owed`), until the job is done and the first two are (`Settled`); the log holds no more than the same sum, and what it calls sent was accepted (`Truthful`) |
| `DeliveryProofs` | `TypeCorrect`, `NoPatchLostAlways`, `RefreshKeptAlways`, `ToldOfChangesAlways` | `Locked`: a transaction that is to write holds the row, or the gap, and has read the document as it still is. `Served`: what the goroutine found out is about a device it has in hand, so a refresh that is asked for again meanwhile stays in the queue. `ToldOfChanges` is inductive over `Typed`, but each step has to say where what it takes from one place goes: `StaysUnderWay` reduces a step to the notifications that it moves, `MissRecords` says that what it drops is recorded |
| `TaskLockProofs` | `RunnersHoldAlways`, `MutualExclusionAlways`, `NothingLeaksAlways`, `LockSurvivesOutages`, `AnswersTruthfulAlways` | `Guarded`: a live pinned connection means ownership; an outage takes both. `HealthInv`: a request's status is "fail" exactly when its own ping was bad and is counted (`Probed`) |
| `AccountsProofs` | `TypeCorrect`, `OneSuccessorAlways`, `ChainsEndAlways`, `RevokedStaysOutAlways`, `OldPasswordEvictedAlways` | `Inv`: a token that was revoked has a row that says so or is expired (`Recorded`), a pair's parent was revoked when it was issued (`Linked`), what `RevokeByUser` found is revoked (`CutOff`), and a request that was let in to refresh holds a token of its user (`Granted`). `CacheInv`: from its eviction on, what a change could not reach is in `evaded` (`Reached`) |
| `DevicesProofs` | `TypeCorrect`, `HookDeviceOwnedAlways`, `LastSeenGrowsAlways`, `CodesUsedOnceAlways` | `HookInv`: an id is given out once (`Known`), so the device a webhook is about to be saved for is still its user's, or gone (`Checked`); codes are counted with the theorems on finite sets |

Where an invariant is not inductive by itself, its strengthening (`Sound`,
`NewestWins`, `LockProtects`, `RunnersHold`) is stated in the component's module.

One theorem has hypotheses. `CacheAgreesAtRestAlways` supposes `Serial`: no two calls about one
message ID overlap. With two such calls the property fails, in the code as in the model (a
call may cache what it read before another one wrote), so the hypothesis is what
the statement is about; one call at a time, as in `messages_serial`, is a case of
it (`OneCallIsSerial`). It supposes further that the cache is the one in
the process (`memory://`, which does not fail and does not survive the process): a failing cache
keeps what it should have dropped, and one that survives a restart keeps what the
call that wrote the row had no time to replace. Each hypothesis is needed: without any
one of them TLC finds a violation in a few steps.

The assumptions are the `ASSUME`s of the modules, which TLC evaluates on every run:
bounds are numbers, names for "none" are none of the real ones, and what a
subset is declared of is its superset. Four say more. Messages takes no reports of
`Cancelling` (`ReportsAssumption`, see 2.1); Delivery has a server that takes messages (`Home \in Servers`); Sms takes finite texts, as a text is typed, and limits of at least one
recipient; and channels of Sse hold at least one event.

Only model-checked: liveness (`EventuallyHashed`,
`EventuallyResolved`, `ChannelCloses`, `CancelEndsPublish`, `CloseEndsConnections`,
`RunsAgain`, `RecoversFromOutage`, `GatheringEnds`, `RemovedLockedOut`, `RefreshServed`), which is beyond the
proof system. Every safety property that a passing run checks is proved. A few statements are
proved and not run any more, as a proved one
covers them: the types of the proved modules, `LockProtects`, `WalksRegistered`,
`BlacklistEarned`, `AlertShowsCurrent`, `SecondsFitCall`, `NothingLeaks`, `RefreshKept`, which is
the part of `RefreshServed` that needs no fairness; others are stated in their module and
follow from what is run (`CloseReturns`, `SendReturns`).

## 5. Not modelled

* Metrics, logging, start-up, configuration, migrations, the API description.
* What HTTP handlers parse and validate; the models take valid inputs.
* Providers (FCM, upstream, SMS gateways): their answers are choices.
* The factories that choose an implementation of pubsub and caches.
* The notification of a cancellation as an event of its own kind in `Delivery`.
* The console's contacts, history and developers' pages, mute, hold and tones in a
  call; the pages of its server that only read.
* Users do not interact with each other in the modelled components: every
  query and every key names the user. One user stands for all, but in the
  modules Accounts and Devices, whose theorems hold for any number.

## 6. Plan

1. `Delivery` with the cancellation of messages, and with `PubSub` in place of redis.
2. An abstract account of registration and of tokens, which `Devices` and `Accounts`
   implement, in the manner of `MessageLifecycle`.
