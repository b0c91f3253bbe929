# A verification project for the LaunchDarkly C server-side SDK

TLA+ models of the SDK's own logic - the feature store, the threads that feed
it, the evaluation of flags, the delivery of analytics events and the Redis
backend - with TLC runs on small instances and TLAPS proofs for every size. Paths
such as `store.c:470` are under `src/src/` unless another directory is named
(`sse.c`, `user.c` and `concurrency.c` are in `src/c-sdk-common/src/`, `redis.c` in
`src/stores/redis/src/`, headers in `src/include/launchdarkly/`).

To use it: `tlc -config <run>.cfg <module>` for a run of `PROJECT.json`,
`tlapm <module>.tla` for the proofs of one of the eight modules whose name ends in
`Proofs`.

## 1. The system

An `LDClient` has a store, an event processor and one background thread.
Application threads evaluate flags (reading the store, writing the event
processor), track events, flush and close. The background thread drives three
*network interfaces* - streaming or polling, and analytics - through one curl
multi handle. With a persistent backend the store's hash becomes a cache.

| component | state it keeps | operations | modules | what makes it correct |
|---|---|---|---|---|
| in-memory store (`store.c`) | hash of items `kind:key` and listings `all:kind`, `initialized` | init, upsert, remove, get, all | `Features`, `VersionedStore`, `MemoryStore`, `FilterAndCache`, `MemoryStoreProofs` | newest version wins; listing = live items |
| reference counts (`store.c`) | `LDJSONRC.count`, owners | new, increment, decrement, destroy | `JSONRC`, `SharedStateProofs` | no use after free, no double free, no leak but on two error paths |
| store with a backend (`store.c`) | backend, cache items with ages, accumulated listings, the write lock | the same, in two steps | `CachedStore`, `CachedStoreProofs` | reads see completed writes |
| initialization check (`store.c`) | `initialized`, a negative marker in the hash | `LDStoreInitialized`, init | `InitCheck`, `SharedStateProofs` | never early, noticed in the end |
| streaming (`streaming.c`) | `active`, `attempts`, `waitUntil`, `startedOn`, last read, header list | `poll`, `done`, write callback | `Streaming`, `DataSource`, `DataSourceProofs` | backoff kept, reconnects, silence detected |
| SSE parser (`sse.c`, handlers in `streaming.c`) | buffer and its size, event name and body | process a chunk, destroy | `EventStream` | chunk boundaries do not matter |
| polling (`polling.c`) | `active`, body, `lastpoll` | `poll`, write, `done` | `Polling`, `DataSource`, `DataSourceProofs` | body of one response, polling goes on if transfers end |
| analytics (`events.c`) | payload, its id, `failureTime`, `lastFlush` | `poll`, `done`, flush | `Analytics`, `EventsProofs` | one id per event, retry once, events settle if transfers end |
| network thread, client (`network.c`, `client.c`) | `current` handles, curl's multi handle, `shuttingdown` | start, the loop, cleanup, close | `NetworkThread`, `NetworkThreadProofs` | the three books agree, a clean exit from the loop, close returns |
| event processor, LRU (`event_processor.c`, `lru.c`) | queue, counters, `summaryStart`, user keys | evaluate, track, identify, alias, bundle | `EventProcessor`, `EventsProofs` | what a successful call evaluates is counted once, LRU exact |
| Redis store (`redis.c`) | pool, server hash, WATCH and MULTI per connection | init, upsert, get, all, initialized | `RedisStore`, `RedisStoreProofs` | newer wins, pool count exact, nobody stranded |
| variation calls, evaluation (`variations.c`, `evaluate.c`, `operator.c`, attributes of `user.c`) | the frames of a recursive call, references held, the caller's `LDDetails`, events so far | evaluate a flag for a user, typed results | `Targeting`, `Evaluate`, `MCEvaluate`, `EvaluateProofs` | the value is what the flag means; events explain it; references balanced but for failed reads; calls return |

How they interact: the handlers of `put`, `patch` and `delete` and the polling
update call `LDStoreInit`, `LDStoreUpsert` and `LDStoreRemove` on the network
thread; `LDStoreGet`, `LDStoreAll` and `LDStoreInitialized` run on application
threads under the store's reader-writer lock; results are reference-counted and
used outside it. The event processor has a mutex of its own; `LDClient.lock`
guards `shouldFlush` and `shuttingdown`.

The hard behaviour, listed line by line under `hazards` in `PROJECT.json`: the
backend is read with no lock held and the cache filled later; references are
dropped after locks are released; patches arrive late or twice; chunks end
anywhere; parser, connection and failure time outlive what they were made for;
timestamps are read outside locks; an evaluation reads several features one at a
time while they are replaced; calls fail half way.

## 2. The modules and the code

Every definition that models code is in `PROJECT.json` under `map`, with its
lines. Conventions used throughout:

* One action is one critical section, or one step between two points where
  another thread may run. Code that holds a lock from start to end is one
  action; a call of a backend with no lock held, and the cache update after it,
  are two.
* A timestamp of the code is kept as the *time since*, which stops at the
  largest value the code compares it with; `Tick` lets time pass. So time is
  unbounded and the state space finite.
* Operators marked `Fault:` are plausible bugs of the definition that follows
  them. They belong to no specification; `mutants` in `PROJECT.json` says which
  property refutes which.
* Variables marked `history` record what happened for the properties and guard
  no action of the program.
* Allocation failure is modelled where it leaves a changed state behind or
  changes a result (`LDStoreInitFails`, `tryGetAllBackendFails`, `pollFails`,
  `prepareSharedFails`, `pollBundleFails`, `makeCacheItemFails`,
  `getFromBackendFails`, `constructFails`, the failures of the event processor, and
  every allocation of an evaluation); elsewhere a failed call changes nothing,
  which is no step.

**Features, VersionedStore, MemoryStore, FilterAndCache.** A feature is its
version and its deleted mark. `MemoryStore` is the store without a backend:
`items` are the items of the hash, `all` the listings. `upsertItem` and
`upsertAll` are the two halves of `upsertMemory` (425-586): the version test,
then the four cases of the listing. `LDStoreInit` is one step
there, with a closed form (`cachedAll`) for the loop over a payload.
`FilterAndCache` extends it with `memoryInit` as the code has it: lock, flush,
one feature after the other through `upsertMemory` in any order, mark, unlock -
or flush and unlock when memory runs out - and `InitIsAtomic` says that this
implements the one step. Its run checks `MemoryStore`'s properties as well.
`LDAllFlags` is three steps, since it reads the store twice and uses the listing
outside the lock. `VersionedStore` is the promise: a table where newer wins, a
listing that always is that of the table, all or nothing on init.

**JSONRC.** Owners are cache items (`Slots`) and reading stack frames. The
decrement under the mutex and the destruction after the unlock are two steps;
`deleteAndRemoveCacheItem` drops the item's reference before `HASH_DEL`, so that
for a while the hash points to a freed object that only the write lock hides.
Two failures lose an object for good: `makeCacheItem` does not release the one it
has made when the item around it cannot be allocated (`store.c:351`), and
`tryGetBackend` sets `*result` before the cache refuses the feature (980), which
callers that are told of a failure do not look at. `forgotten` is the history of
these objects: `OnlyErrorsLeak` says that no other is lost.

**CachedStore.** One kind. `LDStoreUpsert`/`LDStoreInit` write the backend,
`upsertCompletes`/`initCompletes` update the cache. A reader that misses reads
the backend (`readBackend`) and fills the cache later (`tryGetBackend`,
`tryGetAllBackend`). `alls` is a sequence because `HASH_ADD` puts a second
listing beside the first and `HASH_FIND` meets the newest; which of two equal
keys uthash finds first is its insertion at the head of a bucket. The backend is
external and modelled by the contract in `include/launchdarkly/store.h`. `held`
says that a failed `tryGetAllBackend` has left the write lock locked; whatever
needs the lock waits from then on, and only time passes.

**InitCheck.** `LDStoreInitialized` with a backend. A second deletion of a
marker under the read lock is undefined behaviour: the model sets `corrupt` and
the callers stop.

**Streaming, EventStream, Polling, Analytics.** One module per network
interface, seen from the thread that calls `poll()` and `done()`; the peer may
do anything. `EventStream` is the parser over token sequences: a line is a few
tokens and a newline and may be cut anywhere between tokens. Its reference,
`EventsOf`, reads the events off the blank lines of all the tokens received and
knows of no chunks. `headers` in
`Streaming` is the context's header list as its pointer sees it (none, live, or
freed and still pointed to), `corrupt` that it was freed once more. Memory fresh from
`LDRealloc` is a choice over `Garbage`. `LongUptime` in `Analytics` models the
conversion of a `double` beyond 2^32 to `unsigned int` as the wrap the common
builds produce.

**DataSource.** Streaming and polling composed as the client has them: both are
interfaces of the network thread, and `config->stream`, fixed for good, decides
which of the two gets past the first test of its `poll()`.

**Targeting, Evaluate, MCEvaluate.** `Targeting` is the part that decides whether a
user matches: operators, clauses without segments, segments, bucketing and
rollouts, as operators over features that are records. A field may be `Absent` or
`Bad` (of the wrong type), and each operator tests them in the code's order, so
that a malformed flag gives the status the code gives. What the code takes from
libraries is external and a constant operator: comparing texts and regular
expressions, parsing dates and semantic versions, printing a number, SHA1.

`Evaluate` is a variation call from the store to the caller. The recursion of
`LDi_evaluate` is a stack of frames that say which part of the function has been
reached and where its loops are; a frame stays until its caller has dealt with
what it returned. An action is one access to the store, or one allocation, with
the pure code around it; between two of them the network thread may replace or
delete any feature (`write`). Then come the events handed to the event processor
(`processEvaluation`) and the check of the requested type (`checkType`).
`strings` counts the texts that `LDDetails` ought to own. `held` counts the
references the call has; a read of the store that fails after `tryGetBackend` has
set its result adds one that nobody drops (`failedGet`, `leaked`), since
`evaluate.c:483` and 747 return at once. That prerequisites have
no cycle is external (`Acyclic`): the SDK relies on the service for it and has no
test of its own. `Reference` is the abstract meaning of the flags in a snapshot of
the store, with quantifiers instead of loops and prerequisites by depth; it uses
of the code's definitions only the operators on two values, the reading of
attributes, `bucketUser` and the shape of an event. A meaning is claimed only for
flags that obey the schema of the service, which `FlagOK` and `SegmentOK` spell out
(an index names a variation, a list is there, a rollout has shares) and
`WellFormedAssumption` asks of the worlds in `WellFormed`. What the code does with
anything else is part of the model all the same, and of every other property.
A user's lists must hold neither lists nor objects for it (`Plain`): for these
the code reports a schema error.

`MCEvaluate` gives four worlds, the histories that flags and segments go through:
*turning* (prerequisites two deep that are switched, replaced and deleted),
*targeted* (targets, rules, clauses, segments, attributes of each type),
*growing* (rollouts and experiments whose shares change) and *broken* (one field
after another of the wrong type or pointing to nothing).

**NetworkThread.** `LDi_networkthread` from its first line: `curl_multi_init` and
the constructors, each of which may fail and end the thread on the spot
(`pc = "aborted"`), then the loop with every exit (shutdown, failed add, failed
remove, 401/403, failed wait) and the cleanup. Interfaces are constructed, polled
and cleaned up in any order here; the code's order is one of them. An interface is reduced to whether it is active; its own logic is in the modules
above.

**EventProcessor.** A call reads the clock (`enter`) and takes the lock later.
Each way a call can run out of memory after it has changed something is an
action. `succeeded` and `gaveUp` are histories of what the calls were asked to
count, written by what a call returns to its caller (`leave`) and not by what it
did to the counters. `LRUInsert` is the LRU as the order of use. Event payloads are reduced
to kind and subject, `inlineUsersInEvents` is off, and `Tracked` stands for
`trackEvents` and experiments alike; what an event says of a flag (value,
variation, version, reason) is in `Evaluate`.

**RedisStore.** Clients are threads of this or another process. Each round trip
is a step; the server's WATCH and MULTI state belongs to the connection and
survives its return to the pool. `PoolSizes` are the pool sizes a behaviour may
start with, `Marks` whether features may be tombstones. `LDi_cond_signal` is a broadcast
(`concurrency.c:691`). With `Faults` commands may be refused, connections lost,
and EXEC carried out with its answer lost.

## 3. The runs

Passing runs (bounds in the `.cfg`):

| run (module) | what it shows | bounds, and why they are enough |
|---|---|---|
| `MemoryStore` (`FilterAndCache`) | listing = live items, newest wins, `memoryInit` is atomic for other threads, refinement of `VersionedStore` | 1 kind (kinds do not interact), 2 keys (a listing with and without others), 2 versions (older, equal, newer) |
| `JSONRC` | no use after free, one free, no leak but on the two error paths | 3 addresses for 2 items and 2 readers: an address can be reused while another is held |
| `CachedStore` | `LDStoreGet` sees completed writes; fresh items do not regress | 1 key, 2 versions, 2 readers, TTL 1, a fill may stall for 1 tick |
| `InitCheck` | never early, noticed in the end | 2 callers, 3 markers (both may add one while one is in the hash) |
| `DataSource` | backoff respected and capped, reconnects, silence killed; polling: body of one response, polling continues if transfers end | cap reached at attempt 4; read timeout longer than the quick-close limit; 3 chunks, 3 responses, interval 3 |
| `EventStream` | chunking is irrelevant | 4 lines per connection: an event of two data lines and a terminator; 2 connections |
| `Analytics` | one id per event, events accounted for, retry waits, events settle if transfers end | 2 events: one in a payload while another is queued |
| `NetworkThread` | books agree, no dead handle used, clean exit from the loop, no transfer left by an early return, close returns | streaming and analytics, 3 handles: one can be freed and reused |
| `RedisStore` | exact pool, newer wins, nobody stranded, all under faults | 2 clients, pools of 1 (contended) and 2 (concurrent transactions), 2 versions |
| `EventProcessor` | evaluations of calls that return TRUE counted once, of others at most once; summaries do not overlap; LRU exact | 2 threads, 4 calls (three users to fill the LRU and evict, one to come back), 2 clock values (a call may read the first and lock at the second, when the keys expire), a flag and a missing one; 3 users for an LRU of 2, interchangeable (`Symmetry`); a queue of 1 overflows |
| `Evaluate` (`MCEvaluate`) | an undisturbed call gives what the flag means (`QuietEvaluation`); a disturbed one a result that its events explain; references balanced but for the one of a failed read; typed results and truthful counted events; calls return; a growing rollout keeps its users | 3 flags (a chain of prerequisites, and two beside each other), 2 segments, 2 users, 4 worlds; 2 writes: one before and one after a feature is read, or two features of one call |

Type invariants are checked where a proof uses them or where they bound a counter;
the other modules keep theirs as the definition of the state.

`CachedStore` assumes `InOrder` (the service does not send an older version after
a newer one) and `MaxStall <= CacheTTL`. `EventStream` assumes `CleanClose`: a
connection ends between two lines. Section 4 says what happens without these.
`EventStream` and `EventProcessor` end when their bounds are used up,
`NetworkThread` when the client is closed, `RedisStore` when the process has
crashed: these do not check for deadlock. All others do.

## 4. Where code and documents disagree

`RedisTombstone` is a run that ends in a violation: `store.h:113` says of an upsert
"Only deletes current if version is newer"; `storeUpsertInternal` forgets an
existing feature that is deleted before it compares versions (`redis.c:653`), so
that a delayed older patch brings a deleted feature back (`TombstonesWin`).

Each of the following configurations violates the property it names, too. They are
kept to show the limits of what section 3 establishes; they are not part of
`PROJECT.json`. (`FailedCalls`, `Markers`, `PollLimits`, `RedisErrors` and
`DebugEvents` hold several properties; `tlc -continue` reports each.)

| configuration (module) | property | what happens |
|---|---|---|
| `AllFlags` (`MemoryStore`) | `RawFlagsNotNull` | a store initialized with no live flag has no listing; `LDAllFlags` asserts one (`variations.c:643`, `store.c:287`) |
| `StaleListing` (`CachedStore`) | `AllSeesCompletedWrites` | a listing read from the backend before an upsert is cached after it and served until it expires (`store.c:877`; `test-utils/src/store.c:74` has `LDStoreAll` return the upserted flag at once) |
| `LateUpsert` (`CachedStore`) | `GetSeesCompletedWrites` | without `InOrder`: an older version the backend has ignored is cached once the cached item has expired (`store.c:471`) |
| `Markers` (`InitCheck`) | `DeletedOnce` | two readers delete the same expired marker under the read lock (`store.c:1507`); functions that change the hash say "expects write lock" (`store.c:425`) |
| `Markers` (`InitCheck`) | `InitializedAfterInit` | a negative answer asked for before `LDStoreInit` is cached after it (`store.c:1525`) and hides the init until it expires |
| `QuickClose` (`Streaming`) | `QuickCloseIsFailure` | "if closed within 60 seconds of start count as a failure" (`streaming.c:404`), but `startedOn` is set only after a backoff wait (481) |
| `BrokenStream` (`EventStream`) | `PutApplied` | without `CleanClose`: `LDSSEParserDestroy` leaves `bufferSize` (`sse.c:33`), and the next connection's first line comes after as many uninitialized bytes |
| `LostFlush` (`Analytics`) | `FlushRemembered` | `LDClientFlush` "immediately flushes queued events" (`client.h:121`); an acknowledged post clears a request made during it (`events.c:76`) |
| `LongUptime` (`Analytics`) | `RetryWaits` | `failureTime` is truncated to 32 bits (`events.c:95`): past 49.7 days the retry does not "wait for one second" (233) |
| `HeaderList` (`Streaming`) | `HeadersFreedOnce` | a `poll()` that fails frees the header list and keeps the pointer (`streaming.c:577`); `destroy()` or a later `poll()` that fails before it has a new list frees it again |
| `HeldLock` (`CachedStore`) | `LockReleased` | after `filterAndCacheItems` a failed allocation jumps past the unlock (`store.c:864`): every later call of the store waits for ever |
| `FailedCalls` (`MCEvaluate`) | `DetailsOwnTheirTexts` | an error after a reason with a text was set overwrites the union; `LDDetailsClear` "frees any resources associated with details" and cannot find it |
| `FailedCalls` (`MCEvaluate`) | `FallbackHasNoVariation` | `hasVariation` is "false if the default value was returned" (`variations.h`); `addValue` sets it before the lookup of the value can fail |
| `FailedCalls` (`MCEvaluate`) | `FailureHasAReason` | a store that fails inside an evaluation leaves the reason `LD_UNKNOWN`, not `LD_STORE_ERROR` |
| `FailedCalls` (`MCEvaluate`) | `NoMemoryMeansNoMemory` | "A rule specified a nonexistent variation" is `LD_MALFORMED_FLAG` (`variations.h`); the code reports `LD_OOM` |
| `PollLimits` (`Polling`) | `PollsSpaced` | `CHANGELOG.md:126`: a retry "simply waits until the next poll interval"; `lastpoll` is set only for a 200 (`polling.c:126`) |
| `PollLimits` (`Polling`) | `BodyPresent` | a 200 without a body reaches `LD_ASSERT(rawupdate)` (`polling.c:20`) |
| `RedisErrors` (`RedisStore`) | `InitializedTruthful` | an error reply is reported as "initialized" (`redis.c:799`) |
| `RedisWatch` (`RedisStore`) | `InitSucceeds` | an upsert that finds a newer feature leaves WATCH on (`redis.c:664`); an init that borrows the connection fails for no error |
| `RedisErrors` (`RedisStore`) | `AllReturns` | the type of a NULL reply is read (`redis.c:520`) |
| `DebugEvents` (`EventProcessor`) | `DebugQueued` | the test of the conversion is inverted: a converted debug event is freed, not queued (`event_processor.c:509`) |
| `DebugEvents` (`EventProcessor`) | `PeriodCovers` | an evaluation (`event_processor.c:96`) and a bundle (1538) read their time before the lock, the summary its start inside it (237): an evaluation may lie before the period that counts it, and a period may end before it starts |
| `LostReference` (`JSONRC`) | `NoLeak` | `makeCacheItem` and `tryGetBackend` fail after they have made an object and leave it to nobody (`store.c:351`, 980) |
| `FailedCalls` (`MCEvaluate`) | `NothingHeldAfterwards` | the same seen from a variation call: it returns `EVAL_STORE` and keeps a reference (`evaluate.c:483`, 747) |
| `SilentServer` (`Analytics`) | `EventsSettleAnyway` | without `TransfersEnd`: a service that takes a post and never answers keeps its events in flight for ever, and the later ones in the queue |
| `EarlyExit` (`NetworkThread`) | `AlwaysCleanExit` | a constructor fails: the thread returns past its cleanup and leaves the multi handle and the interfaces made before (`network.c:203`, 209, 216) |

One more passes: `Uncached` (`CachedStore`), where with a time to live of 0 both single
reads and listings see completed writes, in whatever order versions are sent.

## 5. Fairness

* `InitCheck`: callers keep calling (the loop of `LDClientInit`, and every
  variation) and time passes. Nobody has to initialize the backend.
* `Streaming`: the thread calls `poll()` for ever and time passes; strong fairness
  of `pollConnect` says that building a curl handle does not fail every time.
  Nothing is assumed of the peer: the read timeout has to deal with it.
* `Analytics`, `Polling`: the thread polls and time passes. That a transfer ends is
  not part of the fairness: the SDK gives curl a timeout for connecting
  (`network.c:116`) and none for the transfer, and neither interface has a clock of
  its own for a request in flight, as streaming has. `EventsSettle` and
  `KeepsPolling` state it as their premise, `TransfersEnd` (not which way a
  transfer ends), and `SilentServer` of section 4 shows what happens without.
* `DataSource`: that of `Streaming` and of `Polling`; nothing is added.
* `Evaluate`: the thread that evaluates keeps running. This is weak fairness of
  `Evaluation`, written out with `Running` for its being enabled (no lock is waited
  for inside a call, and the absence of deadlock shows that a running call has a
  step). Nothing makes an application call again, and nothing makes the network
  thread write or stop writing.
* `NetworkThread`: the thread and the one that called `LDClientClose` run.
* `RedisStore`: a thread in a call runs, commands are answered or fail, the timed
  wait ends. The mutex is not fair, hence the premise of `NobodyStranded` that the
  others stop calling.
* `MemoryStore`, `JSONRC`, `CachedStore`, `EventStream`, `EventProcessor` have
  safety properties only and no fairness.

## 6. What is proved

Every safety property that a passing run checks is also a theorem, for every
value of the constants. A property is seldom inductive as it stands. The invariant
that makes it so is defined at the end of the component's own module, was
checked by TLC there first, and is a conjunction of named parts; its proof has one
lemma per action or kind of action. `Spec` (or `DeliverySpec`, `CheckSpec`,
`Source`, `ParserSpec`) follows by temporal logic.

Two proofs need induction over data: over the tokens of a stream, and over lists
and the depth of prerequisites. The library states induction for an operator,
which the provers cannot instantiate. `NumberInduction` states it for a set
(a set with 0 that is closed under the successor holds every number). It follows
from a least element, which comes from the well-foundedness of `<` on the naturals, and
the lemmas apply it to sets like {n : the property holds of n}.

`MemoryStoreProofs` - versions are naturals, `LD_FLAG` is a kind, `NULL` is neither a
feature nor a collection.
* `TypeCorrect`, `ListingCorrect` (`AllMatchesItems`): inductive with the types alone;
  the step lemmas say how `Live` changes when one key of a collection does, so
  that each case of `upsertAll` is compared with the item written.
* `DeliveryOrderIrrelevant` (`LatestWins`): an upsert adds its version to
  `delivered`; either the item supersedes it or becomes it.
* `Refinement` (`ImplementsVersionedStore`): uses `AllMatchesItems` on both
  sides of the step, since the abstract listing is computed from the table.
* `InitLoopIsAtomic` (`InitIsAtomic`): the loop of `memoryInit` implements the one
  step that `MemoryStore` has for it, for payloads of any size. `LoopInv` says
  that at any point of the loop the hash is what an init with the features cached so
  far would leave. The loop is a behaviour here, so that induction over the steps
  replaces induction over the payload. `LoopKeepsPromises` carries the promises
  of `MemoryStore` over to the loop.

`SharedStateProofs` - owners are finite and distinct.
* `ReadersSafe`, `DestroyedOnce`, `OnlyFailuresLeak` (`NoUseAfterFree`, `FreedOnce`,
  `OnlyErrorsLeak`): that a reader's object is not
  freed needs that its count is the number of its owners (`CountExact`), that an
  owned object is allocated (`OwnedIsAllocated`), that one being destroyed has no
  owner (`DyingIsUnowned`), and that an item with a dropped reference is behind
  the write lock (`RemovingIsLocked`). A forgotten object has no owner and nobody
  destroys it (`LostIsAlone`), so that it is not handed out again either. The cardinality lemmas on adding and
  removing an owner come from `FiniteSetTheorems`.
* `InitializedNeverEarly` (`NeverEarly`): `EarlyInv` traces every positive answer -
  remembered, under way or given - to the backend.

`CachedStoreProofs` - versions are positive naturals, `NULL` is no feature or item.
* `GetsSeeWrites` (`GetSeesCompletedWrites`), if `CacheTTL = 0`, or if `InOrder` and
  `MaxStall <= CacheTTL`. `StoreInv` (the backend has the last write) holds without
  these. `CacheInv` adds what late fills need: while a fill with older data is
  pending the item of the write is still in the cache, and is no older than the
  fill (`PendingFills`, `LateFills`). The hypotheses are what the argument needs:
  `LateUpsert` of section 4 shows a behaviour without `InOrder`.
* `CacheNeverRegresses` (`FreshItemsNeverRegress`), with no hypothesis.

`DataSourceProofs` - times are positive, and the cap is reached within `MaxAttempts`
(`2^MaxAttempts >= 2 * BackoffCap`).
* `WaitsStayCapped` (`TypeOK`), `BackoffAlwaysRespected` (`BackoffRespected`): the time
  left to wait and the time since the stream closed make up the least wait
  (`WaitMakesUp`).
* `BodiesNeverMix` (`BodyIsOneResponse`): the memory is empty while no poll is active.
* `ChunkingIrrelevantWhenClean`, `ChunkingIsIrrelevant` (`ChunkingIrrelevant`), for
  streams of any length cut anywhere: the handlers have been given exactly the events of
  the bytes received. `ParserInv` says that the parser is where it would be had it
  met all the bytes of its connection in one chunk, its buffer being the line that is not
  complete. That it stays so is the lemma on resuming: going through a chunk and then,
  with what was left in front, through the next one comes to the same as going
  through both at once. That one chunk gives the events that `EventsOf` reads off the
  bytes is a second induction, over their lines. The first theorem assumes nothing of how
  connections close and holds on the first connection, and on all of them with
  `CleanClose`; the second is the run's property as it stands. `BrokenStream` of
  section 4 shows that later connections need `CleanClose`.

`EventsProofs` - capacities, intervals and bounds are naturals.
* `SummariesAreExact`, `PeriodsFollow` (`SummaryExact`, `SummariesFollow`): `SummaryInv`,
  with what a call in flight knows of the time (`CallsOK`) and the types of the counters.
  `ReturnStep` is the heart: a call that ends has added to the counters no more than
  it was asked for, and all of it when it returns TRUE. A summary starts after the last
  one ended because the clock inside the lock has passed every time read before it.
* `LRUIsExact` (`LRUExact`): `LRUHolds` says that the LRU is the last distinct users
  seen, in order of use. That an insertion keeps it goes through lemmas on how
  moving to the front and cutting the tail change positions.
* `OneIdentifier`, `EventsAccounted` (`OneIdPerEvent`, `Accounted`): the service has seen
  of the buffer's events only the payload in the buffer (`ReceivedIsPast`), and a
  buffer is overwritten only when it is counted as lost (`BufferIsKept`).
* `RetryIsSpaced` (`RetryWaits`) while the uptime is below 2^32 milliseconds; `LongUptime`
  of section 4 shows that it is false afterwards.

`NetworkThreadProofs` - finitely many interfaces and at least one, `NULL` is no handle.
* `BooksAlwaysAgree`, `HandlesAlive`, `ExitsCleanly` (`BooksAgree`, `FreesLiveHandles`,
  `CleanExit`): every live handle has an owner (`HandlesHaveOwners`), the owner the
  thread finds for a message is the right one (`OwnerIsRight`), and between two calls of
  the loop the books are whole (`WholeInLoop`), which starts with no transfer and every
  interface constructed. `ExitsCleanly` promises the cleanup to a thread that got to its
  loop; `EarlyExit` of section 4 shows that the others go without.

`RedisStoreProofs` - clients and connections are finite, there are as many
connections as the largest pool has, versions are naturals, `NULL` is neither
connection nor feature.
* `PoolBooksBalance` (`PoolAccounted`): every connection is in one place, and the count
  is their number (`PoolInv`).
* `NoUpsertGoesBack` (`NewerWins`): until EXEC either the feature is the one the
  upsert has read or the server has marked the transaction (`WatchHolds`).
* `ConnectNeverStarved`: a client that may open a connection finds one to open.

`EvaluateProofs` - what a flag may hold where the code tests it: `on` is Boolean or
`Bad`, prerequisites are `Absent`, `Bad` or a sequence whose keys are flags or `Bad`
(which stands for a missing field here too: the code returns the same status).
* `ReferencesAlwaysBalanced`, `ResultsAreTyped` (`ReferencesBalanced`, `TypedResult`):
  `Inv` says what each frame holds at each place (`FrameOK`), that a reference nobody
  drops ends the call it is lost in (`LeakEnds`), so that there is at most one, that a frame that
  waits for a prerequisite has its callee above it (`StackOK`), and which outcomes
  a return may have (`OutcomeOK`).
* `EventsAlwaysExplain` (`EventsExplainResult`): `StoryInv` relates the events so far to
  the frames that are open; that later writes do not undo it (`TellsGrows`)
  is the argument about interleaving.
* `QuietEvaluationsAreMeant` (`QuietEvaluation`), for the worlds of `WellFormedAssumption`
  and any acyclic prerequisites. Three layers: each loop of the code (values of a
  clause, clauses of a rule, rules of a segment, shares of a rollout) decides what the
  reference says with a quantifier or a least index; the reference is a fixed
  point of `Meaning`, because a flag's outcome no longer changes once the depth
  has passed its rank among the prerequisites; and `QuietInv` says of each frame how
  far it has got (`Progress`: the prerequisites passed so far and their events, the
  rules missed so far, the clauses of the current rule that hold) until what it returns
  is the meaning of its flag. TLC has checked `QuietInv` on the bounds of the run.
* `RampsKeepTheirUsers` (`StaysInRamp`): the end of the first share moves up, and
  a bucket below it stays below it.

Only model-checked: liveness, which the prover does not reach. `InitIsNoticed`,
`Reconnects`, `SilentStreamKilled`, `EventsSettle`, `KeepsPolling`, `CloseReturns`,
`NobodyStranded`, `EvaluationEnds`.

## 7. Not modelled

* `config.c` and the setters of `user.c`: data without interaction. Their values are
  constants. The serialisation of a user (`userToJSON`, private attributes) is
  output only: no state of the SDK depends on it.
* What `Targeting` takes as constants: SHA1 and the conversion of its digits, regular
  expressions, the parsers of dates and semantic versions, the printing of a number.
* `LDAllFlags` after it has read the store: it evaluates each flag of the listing as
  `Evaluate` does, and drops the events.
* The header lists of `polling.c` and `events.c`, which are handled as the one of
  `streaming.c` is.
* `json.c`, vendored cJSON, `uthash`, `utlist`, `sha1`, `semver`, `base64`,
  `timestamp`, the HTTP parser of the test server: data is abstract here.
* `concurrency.c`, `utility.c`: the platform's primitives are built into the
  actions (the broadcast and the timed wait of the pool excepted, which are
  mapped).
* `storeDestructor` and `LDStoreDestroy`: called when the threads are gone.

## 8. Plan

Done: the store (in memory, cached, its reference counts and initialization check),
the network interfaces and their composition, the thread, the event processor,
evaluation, Redis; the proofs of section 6, which cover every safety property of the
passing runs.

Next, in this order:
1. `RedisStore` against the promises of `VersionedStore`, with tombstones left out.
2. `Delivery`: the composition of `EventStream` or `Polling` with `MemoryStore`: what
   the server has sent is what evaluation sees, over reconnects.
3. Two keys in the listing of `CachedStore`.
