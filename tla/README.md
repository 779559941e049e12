# FastEdge JS SDK: a verification project

TLA+ models, model-checking configurations and machine-checked proofs for the
FastEdge JavaScript SDK: the runtime builtins written in C++
(`runtime/fastedge`), the build tools and the static-asset server written in
TypeScript (`src`). Paths below are relative to the repository;
`PROJECT.json` puts the directory `src/` of the checkout before them.

Contents: 1 inventory, 2 modules, 3 runs, 4 fairness, 5 proofs, 6 known
divergences, 7 what is not modelled, 8 plan.

## 1 Inventory

The SDK compiles a JavaScript application into a WebAssembly component. Its parts
meet in three places: JavaScript in an instance calls the *builtins*, which call
the *host* (cache, key-value store, secrets, environment); the *build tools* turn
files into a component; the *static server*, bundled into the application, answers
requests from the files that were inlined when the component was built.

| Part (source) | State it keeps | Operations | What must hold |
|---|---|---|---|
| `fastedge::cache` (`builtins/cache.cpp`) | the in-flight map of each instance; one outer promise and one state object per call of `set` or `getOrSet` that waits | get, exists, delete, expire, incr, decr, purge, purgePrefix, set, getOrSet, and the reactions on the user's promises | one populate per key and instance; map entry and computation come and go together; each outer promise is settled exactly once; only what a caller was told was cached is cached |
| Host cache (`cache-sync.wit`, wrappers in `fastedge_host_api.cpp`) | entries with deadlines, shared by the instances of a POP | the synchronous operations | outside the repository; each call is atomic, TTLs are relative to the time of the call |
| Rate limiter (`examples/cache/src/index.ts`) | a counter per client in the cache | incr, then expire if the count is 1 | distinct counts, at most the allowed number per window, windows end |
| Static site (`server/static-assets`, `utils/file-info.ts`) | the manifest file; the asset cache inside the binary; tags and dates at clients | scan, write manifest, snapshot, serve, conditional requests, fallbacks | the ETag names the bytes it is sent with; a 304 only to who has the bytes |
| Asset paths (`utils/file-system.ts`, `config-helpers.ts`, `content-types.ts`, `static-server.ts`) | none between calls | walk with pruning, normalization, content types, lookup | the walk finds what the settings leave; an asset is found by its path if a URL spells it alike |
| Builds (`cli/fastedge-build`, `componentize`) | manifest files, temporary directories, outputs overwritten in place | direct builds, lists of configs, the steps of componentize | a reported build is complete and made of its own files |
| Stored bodies: `fastedge::kv` and its `KvStoreEntry` (`builtins/kv-store.cpp`), `CacheEntry` (`builtins/cache.cpp`), `EmbeddedStoreEntry` (`asset-loader`) | open handles; the bytes of each entry; for an asset the one array of its bytes, and per entry a consumed and a disturbed flag and a stream | open, get, getEntry, the sorted-set calls; arrayBuffer, text, json; body and its readers | what the application writes into its buffers changes no entry; an asset is read whole or not at all |
| `fastedge` global (`builtins/fastedge.cpp`) | none | getEnv, getSecret, getSecretEffectiveAt, readFileSync | a secret is never later than the one asked for; the text of an answer is given back |
| `event.client`, `event.server` (`builtins/request-info.cpp`) | objects that become properties when they are first read | four getters | two reads agree, whatever happens to the headers in between |
| WIT bindings (`host-api/bindings/bindings.c`, generated; wrappers in `fastedge_host_api.cpp`) | the memory of one call: an area for the answer, the blocks the host asked for | 143 adapters that get an answer in memory, 68 `_free` helpers of types that own memory | arguments and answers arrive as they were sent; every block is given back once |
| fastedge-init, fastedge-assets' option merging, esbuild plugins, precompile, syntax checker, console override | none of interest | I/O, text to text | see section 7 |

Where the difficulty lies:

- **Re-entrancy and promises.** `getOrSet` calls the user's `populate` from the
  middle of its body; `populate` may call the cache again, on the same key too.
  Afterwards the computation goes on in up to two reactions, each with several
  error paths that must remove the map entry *and* settle the promise.
- **Instances.** The host may end an instance at any time. Its map and its
  promises vanish, what it stored stays.
- **Time.** A TTL is computed when a function is called, and counted by the host
  from the write, which may come much later. Entries expire and are evicted
  between any two calls.
- **Files that change.** Hash and time of an asset are recorded in one build step,
  its bytes are read in another; clients hold validators of earlier deployments.
- **Shared buffers.** The application may write into every buffer it made or was
  given, between any two steps; several promises hand out the same entry, and the
  streams of one asset the same array.
- **Memory without a collector.** Below the builtins a value is offsets into an area
  and pointers to blocks: which part is where is a number in the code, and differs
  from case to case; who gives a block back is a convention between three layers.
  Natives belong to objects a garbage collector finalizes whenever it likes.
- **Failures half way.** Builds share manifests and outputs, overwrite them in
  place and may be killed at each step.

`PROJECT.json` lists the hazards one by one, each at its line, with the properties
that watch it.

## 2 Modules

    HostCache ----- Cache ----- CacheRefinement --INSTANCE--> SingleFlight
        |             |              |-- MCCacheRefinement
        |             '-- MCCache    '-- CacheProofs
        '-- RateLimit -- MCRateLimit, RateLimitProofs

             .-- BytesEntry --.-- KvStore ----.
    JsHeap --|                '-- CacheBytes --- StoreEntries -- MCStoreEntries,
             '-- EmbeddedStoreEntry ----------'                  StoreEntriesProofs

             .-- BindingsC -----.-- BindingsFree --.
    WitAbi --|                  |-- GcoreCalls ----.-- HostCalls --.
             '-- BindingsTypes -'-- WasiCalls -----'               |
                                        '-- BindingsProofs ----.   |
                     StoreHandles --.                          |   |
                     SecretSlots ---+----------------------- MCInstance -- InstanceProofs
                     RequestInfo ---'

    StaticSite -- MCStaticSite, StaticSiteProofs
    Build -- MCBuild, BuildProofs          AssetPaths -- MCAssetPaths, AssetPathsProofs

**HostCache** is the store behind `cache-sync.wit`: `store[k]` is an entry with a
deadline. `Put`, `Erase`, `Renew`, `Count` are the host calls, `Tick` (time passes,
entries expire) and `Evict` the host's own doing. Two fields of an entry are
auxiliary: `by`, the call that wrote it, and `due`, the absolute expiry asked for.
It has no specification of its own; `Cache` and `RateLimit` extend it.

**Cache** is the builtin in all the instances of a POP. JavaScript in an instance
runs to completion, so each API function and each reaction handler is one action,
but for `getOrSet`, which is cut where it calls `populate`:

| Code (`cache.cpp`) | Model |
|---|---|
| `INFLIGHT_MAP` | `inflight[i][k]` |
| outer promises | `promise[c]`, named for the call that made them |
| what a call returned | `answer[c]`: its own promise, that of the call it joined, or `Threw` |
| the state object and the reactions attached | `job[c]`, with the step to come |
| the C++ stack of `populate` calls | `stack[i]`; while it is not empty no reaction of i runs |
| `build_ttl_ms` | `ValidOptions`, `TtlMs` |
| `Cache::getOrSet` | `GetOrSetThrows`, `GetOrSetHit`, `GetOrSetJoin`, `GetOrSetStart`, then `PopulateThrows`, `PopulateReturns`, `GetOrSetAborts` |
| `getOrSet_populate_then`, `_populate_catch` | `PopulateNull`, `PopulateBytes`, `PopulateBody`, `PopulateBadValue`, `PopulateCatch` |
| `getOrSet_bytes_then` | `BytesThen`, `BytesCatch` |
| `getOrSet_finalize`, `reject_and_finish` | `Finalize`, `Reject` |
| `Cache::set`, `set_then`, `set_catch` | `SetThrows`, `SetBytes`, `SetBadValue`, `SetBody`, `SetThen`, `SetCatch` |

Values are opaque; a buffer, a stream and a `Response` differ only in whether
their bytes are at hand. `awaits[p]` holds the cache promises populator p waits
for: it makes deadlocks between populators visible. The constant `AllocMayFail`
adds the paths on which the engine runs out of memory (the out-of-memory callback
in `fastedge.cpp` only logs, so failed allocations do return to these handlers).
In `job`, `stuck` and `orphan` stand for the two ways in which such a failure leaves
a promise that nobody will settle, with its map entry in place or removed.
The operations of the in-flight map itself may fail too, and nobody is told:
`inflight_get` reports a failure as a missing entry (`Miss`), so that `GetOrSetStart`
may overwrite an entry that is there, and `inflight_delete` gives up silently
(`Release`), so that the entry stays. `damaged` is auxiliary and records the entries,
an instance and a key, on which this has happened.
`InstanceEnds` is the host's choice to end an instance.

**SingleFlight** is the contract of `types/fastedge-cache.d.ts`, without promises
or a map: per instance and key a set of waiters, one outcome for all of them, the
value cached in the step that answers them. **CacheRefinement** maps `Cache` to it:
the waiters of a key are the calls whose answer is the promise in the in-flight
map, the outcome of a call is what that promise shows.

**RateLimit** is the loop of the cache example: `Incr`, then `Answer` (which calls
expire when the count was 1), with `Die` between the two. `ClientKey[r]` is the counter
of the client that sends r. `window[r]` is auxiliary and names the request that opened
the window r was counted in.

**StaticSite** follows a site from the directory to the browser. `Scan`, `Record`,
`WriteManifest` make the manifest, which hashes each file; after it a static build
goes on to the snapshot at once, fastedge-assets ends; `StartSnapshot`, `Inline`,
`Snapshot` read the bytes; `Deploy` swaps the binary. `ServeMatch`, `ServeSpa`,
`ServeNotFound`, `ServeNothing` are the branches of `serveRequest`; `NotModified`
is `handlePreconditions`. A hash is modelled by the bytes it was computed from. The
client is a cache that follows RFC 9111 as far as the server depends on it.
What a site is like, who develops it and what its clients send is a `setting`, chosen
from `Settings` at the start: `upToDate` is the discipline of the developer (nothing
is edited between manifest and snapshot), `mtimesGoBack` admits files with older
times, as after `cp -p` or the checkout of an earlier release (deploying such a build
is also what a rollback is), `conditions` are the validators in requests.

**AssetPaths** is the walk of `getFilesRecursively` (a state machine that takes one
directory at a time), the normalization of configured paths, the choice of a
content type and the lookup of `getMatchingAsset`. A path is a sequence of tokens:
slashes, dots, names, and the pieces a name is put together from where code appends to
it (`docs.html` is `docs` and `.html`, as `autoExt` spells it). `Tokens` spells a name,
no two alike; the entries of `autoExt` and `autoIndex` are single tokens.
`Pathname` is what `serveRequest` takes out of a request's URL: the parser of URLs has
percent-encoded some tokens (`Encoding`: one with a space, say), nothing decodes them, and
`Served` looks that path up.
`Wanted` says file by file what the walk, which prunes directories, should find.

**Build** runs invocations of fastedge-build; `pc[p]` is the step a process is about
to take, `Stop` is failure (exit code 1) or a kill, at any step, leaving what was
written or half of it. With `Overlap = FALSE` builds that share an output or a
manifest do not run at the same time; others may.

**JsHeap** is the memory that the stored bodies and the application share: `heap[b]`
is what buffer b holds, `handed` the buffers the application can write into
(`Scribble`). **BytesEntry** is `KvStoreEntry` and `CacheEntry`, two classes with the
same code: `Create` copies bytes into a slot, `ArrayBuffer` hands out a copy of it.
**KvStore** has one action per call of `fastedge::kv` that makes buffers; other
instances write to the stores at any time and this builtin never does, so the host
answers what it likes, zscan in any order. **CacheBytes** adds the entries of the cache: `filling[k]` is
the buffer populate's promise was fulfilled with, read by `PopulateThen` when the
reaction runs. **EmbeddedStoreEntry** is the body of an asset in a request:
`ArrayBufferStarts`, `ArrayBufferCopies`, `ArrayBufferReturns` are the pieces of
`arrayBuffer()` between its awaits, `GetReader`, `ReaderRead`, `ReaderCancel`,
`ReleaseLock` the wrapped reader, `Cancel` and `Engine...` what goes past the
wrappers. The stream has one lock and one chunk, and buffer a *is* asset a, as
`createReadableStreamForBytes` enqueues the asset's array without copying it.
**StoreEntries** composes the three over one heap; the auxiliary fields `of`, `lent`
and `bypassed` record what an entry was made from, which arrays were given away
as chunks, and which streams were consumed unseen.

**HostCalls** is a call of the host from within an instance, in the steps `Ask` (an
adapter passes on its arguments), `Answer` (the host stores its answer in the area),
`Give` (the adapter loads it, a wrapper of `fastedge_host_api.cpp` hands it to the
builtin), `Release` (the builtin is done and gives back what it owns); `FreeStruct` is
a call of a helper. It rests on data that is read off `bindings.c`:

| Module | What it says |
|---|---|
| `WitAbi` | types, values and the canonical ABI. A value is a function from the paths in it to what is there; a type is its values and two layouts, in memory and as arguments; a layout says at which offset each part stands. `Cells` is what the host writes for an answer, `Arguments` what it expects. External, and the reference the code is compared with |
| `BindingsC` | what an adapter's code is made of (arguments by path and case; loads by offset, size and case) and does (`Lifted`: the tags that are found select the loads control comes to), and a helper's (`Freed`: the blocks it gives back, in order; `Left`: those it has no call for) |
| `BindingsTypes` | the types of `bindings.h` |
| `GcoreCalls`, `WasiCalls` | each adapter: its parameters, what it passes on, the size and alignment of its area, its loads |
| `BindingsFree` | each `_free` helper: which cases, fields and elements it descends to, in which order |

An offset is a number in `GcoreCalls` as it is in the C code, and computed from the
type in `WitAbi`; so is the place of an argument. That the two agree, for every case
of every answer, is what the run checks for short lists and the proofs show for all. A
scalar is abstracted to where in its value it stands, so no two are alike and a swapped
pair shows. The tables of adapters and helpers are the constants `Calls` and `Helpers`,
of which `HostCallsAssumption` says that they are the ones of these modules and no
others: TLC computes a constant once, and keeps what its coverage unfolds in bounds.

**StoreHandles** is the native memory behind `KvStore` objects: `Open` and the ways in
which it fails half way, `Drop` by the application, `Collect` by the garbage collector.
**SecretSlots** is the way of `effectiveAt` through an int32 of any width to the host.
**RequestInfo** has the getters of `event.client` and `event.server`, which hide
themselves behind a property when they succeed; the headers may change, and the
objects be frozen, between any two reads. **MCInstance** runs these four: they share
no variable, so `part` picks the one that moves in a behaviour, and the states of the
four add up instead of multiplying.

**MC modules** give the constants values; the modules whose names end in **Proofs**
hold the theorems (section 5).

## 3 Runs

| Run | Question | Bounds, and why they are enough |
|---|---|---|
| `cache_safety` | Is the in-flight map exact, with nested calls, dying instances and failing allocations, on every entry on which none of the map's own operations has failed? Is a promise settled once, is one computation under way per key, and nesting on distinct keys? | 3 calls, 2 instances, 2 keys, 1 value, 2 instants. Three calls make a computation, one nested in it or joining it or overwriting its damaged entry, and a third that meets what these have left; two instances and keys tell a wrong map or key apart; a TTL of 1 expires within the bound, one of -1 is refused. |
| `cache_refinement` | Does the builtin implement the contract, cache only what a caller was told, drop no waiter, and settle every promise? | 3 calls of set and getOrSet, 2 instances, 2 keys, 2 values, no failed allocations, populators that may await: a cycle of two populators, and self-waiting, are within the bound. Time stands still; entries vanish by eviction. |
| `rate_limit` | Are counts distinct, admissions bounded, and open-ended windows explained, client by client? | 5 requests, one of them of a second client, limit 2, windows of 2 ticks, 4 instants: two windows fit, a late expire of one may hit the other, and a counter of one client may be evicted while the other goes on. |
| `site` | Is a tag always that of the bytes, a 304 right, and a stored copy kept with its tag? | Two settings. `Tags`: clients send no validator, or the tag with the date if they have one; 2 files (one with two versions), 2 URLs (one that nothing answers), both fallbacks, 2 mtimes that may go back. `Dates`: clients send what they like, a date alone too; edits at least one second (2 ticks) apart, growing mtimes, no fallback, 3 edits. With a gap of one tick `ShownIsCurrent` fails: the bound is tight. |
| `build` | Can a reported build be incomplete or made of another's files? Who leaves what is unfinished, or in the temporary directory? | 2 processes, 6 configs, 10 command lines; two sites share a manifest, one shares its output with a direct build, the http build shares nothing and runs beside the others. |
| `paths` | Does the walk find what it should, and which files does a request for their path find? | 270 trees of up to 7 files: with what may be ignored, with names that repeat and pages that stand in each other's way (`static.html` beside `static/index.html`), and with names that a URL percent-encodes, beside ones named like the encoding (`a b`, `a%20b`); 24 build settings (4 ways of writing an ignored path), 32 servers, some with a prefix that a URL encodes. |
| `store_entries` | Can an application that writes into its buffers change what an entry, or an asset, is read as? Is an asset ever read in part? | 4 buffers: 1 asset, and 3 made in a behaviour (a value, an entry's slot and a copy of it); 2 contents, a sorted set of both, 2 entries of the asset, so that a chunk of one may be written while the other is being read; 1 populate under way. |
| `instance` | Do arguments and answers cross the boundary unharmed, and is memory given back once? Are natives kept, secrets never too late, reads alike? | All 144 calls and 68 helpers with every case of every type; lists of up to 2 elements, so that an element's stride and what follows a list show; empty lists, whose pointer is no block. 4 calls of open on 3 addresses: one is handed out again after it was deleted twice. An int32 of 5 bits with numbers from below its range to past twice its size, and slots on both sides of each edge. 4 headers, one falling back on another, with 3 values (empty, text, a number). |
| `cache_expires_at` | violated: `AbsoluteExpiry` | 2 calls, 1 key: the value of an async set lands after its time. |
| `cache_alloc_failure` | violated: `PendingHasReaction` with `AllocMayFail` | 2 calls, 1 key. |
| `site_stale_hash` | violated: `EtagNamesBytes` in a setting that is not `upToDate` | 1 edit between manifest and snapshot. |
| `paths_types` | violated: `CustomTypesFirst` | 1 custom rule. |

The four violations are disagreements between the code and its documentation or
comments; `PROJECT.json` quotes them under "findings".

Deadlock is checked in `store_entries`, whose application can always go on, and not
elsewhere: the other models bound the calls, requests, edits or processes
of a behaviour and come to rest when they are used up (in `instance`, the stores do
when each call of open is made and collected). Symmetry is used where
calls, instances, requests or contents are interchangeable, never in a run that
checks liveness. Every property has a mutant: a plausible bug in one definition
with which TLC finds that property violated under the same configuration. The
mutated forms stand before the definitions they replace.

## 4 Fairness

`Cache!Fairness`: the user's `populate` returns or throws, the user's promises
settle once what they await has settled, and the event loop runs pending reactions.
The first two are what the contract asks of the user, the third is what the
event loop of the runtime does as long as the instance lives; that it may end is
an action without fairness. Callers owe nothing, and neither do time and eviction.
Fairness is weak: nothing another caller does disables a pending reaction but the
stack of `populate` calls, which empties and stays empty when calls run out. The
property excepts cycles of populators that wait for one another
(`WaitsForever`), which the code does not detect.

No other specification has fairness. That a build ends, for instance, is not claimed:
it rests on Wizer, which is run without a timeout.

## 5 Proofs

Each theorem holds for every value of the constants that the named assumptions admit.
These say what kinds of things the constants are (`WitAbiAssumption`, `HostCallsAssumption`, `HostCacheAssumption`,
`AbsentAssumption`, `CacheAssumption`, `RateLimitAssumption`, `StaticSiteAssumption`,
`BuildAssumption`, `HeapAssumption`, `KvAssumption`, `EntryAssumption`,
`StoresAssumption`, `SecretSlotsAssumption`, `AssetPathsAssumption`); TLC evaluates them in every run. Where a
theorem needs more it says so.

| Module | Theorem | States |
|---|---|---|
| `CacheProofs` | `IInvHolds` | `Spec => []IInv`, the inductive invariant |
| | `TypeCorrect`, `InflightMapIsExact`, `Coalescing`, `NestingIsBounded` | `[]` of `TypeOK`, `InflightExact`, `OneFlightPerKey`, `NestingOnDistinctKeys`, whatever allocation fails; the last three except the entries in `damaged` |
| | `MemoryKeepsTheMapExact` | the in-flight map is exact on every entry, if no allocation fails |
| | `OutcomesAreFinal` | `SettledOnce`, an action property |
| | `NoWaiterIsDropped`, `OnlyFulfilledIsStored`, `WritesAreSettled` | `[]PendingHasReaction`, `[]StoredByFulfilled`, `WriteSettlesItsPromise`, if no allocation fails |
| | `BuiltinImplementsContract` | `Cache` implements `SingleFlight`, if no allocation fails and `Absent` is not an outcome a caller is told |
| `RateLimitProofs` | `RateLimitInvariant`, `NumbersAreTyped`, `CountsAreDistinct`, `AdmissionsAreBounded`, `OpenEndedWindowsAreExplained` | the invariant, and `[]` of `TypeOK`, `DistinctCounts`, `AdmittedPerWindow`, `OpenEndedHasCulprit` |
| `StaticSiteProofs` | `StaticSiteInvariant`, `SitesAreTyped` | the invariant, `[]TypeOK` |
| | `TagsNameTheirBytes` | `[]EtagNamesBytes`, if every setting is `upToDate` |
| | `CopiesKeepTheirTags`, `ClientsShowWhatIsServed` | `[]CopyKeepsItsTag`, `[]ShownIsCurrent`, if in every setting moreover no request carries a date alone, or dates tell the versions of a file apart (`Validates`) |
| `BuildProofs` | `BuildInvariant`, `BuildsAreTyped`, `UnfinishedOutputsAreExplained`, `TemporaryFilesGo` | the invariant, `[]` of `TypeOK`, `UnfinishedHasCulprit`, `TmpHasCulprit` |
| | `SuccessIsTrue` | `ReportedIsFinished`, an action property, if builds that share a file do not overlap |
| `StoreEntriesProofs` | `StoreEntriesInvariant`, `StoredBodiesAreTyped`, `EntriesAreSnapshots`, `BodiesAreWhole`, `AssetsAreKept` | the invariant, and `[]` of `TypeOK`, `EntryIsSnapshot`, `BodyIsWhole`, `AssetKept` |
| `AssetPathsProofs` | `WalkInvariant`, `WalkIsTyped` | the invariant, `[]TypeOK` |
| | `WalkFindsTheClean` | a finished walk lists the files below no directory that it passes over, and no other |
| | `WalkListsTheWanted` | `[]ListsWhatIsWanted`, if `publicDir`'s own names do not occur again below it (`NotNested`) |
| | `AssetsAreServedAsSpelled`, `DirectoriesAreServed` | `[]ServedIffSpelledAlike`, `[]FriendlyUrls` |
| `InstanceProofs`, | `CallsInvariant`, `CallsAreTyped` | the invariant, and `[]CallsTypeOK`: no answer leaves its area |
| on `BindingsProofs` | `ArgumentsDoArrive`, `WhatIsGivenIsAnswered`, `BlocksAreFreedOnce`, `TextsAreGivenBack` | `[]` of `ArgumentsArrive`, `GivenIsAnswered`, `FreedOnce`, `TextsGivenBack`, for lists of any length |
| `InstanceProofs` | `StoresInvariant`, `StoresAreTyped`, `HeldStoresAreUsable`, `NativesAreDeletedOnce` | the invariant, and `[]` of `StoresTypeOK`, `HeldStoreUsable`, `DeletedOnce` |
| | `SecretsAreTyped`, `SlotsAreAsAsked` | `[]SecretTypeOK`, and `SlotAsAsked`, an action property, for an int32 of any width |
| | `InformationIsTyped`, `ReadsOfTheRequestAgree` | `[]InfoTypeOK`, and `ReadsAgree`, an action property |
| | `PartsOfInstance`, `InstanceIsTyped`, `InstanceIsCorrect` | the instance moves one part at a time, so what is proved of each holds of it: `[]TypeOK`, and the properties of the run `instance` together |

*The cache.* `InflightExact` is not inductive: a reaction removes the map entry of
*its* key, and only if no other promise is registered there is the rest of the map
still exact; `PopulateThrows` and `GetOrSetAborts` act on the top of the stack, and
nothing in the property says that what is there is a computation of that instance.
`IInv` therefore adds

- `FreshIdle`: a call that was not made has neither promise nor job;
- `JobsPending`: a call with a job has a pending promise of its own;
- `StackOfPopulators`: the stack of an instance holds, once each, exactly the
  computations of that instance whose populate has not returned.
- `DamageNeedsFailure`: no entry is damaged if no allocation fails.

Each group of actions has a lemma that says which conjuncts it can disturb and how
it restores them: plain calls touch no flight; starting one adds its key to the
map, its job and the top of the stack together; a reaction removes entry and job
together; leaving `populate` pops the stack and either moves the job on or ends the
flight. An operation of the map that fails damages the one entry it was about, which
the invariant then says nothing more of, until the instance ends. `OneFlightPerKey` is then
a consequence (two flights for one key of one instance would both be *the* value of the
map there), and so is nesting on distinct keys, since what is on the stack is flying;
`MemoryKeepsTheMapExact` follows with `DamageNeedsFailure`. `OutcomesAreFinal` needs `JobsPending`: only
a call with a job, or a fresh one, has its promise changed. The last three theorems
carry a second invariant along, under the assumption that no allocation fails; with
failures the first of them is false, as `cache_alloc_failure` shows, and
`StoredByFulfilled` too, because a value is stored before the entry for the waiters
is allocated.

*The refinement.* The step simulation says which step of `SingleFlight` each action of
`Cache` is, or that nobody can see it. What is waiting, and what a call is told, are
read off the promises callers hold, so the proof needs to know who holds which:
`Holders` adds to `IInv` that the maker of a promise holds it, that another call holds
it only if it is that of a populator, and that whoever has a job still holds its own.
With that, settling a promise changes the outcome of exactly the waiters of its key
(`LandIsSeen`), and of nobody else for `set` (`SetIsSeen`). An outcome that reads as
`Absent` could not be told from no entry, hence the second assumption.

*The rate limiter.* Which numbers are still to be given out depends on the counter in
the store, so the invariant ties the two together: the counter is the number of the
request that wrote it last and the highest of its window, windows of two clients are
apart, and no number exceeds the requests counted. Admissions are then bounded because
admitted requests of a window have distinct numbers in `1 .. RATE_LIMIT_MAX`.

*The static site.* Whether a tag names its bytes is settled long before an asset is
served. The invariant follows the hash from the manifest through the draft of the
snapshot (partly hashes, partly assets) into the binary; the copies of the clients
follow, if every 304 is given by a tag. Where a date may decide, `InOrder` relates the
times of a file's versions on their whole way: a copy is no newer than what is deployed,
that no newer than the last binary, that no newer than the file, and of two with the
same second the bytes are the same. Each pair has to be related, not only neighbours: a
file may be removed, and an asset missing from a deployment, before a newer one comes.
An edit keeps this because nothing anywhere is of a later second than the last edit, and
the next one is (`DatesTell`: mtimes grow, a second or more apart; and one asset answers
for a URL, for a copy is compared with the asset that answers now). The two settings of
the run `site` both satisfy `Validates`, so the theorems say of any site what the run
says of a small one.

*The builds.* `Common` holds for builds that overlap: where a process is tells what it
has in hand, and what is unfinished has a process behind it, which runs or has not
ended with 0. `Exclusive` adds, for builds kept apart, that what a process has in hand
comes from the config it is building; each step hands that on to the next, and no
other process touches the files.

*Stored bodies.* A part of the invariant is about the heap: slots of entries are never
handed out, the array of an asset is handed out only if it was lent, so no write of
the application reaches either. The other is about bodies: whatever `arrayBuffer()`
has, or returned, is the asset or there is a reason on record (`Accounted`), and until
it is called the chunk is in the stream or its absence is known or excused.

*Calls of the host.* The state machine is the small part: `CallsInv` says what each phase
leaves of the ones before it. The rest is about data, in four steps.

1. *What is read is what was written.* A layout *suits* a value (`Suits`) if the parts the
   value has do not overlap, and whether it has a part is told by the tags above it. For
   such a value, loads that are the rows of the layout find the answer again, part by
   part (`LiftedIsShown`): a load comes upon the one cell at its offset, and a path of
   control is taken exactly if the value has it.
2. *Every type suits its values* (`Stands`). For scalars and lists this is plain; records
   and variants are made of parts moved to their offsets and put below their numbers,
   and `PartsSuit` says that such a composite suits if its parts do and are apart. That
   the fields of a record are apart, each aligned, is an induction along `Ends`.
3. *Every adapter's loads are the layout of its answer, and every adapter's arguments that
   of its parameters* (`EveryCallServes`). One lemma for each shape that occurs says that
   its loads, with the numbers in the code, read a type at an offset (`At`), or that its
   arguments agree with its parameters (`Agree`); each of the 144 adapters then is a case
   of one for its answer and one for its arguments.
4. *Every helper gives back what its value owns* (`EveryHelperHelps`): the blocks of a
   record, a variant or a list are those of its parts below their numbers, in the order
   of the calls, inner ones first; the elements of a list come before its own block.

`TextsAreGivenBack` needs the shape of three answers only: where in them the text is, and
that it is the one block of the case that has it. Lists may have any length up to
`MaxLen`, which is any number; text and bytes are lists of scalars.

*The natives of stores.* `HeldStoreUsable` is about objects in the application's hands,
but the collector acts on dropped ones: the invariant covers every object that a
finalizer has yet to come to, and uses that the set of twice-deleted addresses only
grows. *Secrets* need little more than lemmas on the modulo of a number. *The request.*
A getter that has succeeded is hidden by the property it left, and the objects the
getters build are typed because a fallback header is looked up among those that are
there.

*The walk.* `WalkInv` says of each moment of the walk: what was found are files and what
is to be read are directories below which there are files; no step on the way to either
is passed over (`FilesAreClean`, `WalkIsClean`); and a file without such a step is found
or below a directory still to be read (`CleanIsAhead`). At the end nothing is to be read,
so the files listed are exactly the clean ones. That a file is clean exactly if it is in
`Wanted` needs more: the walk compares paths as they are written, so two paths with one
spelling would be one to it. `Slashed` is injective, as its last slash separates the
last name from the rest; a path written from the root can still name two, hence
`NotNested`. Facts about sequences of any length are proved from the least index at
which they would fail.

*The lookup.* An asset whose path a URL spells as the file system does is served there,
because what `getMatchingAsset` does to that path, replacing the prefix at its start,
yields the key of the asset, the first candidate of all. If the path has a token that is
encoded, it yields a key of the same length that differs in that token; or, if the token
is one of the route prefix, the prefix is not found and the key is longer than the
asset's. Every other candidate is longer still, so that none is the asset
(`EncodedLeadsElsewhere`, `NotFoundIfOther`). `FriendlyUrls` holds because the first
candidate that is an asset is the one that was put first.

Only model-checked: liveness (`EveryPromiseSettles`), which is beyond the prover used. Every other property of a run that passes is a theorem; the four runs
that fail have their counterexamples.

## 6 Known divergences without a run

Disagreements met while modelling that need no interleaving to be seen:

- The in-flight map is exact only as long as its own operations do not run out of memory.
  When `inflight_delete` fails (`cache.cpp:813`, or the delete at 815, whose result is
  ignored), the entry outlives its settled promise, and callers that miss the store
  get that old outcome, as a rule until the instance ends.
  When `inflight_get` fails (`cache.cpp:788` to 795), the entry counts as missing: a second
  computation of the key starts, also from within the first one's `populate`, and
  overwrites the entry, which whichever ends first removes. `docs/SDK_API.md:309` and the
  types know of no exception; `InflightExact`, `OneFlightPerKey` and
  `NestingOnDistinctKeys` except exactly these entries.
- Coalescing is per instance; `docs/SDK_API.md:309` promises it "within a single
  POP", while line 475 of the same file says other instances race.
- The rate limiter's comment (`examples/cache/src/index.ts:26`) says the counter
  resets 60 seconds after the first request. If that request is cut short between
  incr and expire it never does; `OpenEndedHasCulprit` shows it is the only way.
- `serveAsset` answers the not-found page with 304 to a matching conditional
  request; `docs/STATIC_SITES.md:178` says 404.
- With If-Modified-Since, a fallback page may be answered 304 by the date of another
  file that used to answer for the same URL; hence the setting `Dates` has no fallback.
- `requestAcceptsTextHtml` does not trim after splitting `Accept` at commas.
- A config whose `type` is neither `http` nor `static` is logged and skipped, and
  the process exits with 0; `docs/BUILD_CLI.md:193` says the build exits with an
  error.
- `publicDirPrefix` is joined without a slash when `routePrefix` is left out, since
  normalization turns the missing prefix into `/`, which is then removed from the
  path. `ServedIffSpelledAlike` is therefore stated for servers that have a route prefix.
- A request's path is looked up percent-encoded, as `new URL(request.url).pathname` has it
  (`static-server.ts:299` to 302), while keys and prefixes are spelled as in the file
  system. So an asset or directory whose name has a space, a letter beyond ASCII, `?` or
  `#` is never served at its path, nor is anything behind a route prefix with such a
  character; a file literally named like the encoding (`a%20b`) answers instead.
  `readFileString` looks the given path up as it is and does find the asset.
- `autoIndex` is tried for paths without a slash at the end too
  (`static-server.ts:158` to 174); `docs/STATIC_SITES.md:163` says that it applies when the
  path ends with `/`. `FriendlyUrls` states what the code does, for both.
- A slash at the end of an `extendedCache` entry is removed by normalization, so no
  configured entry matches as a prefix.
- An ignored path written from the project directory (`./public/drafts`, as in
  `docs/STATIC_SITES.md:76`) ignores nothing. `ListsWhatIsWanted` is checked for
  paths written from the public directory or from the root.
- An ignored path written from the root also ignores the path of that spelling below
  `publicDir`, should the directory's own names recur there (`home/public/drafts` in
  `/home/public`): the walk compares one string for both. `NotNested` excludes it.
- A directory is not served by its index at the URL of its name if a page has that name
  (`docs.html` beside `docs/index.html`), or if it is what `publicDirPrefix` names and a
  page is named like it; `FriendlyUrls` says what is served then.
- Two builds of sites that share a manifest or an output, run at the same time, may
  report a component made of the other's files; nothing keeps them apart.
- The stream of an `EmbeddedStoreEntry` learns that it is disturbed only from readers
  made by its wrapped `getReader()`. After `body().cancel()`, `pipeTo` or an async
  iteration, `arrayBuffer()` resolves with an empty buffer where a `Body` rejects;
  `bodyUsed()` is false after a read through `body()`. `BodyIsWhole` excuses exactly
  the streams consumed past the wrappers.
- A chunk read from the stream of an asset is the asset's own array: what is written
  into it is served to later requests of the instance (`AssetKept` excuses assets
  whose array was lent). The copy that `arrayBuffer()` makes, which its comment calls
  intentional "for isolation", does not have this effect.
- `KvStore.get` returns a `Uint8Array`; `types/fastedge-kv.d.ts` declares an
  `ArrayBuffer`.
- When Wizer fails, `process.exit(1)` in the catch block skips the cleanup in the
  finally block, and the temporary directory stays. `TmpHasCulprit` says that only builds
  that fail or are killed leave one.

- The `_free` helpers of seven types pass over a part that holds memory
  (`bindings.c:1097`, `1211`, `1221`, `1457`, `1466`, `1475`, `1485`); `BindingsFree` has
  it as `Leave`, and `FreedOnce` says that nothing else is left. Whether their callers, most of them in StarlingMonkey, give the part back is
  not to be seen here.
- The host returns an empty text as a bare alignment, which is no block;
  `to_host_string` (`fastedge_host_api.cpp:12`) makes getEnv and getSecret own it and
  hand it to the deallocator. `TextsGivenBack` excuses the empty text.
- What the host allocated for the answers of `fastedge::kv` and `fastedge::cache`, and
  for the errors of secrets, is copied and never given back: it stays until the
  instance ends.
- `effectiveAt` from 2^31 on (2038-01-19 as a time) wraps to a negative number and then
  becomes 0, or wraps to a small one: the application gets an older secret than
  `docs/SDK_API.md:78` says. `SlotAsAsked` shows that it is never a later one.
- When defining the methods of a `KvStore` fails, open deletes the native, and the
  object's finalizer deletes it again (`kv-store.cpp:118`), by then maybe that of
  another store. `HeldStoreUsable` and `DeletedOnce` excuse exactly the addresses to
  which this has happened.

## 7 Not modelled

- `fastedge::kv`: scan and bfExists in `KvStore`, which only return what the host says
  (their way through the bindings is in `HostCalls`); failed allocations other than
  those of open, which are in `StoreHandles`; the decoding of text and JSON.
- `readFileSync`, which reads a file into a new array; the truncation of TTLs below a
  millisecond, since what the host does with a TTL of 0 is not in the repository.
- Of the WIT bindings: adapters that answer in a register or not at all, whose
  arguments the compiler lays out; the exports, which the runtime implements; resource
  drops, which pass on a handle; `bindings_string_set` and `_dup`. What StarlingMonkey
  does with the answers of WASI.
- Regular expressions in `extendedCache`, content negotiation, methods other than GET
  and HEAD: functions of one request.
- fastedge-init, the merging of options in fastedge-assets, the console override: I/O.
- esbuild plugins, precompile, the syntax checker: functions of source text; `Build`
  abstracts them to which manifest a bundle takes in.
- StarlingMonkey is a submodule that is not in the repository: event loop and promises
  are modelled as far as `Cache` needs them.

## 8 Plan

Done, in this order: `HostCache` and `Cache` with their proofs, `SingleFlight` and the
refinement, `RateLimit`, `StaticSite`, `Build`, `AssetPaths`, `StoreEntries` with its
components; then the boundary to the host (`WitAbi` to `HostCalls`), `StoreHandles`,
`SecretSlots`, `RequestInfo`; then the proofs of the refinement, of `RateLimit`,
`StaticSite`, `Build`, `StoreEntries`, `StoreHandles` and `SecretSlots`; then those of
`AssetPaths`, of `RequestInfo` and of the dates in `StaticSite`; then those of `HostCalls`,
for which types became layouts and values functions of paths.

Next, extending the model:

1. `StaticSite` with the bodies of `EmbeddedStoreEntry`, so that a write into a chunk
   is followed up to what clients store.
2. The adapters that answer in a register, and `bindings_string_dup`.
3. Regular expressions in `extendedCache`, with the `lastIndex` they keep.

Next, proving more:

1. `Cache` with failed allocations: which of `StoredByFulfilled` and the refinement is
   left in the instances in which none has failed, and what can still be said of a
   damaged entry.
