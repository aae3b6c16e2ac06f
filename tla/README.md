# FamilyTube: a verification project

FamilyTube is a household video front end: a Node server (Hono) that runs
`yt-dlp` as a child process to find and extract videos and proxies their media
bytes, a browser application (vanilla JS, IndexedDB, service worker) that plays
them and keeps offline copies, and a small Android wrapper. The TLA+ modules in
this directory model its stateful parts, TLC checks them on small instances and
TLAPS proves the invariants that matter most for every instance.

Paths below are relative to the repository root (`src/...`, `scripts/...`).

## 1. Inventory

| Component | Code | State | Operations | What makes it correct |
|---|---|---|---|---|
| Session store | `src/services/sessionStore.ts` | epoch, sid->exp map, initialized/healthy, one writer chain, JSON document on disk | `initialize`, `add`, `remove`, `has`, `getEpoch` | an answered login or logout survives crashes; memory and document agree; the cap never evicts; a corrupt document is never replaced |
| Session tokens and routes | `src/middleware/session.ts`, `src/routes/sessionRoutes.ts` | cookies in the clients | POST / DELETE / GET `/api/session`, `verifySessionToken` | what verifies is on disk; a logged-out cookie stays dead |
| Concurrency gate | `src/services/ytdlp/queue.ts` | active counter, queue, key->flight map, flights with waiters and timers, closed flag | `run`, abort of a caller, queue timeout, settlement, `abortQueued`, `configure` | never more than the limit; no idle slot; one answer per caller; one joinable flight per key |
| yt-dlp runner | `src/services/ytdlp/runYtDlp.ts` | child registry, kill and escalation timers, spawn fence, version probe | spawn, abort, timeout, overflow, close, `terminateAllChildren`, `probeDetectedVersion` | bounded live children; every child is terminated; nothing starts after the fence |
| Shutdown | `src/index.ts`, `src/services/shutdownState.ts` | shutting-down flags, force timer | SIGTERM/SIGINT, drain, forced exit | the process ends; a clean exit leaves no child |
| Extractor | `src/services/youtube/extractor.ts`, `src/services/ytdlp/errors.ts` | none (retries, single flight through the gate) | extract, select format, retry | bounded attempts, an abort is never retried |
| Stream proxy and cache | `src/services/youtube/streamProxy.ts`, `src/middleware/streamCache.ts`, `src/utils/range.ts` | LRU of signed URLs with expiry | proxy a range, refresh once on 403 | no expired URL is used; status and range headers match the bytes |
| Data caches | `src/services/cache/staleCache.ts`, `memoryCache.ts`, `trendingService.ts`, `searchService.ts` | bounded maps with times | load with stale fallback | never older than the stale window; a refresh never goes back in time |
| Rate limiter | `src/middleware/rateLimit.ts` | fixed-window buckets | `allow`, `sweep` | at most `max` per window; Retry-After is honest |
| Request and response bounds | `src/middleware/boundedBody.ts`, `streamByteCounter.ts`, `src/services/egress.ts` | byte counters | bounded read, counting | counters and slots released exactly once |
| Health and diagnostics | `src/routes/healthRoutes.ts`, `src/services/diagnostics.ts` | readiness cache, ring of events | `/healthz`, `/ready` | never ready when the store is broken or shutting down |
| Offline downloads | `src/frontend/js/services/offlineService.js` | IndexedDB records and chunks, ownership with heartbeat, operations map | start, cancel, delete, resume, repair, `offlinePlayUrl` | one writer per video over all tabs; a ready video is complete and of one representation |
| API client | `src/frontend/js/api.js` | auth gate, shared promise, waiters | `apiFetch`, login gate, retries | one gate at a time; every waiter resumes; bounded retries |
| Service worker | `src/frontend/sw.js`, `sw-policy.js` | cache generations | install, activate, fetch | a failed install never damages the running generation |
| Player and feed pages | `videoPlayer.js`, `homeFeed.js`, library pages | attempt generations, loading flags | load, retry, cancel, navigate | results of an abandoned attempt are never applied |
| Bootstrap scripts | `scripts/*.mjs` | runtime directory, receipt | download, verify, install | a partial download is never used |
| Android wrapper | `android/` | WebView, download bridge | navigation policy, file saving | thin platform glue |

The parts meet in few places. Routes call the token functions, which call the
store (shared memory, awaited promises). Every extraction goes route ->
extractor -> runner -> gate -> child process, with an abort signal travelling
the same way and settlement travelling back. The stream proxy reads the stream
cache and calls the extractor. Browser tabs share IndexedDB and one service
worker, and reach the server by HTTP only.

Hard behaviours: crashes and power loss between the steps of a persisted write;
state published before it is durable; several callers sharing one flight with
independent cancellation; children that outlive the promise that waited for
them; timers racing answers; several tabs writing one video; results applied
after the user has moved on. `PROJECT.json` lists each of them under `hazards`
at the line where it bites.

## 2. Plan

Order of work, most important behaviour first. All its modules are written.

1. `SessionStore`, `SessionAuth`: persistence across crashes, and what a client
   may conclude from an answer.
2. `BoundedPool`, `ConcurrencyGate`: the resource every request depends on.
   `ConcurrencyGate` refines `BoundedPool`.
3. `YtDlpRunner` EXTENDS `ConcurrencyGate`: the tasks the gate starts, the
   children they own, and shutdown. Composed because the bound on children is a
   property of both together.
4. `ChunkDownload`: one download against a changing source. `OfflinePlayback`
   EXTENDS it: what is played while copies come and go.
5. `OfflineOwnership`: several tabs, starts, cancels, claims, reloads.
6. `StreamProxy`: requests over cache, extraction flight, refresh and ranges.
   It EXTENDS `FormatSelection`, the pure choice of a format, and contains the
   byte ranges as operators.
7. `ApiClient`: `apiFetch` (attempts, deadlines, retry after login), the gate
   and its waiters.
8. `FeedCache`: `loadWithStale` with the loads over it. `RateLimit`: the way of
   a request through session gate and limiters. `RuntimeInstall`: installers
   that race and die.
9. `HomeFeed`, `VideoPlayer`, `ServiceWorker`: the page, its late answers, and
   the releases under it.

Abstract specifications: `BoundedPool` for the gate (`ImplementsPool`, checked and
proved); `SessionStore` for the routes, and `ChunkDownload` for the page that also
plays and removes, each the abstract side of a proved refinement (section 6).
Open: one of a stream request (asked, answered) that `StreamProxy` implements.

Proofs done, in this order: `SessionStore`, `ApiClient`, `RateLimit`,
`RuntimeInstall`, the gate and its refinement, the runner on top of it, the page
(`ServiceWorker`, `VideoPlayer`, `HomeFeed`), `SessionAuth` on top of the store,
`ChunkDownload` and `OfflinePlayback`, `FormatSelection` and `StreamProxy`,
`FeedCache`, `OfflineOwnership`. Every safety property the passing runs check is a
theorem. No module has RECURSIVE operators; recursion is a recursive function, in
`FormatSelection`.

Runs: one per question. A property that has become a theorem and that another
property of the run depends on (`TypeCorrect` and the like) is not checked by a
run any more.

## 3. Modules and code

| Module | Code | State | Actions |
|---|---|---|---|
| `SessionStore` | `sessionStore.ts` | `sessions`, `epoch`, `initialized`, `healthy` as in the class; `queue`/`call` the writer chain; `pc`, `file`, `durable`, `synced` the document during `persistSnapshot`; `told`, `granted`, `leaving`, `revoked`: what callers were told | `CallAdd`, `CallRemove`, `CallInit`, one action per await of the operation at the head of the chain, `Crash`, `PowerLoss`, `LoseStorage`, the clock |
| `SessionStoreProps` | - | - | none: the properties and the inductive invariant |
| `SessionAuth` | `session.ts`, `sessionRoutes.ts` | cookies handed out, cookies answered 200 on DELETE | POST, DELETE, `verifySessionToken` |
| `BoundedPool` | - | the sequence of those who wait, those who run, whether it is open | admit the first who waits, leave, done, close, resize |
| `ConcurrencyGate` | `queue.ts` | `active`, `queue`, `flights`, and per flight `state`, `key`, `waiters`, `timer`, `aborted` | `run` by its outcome (rejected, joins, starts, queues), cancel of one or the last waiter, queue timeout, settlement with its pump, `abortQueued`, `configure` |
| `YtDlpRunner` | `runYtDlp.ts`, `index.ts` | `children` (the registry), `owner`, `signal`, `dead` (exited, pipes not yet closed), `escalation`, `killTimer`, `fence`, shutdown | task spawns or is refused, abort, timeout, overflow, escalation, exit, close, probe, shutdown, deadlines, both exits |
| `ChunkDownload` | `offlineService.js` 540-620, 1000-1600 | the IndexedDB record and chunks, the operation's locals | one per transaction or response of `runDownload`, each of which may fail, and the wait at the login gate |
| `OfflineOwnership` | `offlineService.js` 260-400, 1200-1662 | the claim, the record, indices of chunks, per tab the operation, waiting calls, pending transactions | start, cancel, remove, one per transaction and one for its failure, the login gate, heartbeat, reload, freeze, thaw, expiry |
| `ApiClient` | `api.js` | `authMode`, `probe` (the session check in flight), `authenticating`, `gateWaiters`, `gate` as in the module; per caller the locals of `apiFetch` (`attempt`, `timedOut`), `wire`, `wait`, `signal` | calls, replies, losses, the deadline of an attempt and that of the retry after a login, back-off, bodies that end, stall or are cut off, probe, login, abort |
| `StreamProxy` | `streamProxy.ts`, `streamCache.ts`, `range.ts`, `extractor.ts`, `videoRoutes.ts` | the cache, the extraction flight, requests | request, settlement of a flight (a gate that is full among its failures), the one retry, upstream answers by status, refresh, abort, expiry |
| `FormatSelection` | `extractor.ts` 280-450 | none | `SelectBestStream` and `AvailableCombinedQualities`, beside the contract `Chosen` they are compared with |
| `OfflinePlayback` | `offlineService.js` 425-510, 1110-1200 | `urlCache`, the row of the first release, play calls, the removal under way | the two reads of a play call, the legacy read, a failure, the two transactions of a removal, reload; all of `ChunkDownload` |
| `FeedCache` | `staleCache.ts`, `trendingService.ts`, `searchService.ts`, `feedRoutes.ts`, `searchRoutes.ts` | `entries` and `order` (the Map), `fetches` (yt-dlp runs), `calls` | begin of a load, a run of yt-dlp ends well or badly and resumes every load that joined it, settlement of a mixed batch, client leaves, time passes |
| `RateLimit` | `rateLimit.ts`, `index.ts`, `sessionRoutes.ts` | `buckets` of each limiter, sessions that verify | login admitted or refused, API call admitted or refused, sweep, time passes |
| `RuntimeInstall` | `bootstrap-runtime.mjs`, `ensure-runtime.mjs`, `index.ts` | binary, receipt and lock on disk, per installer its place | one action per await or change of the disk, kill, drift of a file, the operator's own file, upgrade of the pin |
| `HomeFeed` | `homeFeed.js`, `feedService.js` | `active`, `feeds` (`feedStates`), `view`, `loads` under way | enter, leave, select, retry, scroll, answers and failures of first and later pages, a 401 and the login, ages |
| `VideoPlayer` | `videoPlayer.js` | `page` (the module's variables), `el` (the media element), `aim` (the metadata listener), `diagnosis`, `reading` | open, close, quality, offline copy, metadata with the end of the source, a refused `play()`, error, probe and its wait at the login gate, retry, session renewal, watchdog, budget, visibility |
| `ServiceWorker` | `sw.js`, `sw-policy.js`, `app.js`, `build-shell-manifest.mjs` | `core` and `runtime` caches by generation, answers on their way into one (`puts`), installing, activating and active worker, tabs | deploy, update, precache or its failure, skip waiting, claim and list, retire, fetch from network or cache, open and put, generation message |
| `MCShared`, `MCPage`, `MCClient` | - | `part` | sums of parts (the server's and the shell; what the page keeps and shows; the networking layer and the player): a behaviour is one of one part |

An action is what the event loop runs without interruption: from one await,
callback or timer to the next. Two requests, tabs or callbacks therefore
interleave exactly where the program lets them. `PROJECT.json` maps each
definition to its lines.

Operators named after a definition and a defect (`StartRemoveMemoryOnly`,
`CancelReleasesSlot`) are not part of a specification. Each is the definition with one plausible bug,
kept to show that a property notices it; `PROJECT.json` pairs them under
`mutants`.

Modelling decisions worth knowing:

- Time is a bounded clock where lifetimes are compared (`SessionStore`,
  `StreamProxy`, `FeedCache`, `RateLimit`); elsewhere a timer may fire at any moment while it is armed.
- `SessionStore.file` is what a process would read, `durable` what a power loss
  leaves; they differ only between the rename and the sync of the directory.
- `SessionStore.told` are the logins whose caller has an answer, `granted` those of
  them whose storage was not lost since. A cookie may be sent back as soon as it
  was told of, also after the storage was replaced, so a removal is asked for
  whatever verifies (`CallRemove`).
- A flight that has settled is unreachable, so its identity may be used again.
- A chunk remembers the version its bytes came from; the program sees only
  validators. The scenarios contain versions that validators cannot tell apart.
- In `ApiClient` replies are not tied to a session on the server: each may be
  older than the last login or come after the session expired. A waiter that is
  done stays in the code's list until the next login and does nothing; the
  model's list leaves it out.
- A format is what `selectBestStream` looks at; an offer is a sequence of formats
  and a choice a place in it. The recursion over places stands for the sort and
  its first element. A cached source remembers the format it came from, so that
  `CeilingKept` compares what is relayed with the request's own ceiling and
  `Chosen` with the contract of the choice.
- A playback URL is the set of chunks its blob was made from: deleting records
  does not change it. `overlapped` remembers that a removal was under way during
  the call, the one case in which a URL outlives what it shows.
- In `FeedCache` a batch is the time YouTube answered it. The runs of yt-dlp are
  one flight per key; all its loads resume before anything else runs.
- `RateLimit` keeps a log of admissions as history: the code has none, the
  limiter's promise is about it. The `from` of an admission is the
  beginning of the window that counted it, its owner the session or network peer
  that made the request.
- `RuntimeInstall` takes a file for what its SHA-256 identifies: the version it
  answers and whether its bytes are the official ones.
- `HomeFeed` and `VideoPlayer` turn the generation counter into what it drops:
  a load carries a flag that the next `bumpGeneration()` clears; of an abandoned
  playback attempt nothing is kept.
- In `ServiceWorker` a file's content is the release it is from. Which worker
  the browser runs when is external and as free as the specification of service
  workers makes it.
- A request that is answered 401 waits at the login gate, for which no deadline
  exists. `ChunkDownload`, `OfflineOwnership`, `HomeFeed`, `VideoPlayer` and
  `ApiClient` each have that state; only a login, a cancel or a reload leaves it.
- A child has exited (`dead`) before its pipes close. From then on signals are no
  longer sent, as `runYtDlp.ts:126,135` look at exit code and signal first.
- An answer that the old worker still stores (`puts`) keeps the cache it opened,
  also when the activation of the next one deletes it meanwhile; what is put into
  a deleted cache nobody sees.
- A gate that rejects or times out an extraction is one of the failures of a flight
  in `StreamProxy`: `extractRawInfo` wraps it as `unknown`, waits and tries once
  more, so the client sees a 500.
- A promise of `play()` that was refused is heard later, in an action of its own; a
  new source drops it, as `load()` rejects what is pending.
- `MCShared`, `MCPage` and `MCClient` put together parts that share no state. Checking the
  sum is checking each part; interleavings of independent parts would only
  multiply states. `part` is chosen in the initial state and never changes.
- In `StreamProxy` all members of a flight resume before anything else happens:
  settlement runs in microtasks (`Quiet`).

## 4. Runs

| Run | Instance | Shows |
|---|---|---|
| `session` | two requests with cookies, two sids, cap 1, lifetime 2 of 3 ticks, two epochs | answered logins and logouts survive crashes, power loss, failed writes and recovery; memory is the document while healthy; a cookie that was set keeps working and what verifies is on disk; calls settle |
| `session_auth_logout` | the same with one request at a time | violation, see findings |
| `runner` | one caller without a key, two flights, one slot, a queue of one, two children (49,917 states) | every child is owned or on its way out; shutdown reaches each; the caller is answered, children are reaped, the process ends |
| `runner_slots` | as `runner` | violation, see findings |
| `tabs` | a tab alone with two chunks (three waiting calls, two reloads, freezing), the same with three failed transactions instead (two waiting calls, one reload), and two tabs over one chunk with a reload, and a waiting call or a failed transaction (231,706 states) | cancel leaves nothing, copies are whole, operations settle or stand at the login gate, nobody is locked out |
| `tabs_claim` | two tabs | violation, see findings |
| `client`, api | two callers with any of the four operations, three attempts, Retry-After below, at and above the budget | nobody who waits is forgotten; no failure is reported as one the call did not have; no POST is repeated; calls end or stand at a visible gate |
| `client`, player | two videos of three positions, sources of one to three | the viewer's place is kept; every error is shown, or the login gate stands before it |
| `stream` | one client with nine ranges over files of 1 and 3 bytes; one with two heights and room for one; two clients sharing all; one with every pair of seven formats | relayed bytes are those asked for, of a format under the request's ceiling and the one the contract names; a refused URL stays gone; expired URLs are not used; requests are answered |
| `shared`, gate | three callers, three flights, one key or none, one or two slots, a queue of one, or one slot and a queue of two | slots, queue, timers, keys and waiters are accounted for; one joinable flight per key; it implements the pool, order of the queue included |
| `shared`, cache | two loads, one search or category feed, home batches of two categories at once or of one in turn, room for two keys | an answer is less than the stale window old (the home feed twice that), an error means that there was nothing; overlapping loads never bring an older answer back |
| `shared`, limiter | two devices behind a proxy, a session, one login and two extractions per window of two ticks, half seconds | over any stretch of a window's length at most twice the limit; only who used up a window is refused, and its Retry-After suffices |
| `shared`, install | two installers, two versions, one upgrade, two of: kill, drift, lost network | an installer that reports success has seen official bytes of the version it wanted; only official bytes ever replace what is there |
| `shared`, shell | three releases of two files, one tab, one answer on its way into a cache | the shell of an active worker has every file, and no tab asks in vain |
| `page`, download | nine versions in six scenarios (strong, weak, no and changing validators; a read that fails), files of 0, 2 and 3 bytes, ranges of two, two attempts, one restart; two stores of earlier releases with a lost chunk | a ready copy is whole and of one version; committed bytes are kept and counted; a download settles or waits for a login |
| `page`, playback | two versions of one length, or a version and a shorter one, a row of the first release or none, one play call, removals, reloads | what is played is the whole stored copy, unless a removal came during the call |
| `page`, feed | two categories, two loads at once, two pages | the screen shows the category that was chosen and entered; skeletons do not stay, but for the login gate |
| `player_timeout` | as `client`, player | violation, see findings |
| `sw_mixed` | as `shared`, shell | violation, see findings |

Why the bounds are enough. A cap or limit of one puts every step at the limit;
two sids and two requests let one fill what the other needs. Two slots are
added for the gate since "a slot is free while another is busy" needs two, and
three callers so that two can share a flight while the third waits. Two
children are a slot and a cancelled predecessor whose slot was given away; that
one caller can have both is what makes shutdown and its queue meet. Three bytes in
ranges of two give a full and a short range; a file of none is the boundary
case. Three waiting calls let a cancel wait behind a start that waits; a queue of two
makes its order matter; with three failed transactions
an operation, the pause it ends in and the release of its claim can all fail. The last ranges of `AllRanges` reach beyond every file.
`MaxRetries` of `ApiClient` is the code's 2; two callers make one join what the
other started. `StreamProxy` and the offline modules carry their bounds in a
`Scenario`, chosen in `Init`, so that combinations that cannot meet do not
multiply.

Two loads and two generations are what an abandoned page cycle and its
successor need; a third release is deployed while the second installs, and one
answer may still be stored meanwhile. One
play call is enough since calls do not read what others do, but the cache,
which a reload, a removal or an earlier call changes too. Two ticks per window
put requests on its edge and inside it; half seconds make the rounding of
Retry-After matter.

The symmetry of `shared` permutes loads, installers and files of the shell, which
are interchangeable, and all its properties are safety properties; versions are
interchangeable too, and the first pinned one is fixed. Flights and
callers of the gate are not permuted.

`CHECK_DEADLOCK FALSE` stands in the configurations of the runner, where the
process exits, and of `shared`, where the clocks of cache and limiter end.

## 5. Fairness

- `SessionStore`: the step in progress of the writer (a file operation ends).
  Crashes, callers and the clock have none.
- `ConcurrencyGate`: a running task settles. `YtDlpRunner` justifies it: a task
  is given a timer that kills its child, SIGTERM is escalated to SIGKILL, a child that
  got SIGKILL exits, and the pipes of a child that has exited close. These
  and the timers are weakly fair; a child that was only asked to terminate need
  never exit. That the pipes close is an assumption about the children: a
  grandchild that keeps them open would defeat it, and the code.
- `ChunkDownload`, `OfflineOwnership`: the next transaction or request of an
  operation ends; requests have deadlines. Waiting for a login has none, nothing is
  fair about it, and `Settles` and `OperationSettles` allow it. A claim nobody renews grows stale (weak, it is time that
  passes). In `NotLockedOut` it is the user who keeps trying, which
  is a premise of the property. A frozen tab makes no steps.
- `ApiClient`: timers fire: deadlines of requests, back-offs, the idle deadline of
  a body, the five seconds of a probe. Nothing makes anybody come to the gate or
  a request succeed, so `CallsEnd` promises an end or a visible gate.
- `HomeFeed`: the oldest load that does not stand at the login gate settles, since
  outside the gate every request of the API client has a deadline (`Oldest`,
  `LoadSettles`). The login, the viewer and the age of a feed are not fair.
  `HomePaints` therefore allows skeletons behind the gate.
- `VideoPlayer`: the probe that diagnoses a failed stream ends, answered or by
  its timeout, unless it stands at the login gate, whose end is not fair.
  `ErrorsAnswered` needs no more, and allows the gate.
- `FeedCache`, `RateLimit`, `RuntimeInstall`, `ServiceWorker`: none, only safety is
  asked of them. A process may be killed and a worker stopped anywhere.
- `StreamProxy`: the extraction settles (weak). The steps of a request are
  strongly fair: other requests' microtasks disable them for a moment
  (`Quiet`), and the event loop takes callbacks in the order in which they
  became ready, so one that is ready again and again is not passed over.

## 6. Proofs

`SessionStore_proofs` proves, for every set of sids and callers, capacity,
lifetime and bound: `TypeCorrect`, `LoginsAreDurable`, `LoginsVerify`,
`LogoutsAreFinal`, `MemoryIsTheDocument`, `CapHolds` and, as action properties,
`CorruptionIsKept`, `EpochIsRetained`, `NothingIsEvicted`. The only assumption
is `StoreAssumption` (finite sids, positive cap, lifetime and number of epochs,
a boot call that is no request). The model's own bounds `MaxNow` and `MaxEpoch`
are parameters too, so the theorems hold whatever their values.

None of the properties is inductive alone. `IInv` adds four facts:

- `SerialWriter`: the chain holds each unanswered call once; only its head has
  an operation in progress, and a dead process has none.
- `FreshSids`: a sid is added by one call, is told of when that is over, and is
  removed only after it was told of. Without it a second login could revive a
  revoked sid.
- `Persistence`: what memory knows of the document. A usable store differs from
  it in at most the one record of the operation in progress. This is why a
  failed write must make the store unhealthy.
- `Undoable`: what a power loss may undo: a login nobody was told of, or a
  logout that was interrupted and that this process cannot repeat.

Each part has a lemma (`TypeStep`, `SerialStep`, `FreshStep`, `PersistStep`,
`GrantedStep`, `RevokedStep`, `UndoableStep`) with a step per action;
`Invariance` combines them and the theorems follow. `CapHolds` needs a lemma on
the cardinality of the members of an allowlist after one more login.
The type invariant, `WithinCap`, `EpochRetained`, `GrantedVerifies`, `NoEviction`
and `CorruptionKept` are theorems and not among the runs' properties.

`ApiClient_proofs` proves `WaitersAreKnown`, `FailuresAreHonest` and
`PostsAreSentOnce` for any callers, retries, budget and Retry-After values, from
`CallerAssumption` (the shared waiter is no caller) and `NumbersAssumption`. Its
invariant adds `Locals` to what the run checks: a back-off belongs to a GET with
an attempt left, a passed deadline is forgotten with its attempt, a call has a
result exactly when it is done. `FailureStep` covers the three ways a request
fails, `ContinueCalls` the two ways in which waiting calls go on.

`Shared_proofs` proves of the limiter `LimitHolds` and `RefusalEarned` for any devices,
sessions, limits, windows, seconds and header texts, behind a proxy or not, from
`LimiterOptions` and `Addresses` (devices, sessions, proxy and junk are told
apart). Identity comes first: `OwnAddress` shows that `clientIp` is the address
of the peer whatever the peer writes in the headers, so that a bucket and a
ledger have one owner. `LimiterInv` ties them: a bucket counts exactly the
last admissions of its owner, all of them charged to one window (`Ledger`),
and windows follow one another. `Chained` gives the bound: `Max` admissions
later another window has begun, so `2 * Max` later a whole one has passed.
`RetryAfterSuffices` is the arithmetic of the rounding up to seconds.

Of the installer it proves `OkIsOfficialHolds` and `NeverWorseHolds`, for any
processes and versions. `OkIsOfficial` speaks of an installer that has ended;
between the check of the checksum and that end lie the rename and the receipt.
`Sound` says what the locals of an installer promise in each place, `AllSound`
says it of all, `ReceiptHonest` that a receipt was only ever written of official
bytes. None of them mentions the lock: that is how the proof shows that two
installers inside it do no harm.

Of the feed cache it proves `AnswersHonestHolds` and `NeverGoesBackHolds`, for any
requests, queries, categories of an hour and size of the Map, from
`CacheOptions` (lifetimes within the stale window, which the defaults are and
`config.ts:244-251` does not ask for, an hour's list that is not
empty and does not contain the home key). What is served was decided when a load
began and is written when its last run ends, so `CacheInv` says what holds in
between: what a load may fall back on is within its window (`PartOk`), the entries
it waits for are not newer than it is (`LoadingOk`), the Map has each key once
(`Listed`; `SetEntryKeeps` is `StaleCache.set()` with its eviction). For the home
batch `HomeInOrder` gives the order: a later load of one hour waits for all that
an earlier one still waits for, since what the earlier one waits for cannot have
become fresh meanwhile, so the earlier one is done first or with it. `FlightServes` and
`FlightStores` are the end of a run for the loads that joined it and for the Map.
`LeastDatum` shows from the well-foundedness of `<` that the oldest content exists.

`ConcurrencyGate_proofs` proves `GateAccounted`, `GateSingleFlight` and
`GateImplementsPool` for any flights, callers, keys and limits. `Accounted` and
`SingleFlight` are inductive together (`GateInv`) and not apart: that a joined
flight has a place depends on the key map, that the map has no dead flight on the
books. The heart is the pump: after a settlement it starts exactly the head of
the queue or nothing (lemmas on queues with distinct members). The refinement
goes step by step: each action maps to the pool's admit, leave, done, close or
resize, or to a stutter (a join, a cancel of one waiter, a late settlement). The
pool's waiting room is a sequence and the queue maps to it as it is, so that
first in, first out is part of what is implemented; a cancel in the middle and an
admission at the head are lemmas on sequences.

`YtDlpRunner_proofs` builds on it: `RunnerChildrenOwned`,
`RunnerShutdownReachesAll`, `NoChildAfterShutdown` (the children only get fewer
once the fence is up) and `RunnerImplementsPool` (the runner uses the gate as its
specification allows, so the gate's theorems hold under it). `RunnerInv` adds to
`GateInv`: a flight has a task exactly while it has a slot (`TaskFollows`), a
spawned task has exactly one child (`OwnersWait`), a child nobody waits for was
killed or will be (`OrphansTold`), an escalation follows a SIGTERM (`Warned`), and
the fence is up exactly during a shutdown (`Fenced`).

`Page_proofs` holds four arguments over separate states. `ShellStaysComplete`,
for any number of releases, files and tabs: what an installing worker has
precached or has still to (`Installs`), caches are absent or have every entry
(`Whole`), an activating worker retires no cache but others' (`Activates`), and
the active worker's shell is kept unless its cache was overtaken (`Kept`); that
exception is finding 5. `PlaceIsKept`, for any videos and positions, where the history
calls neither `blind` nor `strayed`: the place of
the viewer is in the element (`AtPlace`), or remembered by the page or by the
listener that waits for metadata (`Remembered`), and element and page agree on
the video (`OnPage`). `ScreenAlwaysFollows`, for any categories: a feed that is
shown is the selected one's (`Follows`), a page is never ahead of its loads
(`Ahead`), and a loading mark has a load (`Marked`). The three `finally` blocks
and error paths of abandoned loads are cases of one lemma each. `CancelWinsHolds`, for
any finite set of tabs, chunks, waiting calls and reloads: a cancel that was the last
word of the user waits behind nothing but cancels, or is the last transaction, or
is done (`WordHolds`). `TabShape` says what a tab has: at most one registration among
its transactions, exactly while its operation is not yet past it, and nothing
beside an operation that is. `ContinuedIs` is the settlement: of the calls that
waited at most one start registers, and a cancel behind no start ends in a delete.
The two statements about the copy are made of a tab alone with the video (`Alone`), as
in the property: with two claimants, finding 3, neither is true.

`SessionStore_proofs` also has the routes. `RoutesUseTheStore` shows that every
step of `SessionAuth` is a step of `SessionStore` or leaves it alone, so all the
theorems above hold of the routes. `CookiesSurvive` needs `AuthInv`: a sid has had
one login and no later one (`Spent`), one expiry in all places (`OneExpiry`), and
the epoch a token was made with is still the document's while its session is
there (`EpochFixed`, `EpochKept`). The last is the reason why a corrupt document
must not be replaced: a new one would have a new epoch.

`OfflinePlayback_proofs` proves `ReadyIsWhole`, `RequestsFollowTheStore` and
`CommittedIsKept` of `ChunkDownload`, for any versions, validators, range size,
attempts and restarts, and `PlayedIsStored` of the playback, for any number of
play calls. `PlayingLeavesTheDownload` is the refinement that lets the second use
the first. The argument has three layers:

- Sets of chunks. `loadValidatedChunks` walks sorted rows; the model says which
  chunks that keeps without the walk (`Validated`). `ValidPrefix` shows by the
  least missing byte (`LeastNat`, from the well-foundedness of `<`) that these are
  exactly the chunks before it and that they tile the beginning of the file.
- `Sound`, what a store and the record of it owe each other: chunks lie in order
  (`Laid`), are of one file as far as validators tell (`OfOneFile`), and the total
  and validators of the record were heard with them (`Heard`). `SoundPrefix`: a
  repair keeps it. `SoundNext`: so does the next chunk, if
  `representationChanged` let its response pass.
- `DownloadInv`: what the operation's locals are in each place (`Phases`), that a
  settled operation leaves a record of what is there (`Settled`), and, where no
  failed read was taken for an absent record, `Stocked` (the store is sound),
  `Committed` (the locals agree with the store) and `Whole` (what is about to be
  ready has all its bytes). `PlayInv` adds that a call or URL no removal overlapped
  speaks of the ready copy that is still there.

The assumptions are `ChunkAssumption` (lengths are numbers, an absent header is
told apart from every present one), `OldStoresAssumption` (a store of an earlier
release is an unfinished download of one file, from which chunks may be lost)
and `LegacyAssumption` (the legacy blob is no chunk).

`StreamProxy_proofs` begins with the choice of a format. `ChoiceIsTheContract`: for
any offer and ceiling, `SelectBestStream` returns the place the contract `Chosen`
names. The recursion is unrolled into a walk over the places (`Walk`), which ends
at the best place under the ceiling (`BestOf`); that it does is shown by the least
place where it would not, so it needs no induction over data. Of the proxy it proves
`RelayHonestHolds`, `RefusedIsGoneHolds` and `FreshFromCacheHolds`, for any
scenario `StreamAssumption` admits (ceilings are numbers, offers are sequences of
formats, the cache has room for one). `StreamInv` adds to the two invariants what
the cache, the flight and a request each hold (`EntryInv`, `FlightInv`,
`RequestInv`: a URL that was handed out, of a file of the scenario, in the format
the contract names for the ceiling it is kept under) and `Newer`: what replaces
a refused URL was handed out after it. Settlement of a flight
(`FlightSettlesKeeps`) is where all of them meet. The steps of one request have
one frame in common (`Moves`, `MovesKeep`); `ForwardKeepsBytes` says that the range
sent upstream denotes the bytes the client asked for, so the bytes that come back
may be relayed under the client's headers. `FetchBegins` gives `FreshFromCache`: a
request that turns to the upstream with a cached URL has just hit the cache.

The invariants of these modules were checked by TLC on the instances of section 4
before they were proved.

Only model-checked: liveness everywhere (`CallsSettle`,
`CallerServed`, `ChildrenReaped`, `ShutdownEnds`, `OperationSettles`,
`NotLockedOut`, `CallsEnd`, `RequestsAnswered`, `Settles`, `HomePaints`,
`ErrorsAnswered`) and whatever needs ENABLED stays with TLC: the prover does not
handle them.

## 7. Findings

Five runs end in a violation, each of one property a comment states:

1. `session_auth_logout`: the write of a removal fails, which is answered 503 and
   makes the store unhealthy; the next DELETE of the same cookie is answered 200,
   because an unhealthy store verifies no cookie (`session.ts:120`). The session
   is still in the document, and a restart admits the cookie.
2. `runner_slots`: a cancelled call frees its slot before its child has closed,
   so live children can outnumber slots (`runYtDlp.ts:322`, `queue.ts:25`).
3. `tabs_claim`: the claim is read and written in two transactions, so two tabs
   can both own a video (`offlineService.js:311`).
4. `player_timeout`: nothing leaves the starting state, so a stream that has been
   playing for the startup budget fails (`videoPlayer.js:137`).
5. `sw_mixed`: a release deployed while a worker installs is stored in the
   earlier generation, which then activates (`sw.js:73`).

Met while modelling, without a run. The model contains these behaviours, and
the properties are stated so as not to deny them (`misread`, `Alone`, `SameSize`,
`Overtaken`, `overlapped`, `heard`, `blind`, `strayed`, `overtaken`).

Server: `add()` publishes to memory before it writes, against the header of
`sessionStore.ts:20`; a clean exit forgets a child that outlives eight seconds
(`index.ts:442`); a suffix range is rewritten to an interval by the size known
before a refresh and sent again after it (`streamProxy.ts:436`); each 403 drops
the entry another request may just have fetched (`:432`); the reason
`no_compatible_container` of `selectBestStream` is unreachable; across the full
hour an older home batch may replace a newer one; a gate that is full, times out or closes is a 503
`SERVER_BUSY` in `streamProxy.ts:344-349` and `videoRoutes.ts:138`, but
`extractor.ts:206` has wrapped it by then, so it is retried once and ends as 500; an
`UpstreamOutageError` is answered as 500 `FEED_ERROR` although `trendingService.ts:264-268` promises "a
typed retryable error"; the removal of a stale install lock is a stat and then
an rm, so two installers can hold it (`bootstrap-runtime.mjs:231`), which
`OkIsOfficial` survives because every file is verified before it is renamed.

Offline copies: files whose weak ETag and Last-Modified both change are not
told apart from a rewrite in place; a failed `getRecord()` is taken for an absent
record (`offlineService.js:1327`); the final `ready` is not fenced by the claim
(`:1594`); cancel, start, cancel while an operation settles lets the download go
on (`:1622` against `:1613-1617`); an ETag that
a file did not have before is not noticed (`:1415-1436`), nor is a later
Last-Modified under another weak ETag, if only a response without one came
between; chunks stored under no validator count as proved once a later response of
the same operation had one; a URL made by a play call during a removal is cached after
the removal revoked what there was, and plays removed data until the page is
reloaded, or the beginning of a longer file that was downloaded since, as the
total is read before the chunks (`:1165`, `:1174`); the comment at `:1445`
says a restart revokes the playback URL, which `resetForNewRepresentation` does
not do; a cached URL of a first-release copy plays on when the new copy is
ready; `openDb()` caches a rejected promise for ever.

API client: only a 429's Retry-After is read (`api.js:71`), although
`searchRoutes.ts:38` sends one with its 503; the deadline of the retry after a
login is reported as being offline (`api.js:507`) and a body that is cut off as a
timeout (`:154-156`), against the list of kinds at `:22-23`; a caller's abort is not
noticed while the gate is open or, for `apiGetJson`, while the body is read; a
session check that was answered before a login finished puts the gate up again
after it (`api.js:399`).

Home feed: a category selected while a load of it is in flight is neither painted
nor loaded: what was there stays, and if that was skeletons (A, B and A again, both
under way) it stays until the viewer does something else, as the end of the
abandoned load paints nothing (`homeFeed.js:396-404`, `:200`); the error path does not compare the
load's generation as the success path does (`homeFeed.js:212`), and an abandoned
load's `finally` (`:219`) resets the flag of a newer load; later pages are gone after leaving the
tab and coming back; new cards are appended behind the sentinel; the sentinel
of another category loads into the wrong list.

Player: the late offline copy reopens a closed player (`videoPlayer.js:834`); a
change of quality before the metadata loses the position and pauses a playing
viewer, against the comment at `:341-343`; a video opened over another
takes over its position (`:347`); a retry resumes a viewer who had paused; the
startup budget does not cover a stream that is held paused (`:133`); the
recovery of a stalled stream needs states nothing enters (`:209`); the retry
button of a failed offline copy does nothing.

Service worker: the activation of one generation deletes the cache of a
candidate that installs at the same time (`sw.js:171`), which then activates with
nothing; tabs may get files of another release than their page's
(`caches.match()` looks through all caches).

## 8. Not modelled

- Signatures (they cannot be forged), cookie attributes, file modes and ownership
  checks: a document is one the store accepts or refuses.
- Parsing of yt-dlp's output, classification of its messages, the record shown as
  a video's metadata, the cache of metadata and thumbnails
  (`memoryCache.ts`), body-level limits of one relayed or downloaded response.
- The listing of downloads for the library page, progress events, the chips, cards
  and buttons of the pages, likes, subscriptions and the watch list: rendering
  and synchronous reads and writes of local lists.
- A full disk while the installer writes its receipt: like a kill there, with
  the lock released.
- One stale window serves searches and feeds in `FeedCache`; in the code they
  are 30 minutes and two hours, of keys that share nothing.
- Revalidation of API replies in the service worker, which touches the runtime
  cache only.
- Request and response counters, egress look-up, health and diagnostics,
  stateless routes, validation, configuration and logging, the smoke script, the
  Android wrapper, wording and layout everywhere.

`PROJECT.json` lists each component with its reason, and under `hazards` what
no property covers yet: what a child that outlives the clean exit does, what the
writes of two tabs do together once both have claimed a video, and the range that
is sent again after a refresh to a file of another size.
