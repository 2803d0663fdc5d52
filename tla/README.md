# Specifications of mycelia

TLA+ models of [mycelia](../src/README.md), a server that collects V8 CPU
profiles of Node services, merges them per deployment and compares the merges.
The models are checked with TLC on small instances; what matters most about the
two caches, the uploads, the listings and the progress of a comparison, the
aggregation of call trees, the detection of long tasks, the producer and the page
is proved with TLAPS for instances of every size.

Line numbers below are of the files under `src/`.

## 1. The system

| Part | State | Operations | Talks to |
|---|---|---|---|
| Node producer, `examples/auto-profiler/auto-profiler.js` | `_timer`, `_inFlight`, `_started`, `_loggedUploadError` | `start`, `stop`, timer callback, session (capture, upload) | uploads objects to the bucket |
| GCS store, `internal/store/gcs.go` | none (the bucket) | `Browse`, `ListGroups`, `OpenMember` | bucket |
| Upload store, `internal/store/upload.go` | groups: members by Raw key, order | `Add`, `ListGroups`, `OpenMember` | memory only |
| Per-object cache, `internal/cache/objcache.go` | map, flights, files of `-cache-dir` | `GetOrBuild` (look, flight, load, build, store, save) | disk; may be shared by the web and the MCP process |
| Group cache, `internal/cache/cache.go` | one entry (signature, aggregation) per group, flights | `Get`, `Put`, `GetOrBuild` | |
| Engine, `internal/engine/engine.go` | the caches and sources | `planGroup`, `buildGroup`, `buildPlan`, `GroupAggregation`, `Compare`, `ResolveLatest` | sources, caches, errgroup pool |
| Profile parser and aggregation, `internal/v8profile` | while it runs: stack of a walk, keys on the path, episode in progress | parse, aggregate, detect blocking, merge | |
| Matrix and breakdowns, `internal/compare` | none | rows, ranking, totals, caller stitching | |
| HTTP API, `internal/httpapi` | the response stream | one engine call per handler; `handleCompare` streams progress | engine |
| MCP server, `cmd/mycelia-mcp` | none | one engine call per tool | engine |
| Web UI, `web/static/app.js` | page state | browse, select, compare, drill down | HTTP API |

A request lists the members of a group, drops those outside its time window and
samples the rest (`planGroup`); the Raw names and sizes of the sample are its
signature. It then asks the group cache for an aggregation of that signature.
On a miss, a pool of goroutines gets the aggregation of each sampled member from
the per-object cache, which downloads, parses and saves it the first time; the
results are merged and stored under the group.

There are two ways into the group cache. `GroupAggregation` (breakdowns, blocking
view) uses `GetOrBuild`, which deduplicates builds with a singleflight group.
`Compare` uses `Get`, `buildGroup`, `Put`, which does not, and reports progress.
The group cache keeps one entry per group, whatever the window it was made for.

What is hard here:

* requests of both kinds interleave on one entry while members are added and
  clients disconnect, so an answer could be of another window, older than what
  the request listed, or never come (`cache.go:69-106`, `engine.go:425-438`);
* two server processes and crashes meet in one cache directory where every save
  of a key goes through one `.tmp` name (`objcache.go:129-142`);
* Raw names of uploads are computed (`upload.go:63`), start again after a
  restart, and are what both caches identify content by;
* goroutines of one comparison count and emit progress in separate steps
  (`engine.go:39-50`) on a stream that has to end with one final line;
* `start` and `stop` of the producer are called around sessions that take
  minutes (`auto-profiler.js:152-209`);
* the walk of a call tree counts a key once however often it recurs, at three
  granularities at a time, by reference counts that some frames delete and
  others decrement (`aggregate.go:476-515`), while edges are computed another
  way (`aggregate.go:255-300`) and shown beside the totals;
* callers are resolved through trampolines that may call each other
  (`breakdown.go:432-466`), and one category filter is implemented once per
  dimension (`matrix.go:187-249`, `breakdown.go:178-348`);
* sample intervals may be 0 or negative and nothing between V8 and the long-task
  detector checks them (`blocking.go:113-158`), and its lists of the worst
  stalls are cut twice;
* a bucket is listed name by name while producers write to it, and one request
  lists it several times: to find the latest build, to plan, to show members
  (`gcs.go:133-188`, `engine.go:165-229`, `main.go:348-379`);
* the page sends requests that overlap and draws each answer when it comes, with
  no number that tells which request it answers (`app.js:168-226`, `624-681`).

`PROJECT.json` lists the hazards with the line where each bites and the
properties that cover it.

What makes each part correct:

* group cache: an answer is of the window asked for and no older than the
  request; equal flights never build at once; nothing cached is built again;
  everyone is answered;
* per-object cache: only whole aggregations are handed out, whatever is on disk;
  an object is fetched once per process, and not at all when it is whole on disk;
* upload store: a list that was handed out stays valid; what is uploaded is kept
  and is what is aggregated;
* comparison stream: every profile is counted once, the bar is full before a
  result, one final line ends the stream, whatever fails;
* producer: one session at a time, a started loop never dies, nothing begins
  after `stop`, which returns, and to a producer at rest unless its cap ran out;
* aggregation: what a key is credited with is the time of the nodes on or below
  it, each once; parts sum to the whole before and after a merge;
* blocking: the long tasks found are the maximal busy stretches that are long
  enough; what is kept of them are the worst;
* matrix and breakdowns: a filter means the same time in every dimension;
  stitching moves time and neither loses nor doubles any; what drives a function
  reads the same from either end; a regression is ranked where it is seen;
* listings: what was stored when a request came is seen by each of its listings;
  "latest" is no build that was superseded by then; samples are stable;
* page: the table is of what is stored for it, nothing waits for ever, and what
  is shown at rest belongs to what is chosen.

## 2. Modules

| Module | Models | Uses |
|---|---|---|
| `GroupCache` | cache.go and its callers in engine.go | |
| `GroupCache_proofs` | theorems about it | `GroupCache` |
| `MemoService` | abstract specification: what a per-object cache promises | |
| `ObjectCache` | objcache.go in several processes on one directory; `ImplementsMemo` is the refinement | `MemoService` (INSTANCE) |
| `ObjectCache_proofs` | theorems about it, the refinement among them | `ObjectCache` |
| `UploadSource` | upload.go | |
| `UploadedObjects` | readers of uploads through the per-object cache, restarts | `UploadSource` (EXTENDS) |
| `UploadedObjects_proofs` | theorems about both | `UploadedObjects` |
| `CompareStream` | handleCompare, Compare, buildGroup's pool, ProgressReporter | |
| `AutoProfiler` | the scheduler of auto-profiler.js | |
| `Blocking` | detectBlocking, insertStall, mergeBlocking; the view of engine/blocking.go | |
| `Blocking_proofs` | theorems about it | `Blocking`, `SetLemmas` |
| `Tally` | maps from keys to sums, as operators | |
| `CallFrames` | package.go and keysFor: what a frame is counted under | |
| `Aggregate` | aggregate.go and merge.go | `CallFrames`, `Tally` |
| `Aggregate_proofs` | theorems about it | `Aggregate`, `SetLemmas` |
| `Ratios` | exact quotients for what the code computes in floating point | |
| `Breakdown` | breakdown.go | `CallFrames`, `Tally`, `Ratios` |
| `Matrix` | matrix.go: cells, rows of all groups, deltas, ranking | `Breakdown` |
| `Reports` | matrix and breakdowns of what `Aggregate` yields | `Aggregate`, `Matrix` |
| `Listings` | gcs.go, sample.go and the parts of engine.go, main.go and handlers.go that list | |
| `WebUI` | app.js: runs, table, drawer | |
| `Engine_proofs` | theorems about what the engine reads and reports | `Listings`, `CompareStream`, `SetLemmas` |
| `Clients_proofs` | theorems about the page and the producer | `WebUI`, `AutoProfiler` |
| `SetLemmas` | lemmas about finite sets, sums, forests and the sums over their trees | |
| `MC...` | constants for TLC | |

Operators whose comment begins with "Mutant of" stand before the operator they
are a variant of. No specification uses them: they are plausible mistakes in
the code, and each property is known to fail when one takes the operator's place.

### GroupCache

A request is a goroutine with a program counter; one action per stretch of code
between two points where another goroutine can get in between.

| Code | Actions |
|---|---|
| `planGroup` (engine.go:346-386) | `Plan`, `PlanFails` |
| `Cache.Get`, first look of `GetOrBuild` | `Lookup` |
| `group.Do` | `Do`: lead (`flight[key] = r`) or `wait` |
| second look | `Recheck` |
| `buildGroup` | `BuildSucceeds`, `BuildFails` (an error of its own, or its context is cancelled) |
| `Put`, end of a flight | `Store`, then `Return`, which gives everyone who joined the leader's result |
| the handler's answer | `Reply` |
| uploads and new objects; clients | `AddMembers`; `Arrive`, `Disconnect` |

`version[g]` counts changes of the members of a group; `Sampled[v][w]` is the
sample that version `v` gives in window `w`. `from` remembers the version of the
arrival, only for the property. singleflight is modelled from its documented
use; `buildPlan` skips `Do`, `wait` and `Return`.

### ObjectCache and MemoService

Goroutines of several processes share files. A file is an inode with the set of
chunks that hold data; `tmp[k]` and `path[k]` say which inode has which name. So
the model has what a shared name does: `os.Create` truncates what another
process is writing at its own offset, a rename publishes whatever the tmp name
names, and the second of two renames finds nothing. `Crash` kills a process at
any point and leaves the files. Loss of unsynced data in a power failure is not
modelled. The read of a blob is one step, because a file under its final name is
never truncated.

`MemoService` has no locks, flights or files: a process knows an object or not,
learns it while someone asks, and answers with an error only while it does not
know it. `ObjectCache` implements it with `known` = what memory holds whole.

### UploadSource and UploadedObjects

`RawIndex` is the code's `len(g.order)+i` in a loop in which `g.order` grows.
`uploaded` is a history of what was uploaded and how, so that a property can
compare it with what is listed, opened and aggregated. In `UploadedObjects` the
per-object cache is the map `MemoService` promises, and outlives a restart.

### CompareStream

`Count` and `Emit` are the two halves of `ProgressReporter.add`. `Spawn` blocks
while the pool is full; `Wait` returns when no goroutine holds a slot. Lookups
hit or miss and fetches succeed or fail by choice: what the caches answer is
the business of the other modules.

### AutoProfiler

JavaScript runs one callback at a time: a step is what runs between two awaits.
A timer is an identity that is pending or not; `timer` is the `_timer` field,
which may refer to a timer that has fired.

| Code (auto-profiler.js) | Actions |
|---|---|
| `start`, 152-157 | `Start` |
| `stop` up to its await, 163-170 | `Stop`: finds the session in flight, if any, and arms the 5 s timer |
| that timer, 170 | `CapFires`, also when the call has returned: nothing clears it |
| the race is settled, 171-173 | `StopReturns`, by `Settled`: the session is over or the call's own timer fired |
| a timer between sessions, 185-199 | `FireIdle`, `FireSession` |
| the session, 199-209 | `Capture`, `Uploaded`, `Fails`, with `Finally` |

Calls of `stop()` may overlap. Node runs what follows a settled promise before the
callback of any timer, so no session begins between the end of an awaited one and
the return of its calls (`TimersMayFire`).

### Blocking

The detector reads a profile from left to right with one episode in progress.

| Code | Actions |
|---|---|
| a sample of an idle frame or of no known node (blocking.go:121-126) | `Boundary` |
| any other sample (blocking.go:127-152) | `Busy` |
| end of the samples (blocking.go:153-158) | `EndProfile`, which hands the rollup to the merge |
| one turn of mergeBlocking's loop over stalls (blocking.go:206-231) | `MergeStall` |

`record`, `insertStall`, `buildStack` and `dominantKey` are operators that these
actions use. An episode of no samples stands for the code's nil. A sample's delta
is any integer. The category and keys of a node are constants. `past` is a
history of the samples of merged profiles: `RollupMatchesRuns`, `BlameAddsUp` and
`WorstStallsKept` compare what was scanned with definitions over whole profiles:
the tasks of a profile are the maximal runs of busy samples that last the
threshold (`TasksIn`), and a stall shows one of them (`Shows`).

`ShownStalls` and `TopRows` are what the view of a group keeps of its stalls and
of its functions and contexts (engine/blocking.go). Rows that block equally may
be kept either way; averages per profile and display names are left out.

### Aggregate, Breakdown, Matrix and Reports

`aggregateTree` walks each call tree with an explicit stack. An action is what
one turn of its loop does to the frame on top:

| Code (aggregate.go) | Actions |
|---|---|
| sums before the walk, 125-240 | `Begin` |
| a new root, 438-441 | `WalkRoot`; roots are taken in any order |
| a child that is not there, 443-447 | `Skip` |
| first visit, 449-501 | `Enter`: self time, activation of three keys, totals and contexts |
| a child left, 503-508 | `Descend` |
| none left, 510-516 | `Exit` |
| edges, 243-248 | `Finish` |

`active[l]` is the map of reference counts of level `l` (function, file, package):
a key that is absent and one that counts 0 are different things, as in Go. The
merge of all profiles is the operator `MergeAggregations`.

Abstractions: time is in microseconds only, as sample counts are added wherever
microseconds are; names and urls are values, and how `DerivePackage` reads a
url is a constant (`UrlKind`, `PackageOf`); call trees are trees, as V8 writes
them, but children and samples may name nodes that are not there. `Breakdown` and `Matrix` are
operators on an aggregation: callers raw and stitched, callees, members,
contexts, shares, cells, totals, filters. `RowsOf` aligns the rows of several
groups, with zero cells where a group does not know a row; `Delta`, `RowMax`,
`Appeared` and `Relative` are the sort keys of the three modes, and `Kept` the sets of
rows that sorting and the cut at topN may keep. The code orders ties by
what they display and rows that display alike by chance; here any of the rows
that rank alike may be kept. The sections of a drill-down are maps from keys to
values: their order and cut are left out, as are trends. What the code computes
in floating point is an exact fraction.

`Reports` states what the reports must say of the profiles the group was
aggregated from, with reference definitions over call trees: `PathTo`,
`SplicedCallers` (cut the trampolines out of the tree, then look who calls),
`TimeIn` and `ContextTimeIn`. `DrilldownsAgree` relates sections that come from
different sums of the aggregation; `RegressionIsShown` compares the profiles of
a pair as groups of their own, with their merge between them.

What does not hold, and is excepted in the properties: a function's key is the
id of its script (aggregate.go:378), which another process may give to another
script; the merged function then has the package and file of one of them. So
functions make up the time of their package and file where script ids agree
(`ScriptsAgree`), while packages and files share out the time of the group
always. All frames without url
are in one file `(native)`, the idle frame too, and the file goes with the package and
category of the first frame seen. So the file rows of a filter that takes idle
and not native, or native and not idle, do not sum to the time of that filter
(`FiltersAgree`), and the files of a package with frames without url need not sum to
its time (`TimePartitions`), though idle time is "carved out of native so it can be toggled
independently" (package.go:26-28). And the edges of a recursive function count
it once per frame, as buildEdges' comment says (`EdgesCarryTotals`).

### Listings

Objects are numbered in the order of their names; a path is four numbers. A
listing of the bucket is a cursor: `ReadName` takes the next name that is
stored now, so an object stored behind the cursor is missed and one stored
before it is seen. A listing of uploads is one step, as it holds the lock.

| Code | Actions |
|---|---|
| `ResolveLatest`, `pickNewestGroup` (engine.go:156-229) for each id of an MCP tool | `Resolve` |
| `planGroup` (engine.go:346-386) | `Plan` |
| `Members` in `handleGroup` (handlers.go:59) | `ListMembers` |
| `Browse`, `listPrefixes` (gcs.go:57-131), of uploads too (engine.go:90-109) | `Browse` |
| `loadGroup` of each build of a day (gcs.go:91-101, 177-188) | `LoadGroup` |
| an error of the bucket iterator (gcs.go:120, 150) | `ListingFails`; `handleGroup` ignores it and answers without members (handlers.go:59) |
| producers, uploads | `Store` |

Names are data: whether a name parses (`Conforms`), its timestamp and its hash.
Nothing is ever deleted, as no code here deletes. A request only reads, so one is
modelled.

### WebUI

Every handler of the page runs to its `await` in one step. `runs` and `drills`
are the requests under way; `Answer`, `Progress` and `AnswerDrill` take them in
any order, with a result or an error. An answer is the request it answers, so
"the table shows the answer to r" is `result.of = r`.

Assumed, not checked by the code: while the drawer is open the page's controls
are out of reach. Its backdrop keeps the mouse off them; the focus is not
trapped, so the keyboard can still get there, and a selection cleared that way
moves the indices the drawer holds. What is checked and proved of the page is for
the mouse.

| Code (app.js) | Actions |
|---|---|
| `runCompare`, `runBlocking` up to the fetch, 168-188, 229-240 | `Run`, used by `Refresh` and `SetView` |
| lines of the stream, its end, its errors, 193-226 | `Progress`, `Answer` with `ShowMatrix`, `ShowBlocking`, `ShowError` |
| `sortBy`, 493-497 | `SortBy` |
| `openBreakdown`, `refreshBreakdown`, 607-681 | `OpenRow`, `Drill`, `ChooseGroup`, `ToggleStitch`, `SortContexts`, `AnswerDrill` |
| selection, 124-139, 856; uploads select too, 577 | `AddSelected`, `Deselect` |

`last`, `overtaken`, `alone` and `unheeded` are histories for `SettlesOnChoice`: the
newest run, whether an older answer came after a newer one, whether runs
overlapped, whether a setting was changed with nothing selected.

## 3. Runs

| Run | Instance | Shows |
|---|---|---|
| `group_cache` | 2 requests, both kinds, 1 group, 2 windows, 1 membership change | freshness, deduplication, no build of what is cached, every call answered |
| `object_cache` | 2 processes (2 goroutines + 1), 1 key, blobs of 2 chunks, 2 crashes | refinement of `MemoService`, one fetch, a whole blob of at most two processes stays whole until a crash, a whole blob spares the fetch, every call returns |
| `uploads` | 1 group, 2 names, 2 contents of different length, uploads of 1 or 2 files, at most 3 files, 1 reader, 1 restart | lists stay valid, files uploaded one by one are kept and aggregated as themselves |
| `compare_stream` | groups of 2 and 3 members, `-fetch-concurrency 0` (a pool of 2) | lines count every profile once and in their group's range, the bar is full before a result, one final line, every stream ends |
| `auto_profiler` | 3 effective starts, any stops | no overlap, the loop lives, one timer or session; each of 2 calls of `stop` returns, and to a producer at rest unless its cap ran out |
| `blocking` | 5 samples in 1 or 2 profiles; 6 busy samples with ties, intervals 0 and -1; threshold 2, 2 stalls kept, stacks of 2 | long tasks found and blamed as the definition says, the worst kept, each with the stack of its largest sample; a cut view still shows the longest stall and the functions with the largest shares |
| `reports` | trees of a root and 3 nodes: all of 3 shapes over 6 frames with steady timings, one shape with uneven ones; 7 profiles legacy or truncated, and merged in pairs; trampolines stitched to a depth of 1; all 16 filters | inclusive time once, edges agree with totals, time is partitioned, stitching and filters neither lose nor double any, drill-downs agree, regressions are shown |
| `listings` | 11 requests; a bucket of 6 objects (3 builds on 2 dates, one foreign name) and 2 uploads, any of them there at first, 2 stored meanwhile; samples of 1 | listings see what was stored, latest is not superseded, samples are stable, a day shows its builds |
| `web_ui` | 2 groups, tabs overall, function and blocking; 2 runs, or 1 run and 3 breakdowns | table, page and drawer show what they say, nothing waits for ever |
| `upload_collision` | uploads of 2 files, at most 4 | violated: a member is lost |
| `upload_stale` | one file per upload, a restart | violated: an upload is aggregated as an older file |
| `auto_profiler_restart` | 2 starts, the second during a session | violated: a session begins after `stop` |

Why the bounds are enough. Entries of different groups and keys share nothing
but the maps, so one group and one key show every interference; two requests
suffice for each pair of actors (leader and follower, flight and comparison), and
the theorems cover any number. Two processes and three goroutines give a save
that races one of its own process (excluded by the flight) and of another. Two
chunks are the least for which a blob can be partial. A collision of Raw keys
takes one upload of two files and one of one. A pool smaller than the second
group blocks `Spawn`. Three starts give two left-over timers at once. Two objects
stored while a request runs give one before and one behind a cursor, or one for
each of two listings; a sample of one is displaced by one arrival. Two runs give
every order of their answers; three breakdowns an answer for a closed, a
reopened and the present drawer. Five
samples give two episodes with a boundary between, or three stalls where two are
kept. Three nodes below a root are the least for which a function recurs with
another in between, and for which a trampoline has both a caller and a callee
that are not; pairs of profiles give a trampoline two callers with unequal
shares, loops of trampolines, and leaders of categories that differ. With a
depth of 1 both sides of maxStitchDepth (16 in the code) are reached.

Fairness. `GroupCache`, `ObjectCache` and `CompareStream` assume that a goroutine
that can take a step takes one (the Go scheduler) and that a fetch ends, with
an error at worst; the code sets no timeout of its own, so a source that never
answers would hold its request for ever. Clients, uploads, disconnections and
crashes are never forced. `AutoProfiler` assumes only that the 5 s timers of
`stop` fire and that Node goes on after a settled promise; captures and uploads
need not end, and neither do callers call. Deadlock is checked everywhere except in
`CompareStream`, where a comparison ends, in `Blocking` and `Reports`, where the
profiles do, in `Listings`, where the request does, and in `WebUI`, where `MaxWork`
is used up.

### Disagreements found

* `upload_collision` (upload.go:63). "Re-uploading into the same date+buildTag
  merges with existing members" (upload.go:42-43): upload two files `x`, then
  another `x`: indices 0, 2 and 2. The second file is replaced, and is listed and
  counted twice with the content of the third.
* `upload_stale` (objcache.go:57). Objects are cached by name and size because
  "GCS objects are immutable" (objcache.go:17-20). Uploads use the same cache,
  and their Raw names start again with the process: with a `-cache-dir`, an
  upload of the same name and size as one before the restart is answered with
  the old aggregation.
* `auto_profiler_restart` (auto-profiler.js:180). "Stop scheduling future
  sessions" (auto-profiler.js:160): restarted during a session, the profiler has
  two timers and remembers one; after `stop` the other starts a session.

### Worth knowing

What the models show and no doc promises otherwise:

* three processes can lose a whole blob of a shared `-cache-dir` without any crash
  (objcache.go:129-142): B truncates the tmp file A is writing, A renames it, C
  finds no whole blob and starts a tmp of its own, B completes A's file and
  renames C's unfinished one over it. `loadDisk` refuses what is left, so the
  object is fetched again, and `BlobStaysWhole` is stated for up to two;
* a page whose comparisons overlap shows the answer that came last, also when it
  is the older one (`SettlesOnChoice` excepts `overtaken`); an error leaves the
  cards of the run before; a blocking view that was asked for while a comparison
  runs gets its cards back above it;
* a setting changed with nothing selected waits for the next run, and a table
  drawn before is then drilled with the tab of now (`openBreakdown(state.dim, ...)`
  in app.js:443 reads the tab when clicked);
* two ids "latest" of one comparison are resolved by listings of their own and may
  become different builds of one service;
* a prefix under which only foreign objects lie is a build whose `members` is
  null (`loadGroup`), of which app.js:119 reads the length;
* rows of a comparison with a time window are drilled into in the whole group, as
  `GroupAggregation` plans with an empty window (engine.go:135);
* an episode whose labelled samples took no time goes to the context "" (`Dominant`),
  as dominantKey looks for a value larger than 0 (blocking.go:257).

## 4. Proofs

`GroupCache_proofs` proves, for every set of requests, groups, windows and
samples and every number of membership changes:

| Theorem | States |
|---|---|
| `Inductive` | `Spec => []IInv` |
| `TypeCorrect` | `Spec => []TypeOK` |
| `AnswersAreFresh` | `Spec => []FreshAnswer` |
| `BuildsAreDeduplicated` | `Spec => []SingleFlight` |
| `FollowersAreLed` | `Spec => []FollowersHaveLeader` |
| `FlightsBuildWhatIsCold` | `Spec => BuildOnlyWhenCold` |

The argument. `FreshAnswer` alone is not inductive: an answer may come from an
entry that another request stored, or from a leader. `IInv` adds

* `EntriesSound`: an entry carries the signature of the sample it was made of.
  With `SignatureFaithful` a hit is an aggregation of the very sample that the
  request planned (`HitIsPlanned`), so it does not matter who stored it or when;
* `PlansFresh`: that sample is one its group had since the request arrived;
* `BuiltAsPlanned`: what a leader holds is made of what it planned;
* `FlightsMatchLeaders`: flights in progress and requests between `Do` and
  `Return` correspond one to one, so a follower gets the result of a request
  with its own flight key, and two leaders never share one;
* `FlightsAreGetOrBuild`: comparisons stay out of the flights.

Each group of conjuncts has a lemma with a step per action (`TypeStep`,
`BuiltStep`, `EntriesStep`, `FlightStep`, `PlanStep`, `AnswerStep`; `ColdStep` for
the action property).

Assumptions: the constants have their types; `None` is no request; and
`SignatureFaithful`: equal signatures mean equal samples. That one rests on
SHA-256 and on a Raw name and size standing for one content, which holds for
bucket objects and not for uploads: that is what `upload_collision` and
`upload_stale` show.

`Aggregate_proofs` proves, for every batch of profiles, trees of any size and
depth, any recursion and any missing children:

| Theorem | States |
|---|---|
| `Inductive` | `Spec => []IInv` |
| `TypeCorrect` | `Spec => []TypeOK` |
| `CountsAreThePath` | `Spec => []ActiveIsPath`: at every level the active keys are those of the path, each counted as often as it is on it |
| `TimesInductive` | `Spec => []TimesInv` |
| `TimeIsCountedOnce` | `Spec => []InclusiveTimeOnce`: every key gets the self time of its nodes and the time of those below one of them, each once |
| `TimeIsSharedOut` | `Spec => []TimePartitions`: the merge of any number of profiles shares the time of all out |
| `EdgesCarryTime` | `Spec => []EdgesCarryTotals`: what flows into and out of a function along the edges agrees with its totals |

The counts. Whether a frame deletes its key or decrements the count depends on
a flag it was given on entry, so `ActiveIsPath` is not inductive without
`StackOK`: a frame has its flag exactly if no frame below it has the key, only
the top may not be entered, and entered frames are of known nodes. Then leaving a
frame with the flag removes the last place of its key, and leaving one without
it leaves a place at which the count is still right. `Places` says that the
places of a key are finitely many, `NewFrame`, `Popped` and `TopChanged` what the
stack operations do, `EnterCounts` and `ExitCounts` what happens to the counts.

The times. `InclusiveTimeOnce` speaks of finished profiles only. `TimesInv` adds
to `IInv`

* `OnPath`: the stack is a path of the tree from a root that was taken, and each
  frame the child that the one below it pushed last;
* `SoFar`: the aggregation in work counts the nodes that were entered and no
  others (`CountsOf`), those before it count their profile.

Which nodes were entered no variable tells. `Ahead` are the nodes that the roots
and the frames of the stack will still push, and `Walked` those with nothing ahead
on their path. Every turn of the loop either leaves `Walked` as it is
(`WalkBegins`, `WalkGoesOn`) or adds the node on top (`WalkEnters`), whose path is
the frames below it: so the keys it finds active are those on its path
(`KeysEntered`, from `ActiveIsPath`), and adding its time to them once keeps
`CountsOf` (`CountsCounted`). At the end nothing is ahead and all nodes are
walked. That nodes have one path, which ends at a root, is `PathFacts`, from the
lemmas on forests in `SetLemmas`; here the recursion of `PathTo` is not computed but
characterised, by induction on finite sets of nodes.

The merge. `MergeAggregations` is a fold. It equals a series in which each
aggregation is merged to those before it (`MergedInTurn`), and the invariant of
the series is `MergeTo`: after j profiles every key has the time of the places, pairs
of a profile and a node, up to j that have the key (`MergeToMore`, `MergeToAll`).
Keys of one level split the places, so their sums add up to the whole
(`SumOfFibres`), and a coarser key gets what the finer keys that go with it have
(`SelfsShared`, `FunctionsGoWith`, `FilesGoWith`). An entity keeps what its first
frame says of it; that all its frames say the same is where `ScriptsAgree` and the
exception of frames without url enter.

The edges. `subtreeTotals` is the sum below each node (`SubtreeIs`), an edge the sum
of the subtrees of its pairs (`EdgesAreSubtrees`). The nodes of a function that
does not call itself lie apart: none is below another. So the subtrees below
them share no node and add up to the inclusive time (`Flows`).

Assumed: frames have their types, nodes are finitely many integers, each has
a sequence of children (`BatchAssumption`, `FrameAssumption`), the urls of frames are
those whose kind is known (`UrlAssumption`), and call trees are forests
(`ForestAssumption`): no node is a child twice or below itself. V8 writes trees; the
code does not check it, and would walk a cycle that is below a root for ever.
None bounds depth, recursion, time, sample ids, labels or the number of profiles.

`Blocking_proofs` proves, for every tree, threshold, limit and sequence of samples,
with deltas of any sign:

| Theorem | States |
|---|---|
| `TypeCorrect` | `Spec => []TypeOK`; maps hold only keys of the profile and stalls stacks of its nodes |
| `StallsInOrder` | `Spec => []TopInOrder`: lists of stalls are longest first and within the limit |
| `TotalsMatchRuns` | `Spec => []RollupMatchesRuns`: episodes, blocked time and maximum are those of the long tasks |
| `BlameIsComplete` | `Spec => []BlameAddsUp`: functions share all of it out, and a cut list explains its part |
| `GroupKeepsTheWorst` | `Spec => []WorstStallsKept`: the lists hold the globally longest tasks and show them |

The argument. The references are of whole profiles and the scan knows one
episode, so `IInv` relates the two between samples: `EpisodeIsLastRun` (the
episode is the run of busy samples at the end of what was read),
`RollupMatchesScan` (the rollup is of the tasks that end before it), and
`EpisodeAddsUp` (its functions' times sum to its length, and the dominant one is
the largest of them). A busy sample makes no task before the episode longer
(`BusyScans`); a boundary or the end completes at most one task, the episode
(`ScanSplits`), so that closing gives the tasks of all samples read
(`ClosedHasTasks`). An episode of positive length has a function of positive
time, so every long one is blamed on one of its own; that is where the threshold
has to be positive. `TopAverage` is the reason a cut list explains at least its
part: terms that are at least all others are at least the average.

For the stalls, `StallsIInv` adds that a list with the limit L has, of any length
d or longer, min(L, n) of the n tasks of that length (`KeepsWorst`), and that the
group's list together with those still in the queue does (`GroupKeepsWorst`).
Counting by length is what makes two cuts add up: an insertion takes the count
c to min(L, c + 1) or leaves it (`InsertCounts`), and min(L, a + min(L, b)) =
min(L, a + b). `EpisodeShowsRun` says that the index kept is the first of the
episode's largest samples. `maxDelta` starts at -1, so among samples of less
than that the index is not of the largest; but a long episode has a sample of
positive time (`EpisodeHasLargest`), and only long ones are shown. `PlaceExists` shows that
the place `sort.Search` finds splits an ordered list, by the least number principle.

`ObjectCache_proofs` proves, for every number of processes, goroutines and keys,
blobs of any length, any crashes and write errors:

| Theorem | States |
|---|---|
| `Inductive` | `Spec => []IInv` |
| `TypeCorrect` | `Spec => []TypeOK` |
| `FetchesAreShared` | `Spec => []FetchedOnce` |
| `DiskSparesFetches` | `Spec => BlobSparesFetch` |
| `CacheImplementsMemo` | `Spec => ImplementsMemo`, the refinement |

The argument. `FlightsMatchLeaders` makes flights and the goroutines inside one
correspond, so at most one goroutine of a process works on an object. `ValuesFit`
says what each holds at each point and whether its process has the object in
memory then; with `OnlyWholeKept` nothing but whole aggregations gets into
memory. `FilesApart` says that an inode is reachable, by a name or a descriptor,
for one key only: what the goroutines of one key do to files cannot touch the
blob of another. Then every step maps: filling the memory is `Memo`'s
learning, a return answers all who joined the flight, a crash is its restart,
and everything done to files is a stutter. Assumed: finitely many keys and
goroutines, and more inodes than these can name at once (`EnoughInodes`).

`Clients_proofs` proves of the producer, for any number of starts:

| Theorem | States |
|---|---|
| `ProfilerInductive` | `ProfilerSpec => []ProfilerIInv` |
| `ProfilerTypeCorrect` | `ProfilerSpec => []ProfilerTypeOK` |
| `SessionsDoNotOverlap` | `ProfilerSpec => []OneSessionAtATime` |
| `ProfilerGoesOn` | `ProfilerSpec => []LoopNeverDies` |
| `OneThingAtATime` | `ProfilerSpec => []OneTimerOrSession` |
| `StopIsComplete` | `ProfilerSpec => StopLeavesNothing` |

`TimersCounted` bounds timers and the session by the starts, so a timer that is
needed exists; `TimerIsKnown` says that until a start overlaps with a session
`_timer` is the only timer there is. `StopLeavesNothing` needs `AwaitsInFlight`: the
session a call of `stop()` awaits is the one in flight, or none is until the call
returns. Assumed: more timers than starts and a session (`EnoughTimers`,
`SomeSession`): the identities stand for an unbounded supply.

and of the page, for all sets of groups, tabs, settings and rows and any
number of requests:

| Theorem | States |
|---|---|
| `Inductive` | `Spec => []IInv` |
| `TypeCorrect` | `Spec => []TypeOK` |
| `TableIsOfItsRun` | `Spec => []TableIsStored` |
| `NothingWaitsForNothing` | `Spec => []NothingHangs` |
| `PageSettles` | `Spec => []SettlesOnChoice` |
| `DrawerShowsWhatItSays` | `Spec => []DrawerIsCurrent` |

`SettlesOnChoice` speaks of a page at rest, so `IInv` says what leads there:
requests under way are numbered and none is newer than `last`
(`RunsAreNumbered`); the bar and "Comparing…" have a request to wait for
(`WaitsForARun`); without overlaps the only request is the last and the cards are
gone while a blocking view is awaited (`LastRunAlone`). `DrawerIsServed` does the
same for the drawer: the breakdown with the number of its body was asked for
with what its head and controls say now. That holds because a body is drawn
anew with every request and the selection only grows while the drawer is open.

`UploadedObjects_proofs` proves, for any groups, files, readers, sizes of uploads
and numbers of restarts:

| Theorem | States |
|---|---|
| `Inductive` | `Spec => []IInv` |
| `TypeCorrect` | `Spec => []TypeOK` |
| `HandedOutListsStayValid` | `Spec => []SnapshotsStayValid` |
| `OneByOneIsKept` | `Spec => []SeparateUploadsAreKept` |
| `AggregatedAsUploaded` | `Spec => []AggregatesWhatThisRunUploaded` |

The argument. `ListedAsComputed`: the file at place i of a group, the p-th of its
upload, has index i + p - 2. So files of one upload are two apart, and files
uploaded one by one (p = 1) have indices of their own, and nothing is
overwritten (`AddStore`). A snapshot is a prefix of a list that only grows, and
what is listed is stored (`StoresTheListed`). `CachedAsStored` says that before a
restart the cache holds what the store does; `SizesAreTrue` is what is left of it
after one. Assumed: contents have sizes, bounds are naturals, `None` is neither
a group nor a content.

`Engine_proofs` proves of what requests read of a bucket that changes, for any
objects, paths, requests, samples and arrivals, and of the lines of a comparison,
for any groups and any `-fetch-concurrency`:

| Theorem | States |
|---|---|
| `ListingsInductive`, `ListingsTypeCorrect` | `Spec => []IInv`, `Spec => []TypeOK` |
| `LatestIsNotSuperseded` | `Spec => []LatestIsNotOlder` |
| `ListingsSeeWhatWasStored` | `Spec => []SeesWhatWasStored` |
| `SamplesAreStable` | `Spec => []SampleIsStable` |
| `MergedAreListed` | `Spec => []ResponseListsWhatItMerged` |
| `EveryBuildIsShown` | `Spec => []BrowseShowsEveryBuild` |
| `StreamInductive`, `StreamTypeCorrect` | `StreamSpec => []StreamIInv`, `StreamSpec => []StreamTypeOK` |
| `BarIsComplete` | `StreamSpec => []BarCountsEveryProfile` |
| `LinesAreInTurn` | `StreamSpec => LinesComeInTurn` |

The argument for listings. What one listing found matters to the next, so `IInv`
keeps track of both: `ListingKeepsUp` (the listing under way has read every name
of the first state that it passed), and, for what an earlier listing found and a
later one has to find again, that it is read or still ahead of the cursor
(`Seen` in `LatestIsThere`, `MergedIsThere` and `BuildsToCome`); nothing is deleted,
so a fresh cursor sees it. `SampleIsMonotone` says that a profile more displaces
at most the last of a sample, by rank; `Precedes` is a total order of
tuples, and finite sets have greatest elements in it (`Greatest`), so the newest
build exists and is picked (`NewestBuildIsPicked`).

For the stream, `done` is what was counted (`DoneAddsUp`), goroutines work only for
the group being fetched (`PoolFits`), and a count is either shown or held by one
goroutine between its two steps (`CountsAreApart`): so no two lines show one
count, and the last count is shown before the group is left. Assumed: paths,
timestamps and hashes are numbers, objects are finitely many positive numbers
(`ListingsAssumption`); no group is empty (`StreamAssumption`; its plan would fail).

`SetLemmas` holds what these proofs need of finite sets and of the community
modules' sums, which add the elements in the order of a CHOOSE. Its induction is on
families of sets and not on a predicate: a family that has every subset
of S whose proper subsets it has, has S (`FiniteFamilyStrong`, from the
well-foundedness of the strict subset relation). `SumTake` gets any element out of a sum, and the other sums
follow: sums of sums (`SumOfFibres`), sums that are renamed, and, with the lemmas on
paths in a forest, the sums over the trees below some nodes (`SumBelow`,
`SumsUpAreBelow`).

Only model-checked: liveness everywhere (`EveryCallAnswered`,
`EveryCallReturns`, `StreamEnds`, `StopTerminates`: they need fairness and ENABLED);
`BlobStaysWhole`; and the four invariants of `Reports` (`StitchMovesTime`,
`FiltersAgree`, `DrilldownsAgree`, `RegressionIsShown`). Those compare fractions in
lowest terms and stitch callers depth by depth, with the RECURSIVE operators `Gcd`
(`Ratios`) and `Add` (`Breakdown`), in whose reach tlapm has no SMT backend; and their
shares are products and quotients of variables. The type invariants of `GroupCache`,
`ObjectCache`, `UploadedObjects`, `CompareStream`, `AutoProfiler`, `Listings`, `Aggregate`,
`Blocking` and `WebUI` are proved and not run; those of `Breakdown`, `Matrix` and `Reports` are checked in passing by
the properties that evaluate the same values. Each inductive invariant was checked by TLC, on the
instances of section 3, before it was proved; they
cost the runs minutes and are left out of them.

## 5. Plan

Done: `GroupCache`, `ObjectCache` with `MemoService`, uploads, `CompareStream`, the
scheduler of `AutoProfiler`; `Blocking`; `Aggregate`, `Breakdown`, `Matrix` and
`Reports` with ranking, deltas and drill-downs; `Listings`; `WebUI`; proofs about
all but `Breakdown`, `Matrix` and `Reports`.

Left:

1. `Engine`: plan, caches and pools of several comparisons composed; no deadlock
   between pools and flights.
2. proofs: what the reports add up from the sums of `Aggregate`, once their
   recursion is written as functions and their fractions as cross products.
3. the context capture of `AutoProfiler`; the browser pane of the page.

Not covered by a property: that fetch goroutines of several groups' pools never all
wait on each other's object flights (`ObjectCache` has no pools); the order and cut
of a drill-down's sections (`RegressionIsShown` is about the rows of the matrix).

Not modelled: the bucket client (I/O), the parser of profiles (decoding), flags and
start-up, the MCP and HTTP decoding of parameters, averages, layout, rounding and wording of
answers, drawing, static files.
