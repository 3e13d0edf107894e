# OpenQuyHoach: models and proofs

TLA+ models of OpenQuyHoach, the pipeline that observes public planning sources, keeps what it
downloads as evidence, imports it into PostGIS and publishes it as map tiles, and of its web page. The models cover what
the unit tests hardly reach: several processes on the same rows, runs that fail or die half-way,
sources that change under a run, and requests that come between two transactions of another.

Paths below are relative to `src/`; `ingest/`, `core/`, `services/` and so on stand for
`python/openquyhoach_<name>/src/openquyhoach_<name>/`.

## 1. Inventory

### Components

| Component | State it keeps | Operations | Modelled in |
|---|---|---|---|
| Scheduler (`ingest/scheduler.py`) | none of its own; stamps `source_crawl_state.lock_token/locked_until` | `due_sources`, `_host_load`, `scheduler_tick`, `scheduler_loop` | `CrawlScheduler` |
| Queue (`core/queue.py`), worker (`apps/worker`) | Redis list of jobs, `:failed` list | `enqueue`, `worker_loop`, `InlineQueue` | `CrawlScheduler` |
| Source observation cycle (`ingest/crawl.py`) | `source_resources`, `source_observations`, `source_change_events`, `source_crawl_state`, `ingestion_runs` | `sync_source`: claim, robots gate, discovery, fetch, mark disappeared, finish | `SourceCrawl`, claim in `CrawlScheduler` |
| Source registry (`ingest/sources.py`) | descriptor files; `sources`, `authorities` | `load_descriptor`, `upsert_descriptor_row`, `ensure_source`, `sync_sources` | `SourceRegistry` |
| Staging and import (`ingest/pipeline.py`, `ingest/jobs.py`) | object store; `source_artifacts`, `planning_records`, `planning_versions`, `datasets`, `layers`, `features`, `documents` | `stage_artifact`, `resolve_planning_version`, `dispatch_artifact`, `_ingest_vector`, `_dedupe_semantic`, `ingest_path`, `ingest_url` | `ArtifactStaging`, partly; the rows of one layer in `LayerComparison` |
| HTTP client, robots (`ingest/http_client.py`, `core/robots.py`, `core/security.py`) | last hit of each host, robots cache, the directory fetched into | `fetch_url` with conditional requests, retries, redirects, size limits; `robots_allowed`, `crawl_delay` | `HttpFetch`, `RobotsRules`; as outcomes of a fetch in `SourceCrawl` |
| Connectors (`ingest/connectors/`) | files in a temporary directory | `discover` and `fetch` for ArcGIS, WFS, WMS, OGC API, CKAN, HTML, portal, sitemap, feed, HTTP, file and two grids | `ListingWalks`, `GridSweep`, `FeaturePaging`, partly |
| Georeferencing (`services/georef_service.py`) | `georeference_jobs`, `datasets.review_status` | `create_job`, `update_gcps`, `review_job` | `PublishGate` |
| Publication (`services/publish.py`) | `publications`, `datasets.published`, published store | `check_publishable`, `build_tiles`, `build_manifest`, `publish_version` | `PublishGate` |
| Review tasks (`apps/api` routers) | `review_tasks` | `resolve_task` | not modelled |
| Comparison (`services/compare.py`) | `changesets` | `diff_features`, `compute_changeset` | `LayerComparison` |
| Coverage, provenance, search (`services/`) | `coverage_cells`, `provenance_events` | counts, graph, queries | not modelled |
| PMTiles (`geo/pmtiles.py`) | the bytes of an archive | `zxy_to_tileid`, `write_pmtiles`, `PMTilesReader` | `TileArchive` |
| MVT, raster, vector, CRS (`geo/`) | none | encodings and transformations | not modelled |
| Quality (`quality/`) | `quality_findings`, `quality_observations`, `datasets.quality_state` | rules, `run_rules`, `persist_findings` | `QualityRules`, with `LayerComparison` |
| OCR, PDF metadata (`ingest/ocr.py`, `ingest/pdfmeta.py`) | none | text layer or OCR, field extraction | not modelled |
| HTTP read API, CLI, MCP | none | thin handlers over the services | not modelled |
| Web client (`apps/web`) | selection, refs, requests in flight, the map's layers | `usePlanningSelection`, `MapView`, `ComparePanel`; `VersionDetail`, `MetadataSnapshotDownload` | `PlanningSelection`, partly |

### How they interact

- The scheduler reads due sources in one transaction, reserves them in another and then pushes jobs to
  Redis. Workers pop a job (which removes it) and call `sync_source`. Operators call `sync_source` from
  the command line without any reservation. All meet on the rows of `source_crawl_state`.
- `sync_source` is *one* PostgreSQL transaction from claim to outcome: the claim's row lock is what
  excludes a second run, and everything a run finds becomes visible at its end or not at all. The
  object store is outside it.
- The run asks the connector of its source for what there is (`discover`) and for each item's file
  (`fetch`); connectors go through `fetch_url`, which waits for its turn at the host and asks
  `RobotsRules`' cache for its delay. What a discovery that did not raise leaves out, the run marks
  disappeared, though some connectors pass over requests that failed. `sync_source` upserts the row of its source, as `sync_sources` does for all of them.
- Inside the run each fetched file goes through `stage_artifact`. Runs of *different* sources share
  artifacts, planning records, versions and datasets, and see of each other only what is committed
  (READ COMMITTED).
- The web page reads what is published through the API; its handlers, answers, renders and effects run
  one at a time in the browser, in any order the network and the user make.
- Publication reads the datasets of a version several times, in separate transactions, while imports
  and reviews go on. Reviews write the georeferencing job and its dataset.

### What is hard here, and what makes each part correct

- *Interleaving and stale reads*: lists read in one transaction and used in the next (tick, gate and
  flag), columns loaded before waiting for a row lock, the ORM writing only the columns it changed.
  Correct: host caps, one job and one run per source, exact counters, what was gated is what is flagged;
  where that fails, it fails only for requests that overlapped.
- *Crash and partial failure*: a worker dies with its job, a tick between commit and push, a loop ends on
  an exception nobody catches, a handler raises between the artifact's row and its import. Correct: no
  source is forgotten, no result without evidence, nothing committed is taken back.
- *Incomplete observation*: limited, refused and failed runs, discoveries that pass failed requests over or
  see a site that changes under them, 304 answers. Correct: nothing disappears for want of looking, the
  journal of events explains the inventory, health says what changed, the inventory converges to the site.
- *Deduplication*: by sha256 and by content of the features, with versions deleted when they become
  empty. Correct: no content is lost, no redundant copy and no empty version stays.
- *Half answers*: a walk over pages, sitemaps or grid points that fails in the middle, leads in circles
  or is changed under way; an attempt that breaks off in a body. Correct: what is handed over is whole,
  what counts as complete is complete, and every call ends.
- *Encodings at their limits*: Hilbert ids, deltas, runs and leaves of a tile archive; features without a
  key or with the key of another. Correct: what was written is what is read, and a change set replays.
- *Late answers*: the user moves on while records, extents and comparisons are fetched, comes back to
  what was left (one id, another selection), and the map loads when it likes. Correct: the page shows
  one selection, the map what was asked for last, and no pick is forgotten.

`PROJECT.json` lists every hazard with the line where it bites and the properties that cover it.

## 2. Modules

| Module | Role |
|---|---|
| `CrawlScheduler` | ticks, reservations, queue, workers, operators, row locks, clock |
| `CrawlSchedulerProofs` | all safety properties of `CrawlScheduler`, most of them of one scheduler, for all constants |
| `SourceCrawl` | `sync_source` of one source against a changing site |
| `ResourceInventory` | abstract specification of a source's inventory, implemented by `SourceCrawl` |
| `SourceCrawlProofs` | all safety properties of `SourceCrawl`, and that it implements `ResourceInventory`, for all constants |
| `ArtifactStaging` | `stage_artifact` in overlapping transactions |
| `StagingProofs` | all safety properties of `ArtifactStaging` that the runs find to hold, for all constants |
| `PublishGate` | publication, georeferencing jobs, reviews, imports of one version |
| `PublishGateProofs` | all properties of `PublishGate` that the runs find to hold, for all constants |
| `PlanningSelection` | the web page: selection, answers, renders, effects, map |
| `PlanningSelectionProofs` | all safety properties of `PlanningSelection`, for all constants |
| `RobotsRules` | the cached robots.txt of one origin |
| `HttpFetch` | `fetch_url`: attempts, redirects, limits, delays, temporary files |
| `ListingWalks` | `discover` of eleven connectors, as walks over a site |
| `GridSweep` | `discover` of the two grid connectors |
| `FeaturePaging` | the paging of a layer in `fetch` |
| `TileArchive` | PMTiles: ids, directories, writer, reader |
| `TileProofs` | ids and directories turn back, archives without leaves are read as they were written, later leaves are not, for all constants |
| `QualityRules` | the quality rules, as operators |
| `LayerComparison` | import of the rows of a layer, stored comparisons of two layers |
| `SourceRegistry` | descriptors and the rows made of them |
| `MCComponents` | the parts above from `RobotsRules` on, side by side, for TLC |
| `ListingProofs` | honest discoveries of `ListingWalks`, for all constants |
| `ComponentProofs` | fetches, robots.txt, grid sweeps, paging, quality, comparisons, registry, and all parts side by side, for all constants |
| `MC...` | small instances for TLC (data for the constants, symmetry) |

### CrawlScheduler

`db[s]` is the committed row of a source, `owner[s]` the process whose open transaction holds the
row's lock, `queue` the Redis list, `tick[t]` and `run[p]` the local variables of a `scheduler_tick`
and a `sync_source` call. Times are kept as what is left of them (`ttl` until `locked_until`, `due`
until `next_check_at`, `lease` of a tick's own `now`), so `Elapse` is the only clock. A tick is
`TickStart` (`due_sources`), `TickLoad` (`_host_load`), then per source `TickSkip` (host at its cap) or
`TickSelect` and `TickReserve` (`get_or_create_state` and the stamp, which waits for the row lock) or
`TickConflict` (an INSERT that lost to another), `TickCommit`, and one `TickEnqueue` per source. A run
is `RunPop` or `RunByHand`, `RunRead` (the check of `claim_source` on what is committed), `RunClaim`
(its flush) or `RunConflict`, and `RunCommit`. `FailsAfter` is what the ORM writes: a reset to a value
the object was already loaded with writes nothing. `streak` and `mishaps` are history variables.

`up` says which schedulers and workers have a process. `scheduler_loop` catches nothing
(`scheduler.py:139-144`), so a tick that raises, by `TickConflict` or because Redis or PostgreSQL fails
(`TickDies`), ends its loop. `worker_loop` catches what a job raises (`RunDies`), but not what `blpop` or
the push to `:failed` raise (`core/queue.py:75`, `:88`), nor can it survive being killed: `WorkerDies`. In
each case a popped job is gone. `Restart` is a timer or a supervisor, which the repository leaves to the
operator (`docs/deployment-guide.md:48-50`).

What a run does between claim and commit is one step here and the whole of `SourceCrawl` there: the
row lock shown exclusive by `OneRunPerSource` is why `SourceCrawl` may take the runs of a source one
after the other.

### SourceCrawl and ResourceInventory

`site` is what the upstream site shows, `store` the committed tables, `run.txn` the run's own copy of
them. `store.res` are the rows of `source_resources`, `store.log` what the change events and
observations say of each resource, `store.artifact` how far the artifact of a body has come. Actions
are `Start`, `GatePass`/`GateBlocked` (robots), `Discover`/`DiscoverFails` (the loop over the items,
which writes rows and events), per item `FetchError`, `NotModified`, `Download` or `StageFails`, and
`Commit` (`_mark_disappeared` and `_finish`). `RunDies` rolls back. `SiteChanges` may come between any
two steps. A limited run may keep any items of the right number, as connectors promise no order.

A discovery is many requests to a site that changes. `run.shown` is what the site has shown of each
resource since the run began; a discovery may see any of it (`Walks`), a different moment for each
resource, and may leave resources out (`PassOver`, kept in `run.over`): sitemap, CKAN and the grids skip
requests that failed and do not raise. `DiscoverFails` is a discovery that raises, of which no item is
used, as well as an item that raises in the loop: those before it stay entered and are committed with the
failed run. `sources discover` is a run with `download` false, which commits like any other.

`ResourceInventory` says what a reader of the inventory may rely on without knowing how it is made.
The mapping takes the committed rows' status and body, and as evidence the bodies of which an
artifact row exists; `IsInventory` is checked as a property of `SourceCrawl`.

### ArtifactStaging

`db` are the committed tables as sets of rows, `run[r]` the transaction of one process: the rows it
has made (`new`), the versions it deleted (`gone`), and where it is in staging a file. `Visible(r)` is
what its queries see. A row names its own origin (the time its transaction began, which is what
`now()` gives to `created_at` throughout a transaction, and the file's sha), so concurrent
transactions can both enter "the same" artifact, record or version. `Stage`, `ResolveRecord`,
`ResolveVersion`, `ImportVector`, `ImportRaster`, `ReadDocument`, `ImportDocument`, `SkipPart`, `Keep`,
`Drop`, `DeleteVersion` and `Finish` are the steps of `stage_artifact` between which another run may
commit; `StageFails` is the exception a crawl catches, `RunDies` the one that rolls back, `Break` a
foreign key that refuses a flush. `objects` is the object store, which no rollback touches. `loaded`
says that the session holds a `version.datasets` with other layers in it: it is not read again, so when
`Drop` takes the second of two layers, their version still looks occupied. `dropped` and `emptied` are
history: the datasets an open transaction, and those that committed, have dropped.

A file is described by its `File` record: the title and decision its metadata resolve to, and its
parts (itself, or the members of a zip) with their layers. A layer is the sequence of its features;
`Digest` makes of it what `_vector_content_digest` does, which does not tell their order. When the
text of a document names a plan, `ReadDocument` sends the part through the resolution of record and
version a second time. A committed dataset is never changed: `_dedupe_semantic` deletes features of
the import that is still open only. That is why `LayerComparison` may take committed layers as fixed.

### PublishGate

`ds` are the datasets of one version, `job` the georeferencing job of each, `pub`, `edit` and
`review` the requests in progress. `Gate`, `BuildTile` (one query per tile), `BuildManifest`,
`Collect` (`_collect_datasets` in a session of its own inside the last transaction), `Merge` and
`Flag` are the transactions of `publish_version`; a review or an edit is a read and a write. What a
session writes are the columns whose value differs from what it loaded: `Flagged`, `EditWrite` and
`ReviewWrite` follow that, which is how an older copy can overwrite a review. The initial state picks
whether requests come one at a time (`orderly`) or overlap, so both sorts of promise are checked in
one run. `met` is history: the datasets a review of which overlapped with an edit, with another review of
them or with the last transaction of a publication; `ApprovalStands` is about all others, however
everything else overlaps. The bound `Drawn` says which datasets have a job; the code allows several jobs for one
dataset, the model one.

### PlanningSelection

`page` holds the refs and the queued React state of `usePlanningSelection`, `screen` the page as of the
last render and `ran` the page as of the last effects; `Render` and `Effects` copy one to the next, so
that clicks and answers come before, between and after them. A click uses the closures of `screen`
(`PickVersion`, `ToggleRaster`, `Compare`), an answer those of the effect or render that asked for it,
and both ask the refs in `page` whether they still count: `Listens`, `Frames`, `Accepts`,
`BeginVersion`. `SelectRecord`, `BeginVersion`, `FocusBbox`, `Load` and `Fail` are operators on a page, so that a
handler that calls two of them (`onSearchPick`) is one action. Selections are told apart by their
generation, as objects are by identity. `map` is `MapView`: what it shows and which callbacks wait for
`load`; `isStyleLoaded` is a free choice, as tiles may be loading at any time. A version stands for
its own scan, extent and publication. The map has one source per publication, so a comparison with the
one that is shown draws no overlay (`Overlay`). Comparisons may overlap because leaving the tab unmounts the form
and not its request. `asked` is a history variable.

### RobotsRules and HttpFetch

`RobotsRules` keeps one entry of `_cache` and asks for robots.txt again when it has expired; the site
changes its answer at any time, and an entry counts from when its load began. `HttpFetch` is
`fetch_url`: a call makes attempts, an attempt is refused by the guard before anything else
(`FetchRefused`) or waits its turn (`FetchTurn` is `_respect_delay` with the opening of the file), follows
redirects, is answered 304, 429 or 5xx, or streams a body chunk by chunk, and may break off anywhere.
`fetchDir` is the directory, `fetchGiven` what was handed to the caller. A 304, whether asked for or not,
leaves its empty file there, as the code does. Servers answer freely. `away` says that a redirect led to
another host.

What is promised of politeness is `AttemptsPolite`: what a crawl is told of an origin is what its robots.txt
said, and the first request of an attempt waits out its delay. A redirect asks neither robots.txt nor the
delay (`http_client.py:137-149`), and `Components_hops` shows one that goes out too soon. The requests of a discovery
(`_get_html` and others) use no delay either; they are not modelled.

### ListingWalks, GridSweep and FeaturePaging

A behaviour of `ListingWalks` is one `discover()` call of one connector over a site that the initial
state draws: sitemap documents with a seen set and a budget, numbered pages or next links with detail
pages, packages by id or by search, services with layers. Each request is a step, so is each item of
what it brought, and a request may fail: what the code then does (raise, skip, end) differs between
connectors. `ListingOffered` is what the site shows, stated without the walk: the sitemaps reached
are the least set that is closed under their children, the pages of a chain likewise. `GridSweep` asks point by point which plans lie there, then writes
a file for each, named after the plan as far as a file name takes its id (`GridName`), and `GridFetched` is
what `fetch` later copies for an item. `FeaturePaging` pages through a layer by offset, by OBJECTID, at
once or by next links, on a service that caps a page below what was asked, may not count or sort, and
changes its rows between two pages; `paging.got` counts how often each row arrived.

`_mark_disappeared` takes the list of a discovery that did not raise for the whole. `ListingHonest` and
`GridHonest` say how far it is, and their exceptions where it is not: a declared cap, the connectors that
pass over a failed request (sitemap, package ids of CKAN), and grid points that were not answered. These
are the resources `SourceCrawl` has in `run.over`.

### TileArchive

Bytes are numbers below `2 * TileBase` (256 in the code), so varints are written out; a compressed
stream is a sequence of opaque units that only the whole of it turns back into bytes; the header's
fields are carried by its first unit. Ids, deltas, the 0 that stands for "follows the last" and
runs are as in `geo/pmtiles.py` (the writer makes each run 1 and the pointers to leaves 0), and so is the splitting into leaves when the root
is too large. `TileCollect` adds a tile, `TileWrite` writes the file; `GetTile` is the reader.
The loops are recursive functions: `TileCurve` is what the rounds of `zxy_to_tileid` add, from the last to
the first, `TileWalk` the rounds of `tileid_to_zxy`; `Varint` and `Numbers` go byte by byte, `TileIdsIn`
and `TileOffsetsIn` entry by entry, and `TileResolve` leaf by leaf, to a depth of 4 at most. `TileSorted` is
the one order of distinct ids, whatever the sort. Bits are digits: `x & s` for a power of two `s` is
`(x \div s) % 2`. The metadata, which lie between root and leaves, are left out, and so is the cache of leaves,
as an archive that is open does not change.

### QualityRules and LayerComparison

A file is a sequence of rows with opaque shapes; constants say which shapes are valid, lie within the
extent, overlap or cross, and which attributes hold a date that cannot be read. `Findings` is `run_rules`
over the rules an import gives something to look at, `PersistedState` what `persist_findings` then calls the dataset and
`QualityState` what `_ingest_vector` leaves it at, as it looks for errors once more (`pipeline.py:426-427`).
A CRS is the canonical one, another in degrees (EPSG:4756, which the extent is compared with too), any
other, or not identified. `LayerImport` is `_ingest_vector` in its one
transaction: ids and keys of the features, rows that are not stored, findings put on features. A
comparison is `CompareStart` (is there a change set), `CompareRead` and `CompareStore`, each a
transaction. Nothing catches the violation of the unique index in the last: the second of two overlapping
calls raises, and the pair keeps the change set of the first.

### SourceRegistry

`registryFiles` are the descriptors, edited at any time; a job is a `sync_sources` over all of them or
the upsert at the head of a crawl, whose transaction stays open. `RegistryRead` reads descriptor and row,
`RegistryName` the authority that the descriptor names, if any, or enters it; two jobs may each enter one of the same name. A write waits for a row another job
has changed and then goes on from what it had read before, writing the columns that differ from that.

### MCComponents

These eight share no state, so a behaviour picks one of `Parts` and the others stay at their beginning;
one run then checks them all, and `FairSpec` states the fairness of the part that runs.

## 3. Runs

| Run | Instance | Shows |
|---|---|---|
| `scheduler_prompt` | 3 sources on one host (caps 1, 2, 1), 1 ticker that takes 2 a time, 3 workers, reservation of 2 clock steps, 2 mishaps, jobs done within their reservation | host caps, one job per source, exact failure counter |
| `scheduler_overlap` | 2 sources on one host, an operator, runs that outlive the reservation, 1 mishap, fairness | no two runs of a source; every tick ends; every due source is eventually crawled where what ended is started again |
| `source_cycle` | 2 resources, 2 pages, one of whose bodies has no validator, 2 changes of the site, 1 mishap, runs limited to 1 or unlimited, dry or not | journal, disappearance, 304, health, refinement of `ResourceInventory` |
| `source_converge` | 1 resource, 3 pages, 2 changes, 2 mishaps, fairness | replay finds nothing; the inventory converges |
| `staging_shared` | 2 runs, 5 files of one record (2 from earlier runs), one with two layers in a part, with and without decision, single and zipped, one a document that names a plan, 1 mishap, 4 beginnings and ends | traceability, no content lost, no redundant copies, versions left empty in one case only, nothing rewritten |
| `publish_requests` | an official layer, a scan, 1 publisher, editor and reviewer, 2 tiles, 2 edits, 2 publications, orderly and not | an approval stands for the approved points unless a review of its own was met; undisturbed: gate, flag, tiles and manifest agree |
| `web_page` | 2 records (one with 2 versions, one with none), 1 place, 4 acts of the user, 1 comparison at a time, fairness | one selection on the page, the last place wins, every pick is answered |
| `components_parts` | the eight parts of `MCComponents`, fairness | what is handed over is whole, discoveries are honest, layers exact, tiles found, change sets replay, quality is told, attempts are polite, the registry heals, every call ends |

The other runs, `source_import`, `staging_zip`, `publish_race` and `tiles_leaves`, each expect a violation of what the
repository says; they are listed under "Disagreements found". Their instances are cut down to what the violation needs.

The further configurations are kept beside the runs, each with one property that TLC finds violated. They are run by
hand (`tlc -config X.cfg M`, with the module `MC...` of the same part) and are listed there too. Two of them
contradict no sentence and only show that a condition of a property above is needed: `CrawlScheduler_alone` (without restarts one conflicting
INSERT ends the scheduler for good) and `SourceCrawl_validator` (a 304 is taken for bytes that came
without a validator, so the inventory stays behind).

### Why the bounds are enough

- *Scheduler*: the caps 1, 2, 1 differ and add up to more than the largest, and a tick takes fewer
  sources than there are; hosts do not interact, so one is enough; a reservation of two steps lets a tick, a run and a second tick
  fall on either side of its end. One mishap loses a job, a worker or a tick, a second its retry; the failure counter is cut off at 2.
- *Source*: two resources let one be limited away, fail or disappear while the other does not; pages
  differ in URL, metadata and bytes separately, so each kind of event occurs alone; two changes make a
  resource disappear and reappear or change there and back, also past a body without a validator; a mishap is
  a refusal, an error, a death, or one resource that a discovery passes over. For convergence resources do
  not interact, so one is enough.
- *Staging*: the files repeat a layer in the same and under another version, bring it in a new state,
  come alone or in a zip, two to a part, in another order of their features, and next to a scan or a document; two runs and four beginnings and ends give overlap, sequence,
  and a third comparison against what the first two left.
- *Publication*: two publications make a dataset already public, two tiles let a dataset arrive
  between them, two revisions of control points can come before, during and after a review. The proofs
  have any number of requests.
- *Web page*: four acts are the shortest way to pick a record, start something, leave, and come back
  before the answer; a record without versions is what nothing replaces. Two pending comparisons of one
  record have no promised order, so one is enough. The proofs need none of these bounds.
- *Robots, fetch*: an entry lives 3 ticks and a load takes up to 2 tries, so it can expire while it is
  loaded; bodies are below, at and above the limit; 2 attempts, 1 redirect and 2 calls let a file of
  one attempt or call be confused with another's.
- *Walks*: sitemaps that list each other and themselves, 3 pages whose next links end, circle or go
  back, a cap of 2 below what there is, budgets of 2; two points that share plans, and three plans, two of which have one file name.
- *Paging*: tables of 0 to 3 rows in and out of order against pages of 2 and caps of 1 to 3, so that
  tables end on, before and after a page; one change between any two requests.
- *Tiles*: up to 3 tiles of zooms 0 to 2 in any order (the smallest Hilbert curve with turns in both
  levels), neighbours with equal payloads and one without bytes; bytes in base 4, so that ids and
  offsets need one and two of them.
- *Layers*: 13 files, among them one that makes each rule speak, with missing and repeated keys and every
  kind of CRS; two comparisons, in either direction.
- *Registry*: two syncs and a crawl over two sources that share an authority or have none, one edit between.

### Fairness

- `Elapse`: time passes. `TickStep`, `RunStep`: a process goes on while there is one: `scheduler_loop` ticks
  for ever and `worker_loop` pops for ever. Strong fairness of the steps that wait for a row lock:
  PostgreSQL serves waiters in the order they came. Nothing obliges an operator to start a run.
- Neither loop survives everything: the scheduler's catches nothing, the worker's only what a job raises. That
  something starts them again is no fairness of the code but an assumption of its operator, and stands in the
  properties: `DueEventuallyRuns` holds where schedulers and workers are again and again up (`KeptUp`),
  `TickEnds` where some worker is (the job list is bounded in the model). Of the two ways in
  `docs/deployment-guide.md:48-50` an external timer that calls `scheduler tick` is such a restart; for `scheduler loop` and
  the worker the repository configures none, and `CrawlScheduler_alone` shows what comes of that.
- `SourceCrawl`: a started run goes on (weak fairness of its steps), and complete runs that download
  are started again and again between others (strong fairness of that one `Start`), which is what
  `DueEventuallyRuns` shows of the scheduler. Convergence needs the site to stop changing and mishaps
  to stop: both are bounded, nothing else is assumed.
- `PlanningSelection`: React renders and runs effects, and a request is answered or fails; the user
  owes nothing and stops at the bound.
- `MCComponents`: the client goes on, since httpx times out what is not answered, and time passes; the
  server owes nothing. Walks and sweeps go on for the same reason. A change of a layer's rows is not
  fair, and bounded.
- `scheduler_overlap` has caps that fit both sources: with a cap of one, priority order can starve the
  second source for ever, by design of the code.

### Disagreements found

By runs that expect a violation; `PROJECT.json` quotes the sentences:

- `source_import`: `stage_artifact` takes any row with the sha256 for a finished import, so an import
  that raised is recorded on the resource and skipped from then on.
- `staging_zip`: `_dedupe_semantic` deletes a version while later members of the zip still need it;
  the foreign key breaks the run each time this file comes.
- `publish_race`: datasets that arrive, or lose their approval, between the gate and the last
  transaction of `publish_version` are made public unreviewed.
- `tiles_leaves`: leaves are addressed one by one and compressed as one stream (`geo/pmtiles.py:235-247`);
  an archive that needs leaves, which `docs/system-architecture.md:60-61` lists, cannot be read.

By the further configurations:

- `CrawlScheduler_slow`: "Per-host concurrency: reservations+live locks are counted" (`scheduler.py:13-15`), but a
  reservation expires under a slow run, whose claim nobody sees, so the cap does not hold for runs.
- `CrawlScheduler_claim`: `claim_source` "raises ConflictError when already claimed" (`crawl.py:112`), but a claim is
  not visible before the run ends, so a second run passes the check. It waits for the row lock, which still excludes the two
  from each other (`OneRunPerSource`, proved).
- `CrawlScheduler_counter`: the row is to answer "how many consecutive failures" (`core/models/crawl.py:8-10`), but of two
  runs that meet and fail, one is not counted (`crawl.py:614`).
- `SourceCrawl_gone`: "Resources not rediscovered on a *complete* run are marked disappeared" (`crawl.py:536`), but a run is
  complete when `discover` did not raise, and sitemap, CKAN and grids pass over requests that failed.
- `SourceCrawl_discover`: "`sources discover` never mutates" (`docs/crawler-operations.md:145`), but it commits rows,
  events and disappearances like any run, and leaves out the fetches only.
- `ArtifactStaging_layers`: "The now-empty version is deleted too" (`pipeline.py:836-837`), but of a GeoPackage of two
  repeated layers it stays, as the cached `version.datasets` is not read again.
- `ArtifactStaging_twice`: "one sha256, one artifact" (`docs/data-provenance.md:22`), but two overlapping runs enter two.
- `PublishGate_points`: "job already approved — create a new revision" (`georef_service.py:52`), but an edit that
  read the job before the review replaces the points the review approved.
- `Components_hops`: "per-host crawl delay" (`http_client.py:10`), but a redirect within a host goes out at once.
- `Components_names`: for every plan a boundary "carrying the verbatim API fields" (`sqhkt_grid.py:14-17`), but two plans whose
  ids differ in characters a file name drops share one file, and both are imported with the boundary of the one written last.
- `Components_outage`: "a sweep that found nothing because requests failed is a failure" (`ekgis_grid.py:215-216`),
  but answers with another status than 200 are not counted as errors, so an outage lists nothing.
- `Components_keys`: `resource_key_for` promises a "stable identity" (`crawl.py:92`), yet all layers of a
  WFS or WMS get the key of the service's URL (`ogc.py:79`, `:132`).
- `Components_guess`: "Features whose geometry can't be canonicalised ... are validated but not persisted"
  (`pipeline.py:346-348`), but `_transform_geom` stores the geometry of a layer without a CRS as it came.
- `Components_compare`: "Compute (or return cached) ChangeSet" (`compare.py:147`), but the second of two overlapping
  comparisons of a pair raises.
- `Components_authority`: an upsert is to "Make sure the `sources` row for `source_key` exists" (`sources.py:237`), but two that overlap enter an
  authority twice, after which every upsert that names it raises (`sources.py:183-187`).

Noticed while modelling, and not stated as properties: numbered HTML pages that end in a 404 make every
discovery raise; the grid connectors use a new temporary directory each sweep, so every boundary counts
as moved (`url_changed`) each time; `_get_html` does not use the delay it is given; sitemap, portal and
file list an item twice when it is shown twice.

## 4. Proofs

`CrawlSchedulerProofs` (any constants that satisfy the assumptions in `CrawlScheduler`):

- `TypeCorrect`: `Spec => []TypeOK`.
- `RunExclusion`: `Spec => []OneRunPerSource`. Exclusion alone is not inductive: nothing in it
  says why a run may proceed. The invariant `Safe` adds `RunHoldsRow`, that a run past its claim owns
  its source's row; a row has one owner, so two running runs of a source are the same run.

and, under `OneTicker` (one scheduler):

- `ReservationsCapped`: live reservations of a host never exceed the largest cap of its sources, at
  any speed. The invariant `CapInv` relates the tick's load to the reservations that are live or about
  to be (`LoadCounts`): other steps only let reservations expire or be released, so a load that is too
  old is too high, never too low. `LockedBelowCap` carries the check made at the SELECT to the stamp.

and under `Orderly` (one scheduler, no reservation expires before its job is done, nobody starts runs
by hand):

- `RunsCapped`, `JobsUnique` and `ReservationsEligible`. The invariant
  `JobInv` says that a job that exists anywhere has a live reservation (`JobsReserved`), is in one
  place (`JobsOnce`), that what a tick has read stays due and free (`PlanIsFresh`), and that a row a run
  owns is the row of the source it is crawling (`OwnerRuns`). Running sources then have live
  reservations, so the cap on reservations carries over to runs.

and for any schedulers, operators and reservations again:

- `CountsKept`: `FailureCounterExact` holds until two runs of a source meet, that is, are both past the
  check of `claim_source` (`RunsMeet`). A run writes a count it computed from the row as it was when it made
  that check. `CountIsFresh` says that this row still has the committed count: only commits of runs write counts
  (`WhoCounts`), and the one that could have come in between is a run that was met. `CountInv` is kept by
  every step before such a meeting (`CountInvNext`).

The assumptions are not for convenience: with two tickers both may reserve a source, and
`CrawlScheduler_slow` and `CrawlScheduler_counter` are what happens when a run outlives its reservation and when runs meet.

`PublishGateProofs` (any datasets, requests and tiles):

- `TypeCorrect` and `FlagsGated`, however requests overlap: `Gated` adds to the types that a publication
  without `allow_unreviewed` found everything passed (`GatePassed`) and that a request that has begun
  points at a dataset.
- `ApprovalsStand`, however requests overlap: `Approving` says that each dataset not in `met` is `Firm`, i.e.
  an approved one has an approved job, and what an edit or a review in progress has read of it is still so. The last
  transaction of a publication counts as an overlap because its `Flag` writes back what it loaded. `PublishGate_points`
  shows an approval that was met and does not stand.
- `PublishedIsReviewed` and `ArchivesAreWhole`, for requests that come one at a time
  (`orderly`). The invariant `Ordered` says that at most one request is under way (`Alone`) and, for each
  kind, that what it has read is still so (`EditFresh`, `ReviewFresh`, `PubFresh`); the writes then do
  what the reads assumed. `publish_race` shows what becomes of `PubFresh` when requests overlap.

`PlanningSelectionProofs` (any records, versions and places, any number of acts):

- `TypeCorrect`, with `Chain`: effects trail renders and renders the page, each with a selection that is
  the same or older, which is what tells a stale closure from a current one.
- `OneSelection`: `Shown` adds that a record whose answer is awaited has neither data nor error
  (`Awaited`: it is answered once), that the page still has what the screen has of the same record
  (`SameRecord`: a picked version is one of the loaded ones), and `Owned`: a comparison is of its record.
- `PlaceStands`: `PlaceKept` says that after a place was asked for, the frame requests of the record and
  of the version are both outdated; `CameraFollows` that the camera is at the bounds last applied.
- `MapIsCurrent`: `Drawn` says that what does not wait for the map has been drawn.
- `ComparisonsStand`: an action property, from the types and the check of `onCompare`.

`SourceCrawlProofs` (any resources, bodies, pages, limits; a site that changes at any time):

- `CrawlTypeCorrect`, `EventsExplainRows`, `DisappearsOnlyUnseen`, from the invariant `Observed`.
  `Journaled` says of the committed tables and of the open transaction alike that the events say what
  the rows say (`Explained`) and that what a resource is said to contain has an artifact (`Held`): only
  so can a commit replace the one by the other. `TouchesSeen` says that a run has touched just the
  resources it has seen and has lost no body; `Shown` that what a full discovery has not seen was
  absent at some moment of the run or was passed over. `SourceCrawl_gone` shows why the second must be said.
- `CrawlImplementsInventory`: `Spec => IsInventory`. A `Commit` is an `Observe` of the abstract
  inventory, with `TouchesSeen` to show that the rest of the rows stand; every other step stutters.
- `NotModifiedIsHeld`, under `Tagged` (bodies that come with a validator come with different ones): by
  `Validators` the validator of a row is the one of its body, or the body came without one and the row has
  kept an earlier one (`res.etag = result.etag or res.etag`). A 304 may then be taken for bytes the row does not hold, but in
  no other case; `SourceCrawl_validator` shows that case, in which the inventory stays behind.
- `ReplaysFindNothing`, of runs that pass nothing over: `Pictured` says that a complete run during which the site stands has the site's
  picture in its transaction, but for the bytes it has yet to fetch; `Replaying` that, as long as the site
  stands as such a run has left it, the tables are that picture and every later run, of whatever kind,
  leaves its transaction as it found them. Both rest on `Mirrors` (the row says what the site
  shows) and `Current` (the next fetch is answered 304, or brings the same bytes without a validator).
- `HealthIsTold`: `Telling` says that `changed` is set exactly when a row of the transaction differs from the
  committed one, and that what is yet to be fetched has the body it had, so that a run of many steps
  compares each resource with what was committed and not with its own work.

`StagingProofs` (any processes and files; transactions that overlap, fail and die):

- `StagingTypeCorrect`, `ResultsAreTraceable`, `ImportsAreKept`, `HistoryStands`, from the invariant
  `Sound`, which says of every transaction what the properties say of the committed tables: its rows
  have their artifact in it and point at versions and records that are committed or its own (`TxnSourced`); the
  parts it is done with are held by what is committed or its own (`TxnKeeps`); what it is yet to compare
  is its own, each dataset once (`TxnTodo`). The last conjunct says that nothing hangs, in whatever
  transaction, on a version that a run is deleting: without it a commit could take a version from
  under another run's dataset. `Drop` takes away a dataset only when another of the same record says the
  same, so every part stays held, and by `TxnTodo` the dataset is not listed once more. Assumed: `FileAssumption` (layer
  names are distinct within a part) and `EarlierAssumption` (earlier runs left tables that keep the
  same promises, made at time 0).
- `CopiesAreDropped` and `VersionsAreDropped`, from the invariant `Settled` on top of `Sound`. A dataset is
  known by its times, so `Numbered` and `TxnTimed` say that the moments of runs are numbered, each by
  one run. `TxnInOrder` says that a transaction stages a file once and its parts in order, hence that a
  dataset was compared with everything committed before its run began; `TxnNovel` that what was compared
  and stays says something new against the last of these, unless the layer came once more in its own run
  or in one that overlapped with it. The unless is part of the property too, because READ COMMITTED
  promises no more.
- `VersionsAreDropped`, for parts of any number of layers: a version that lost a dataset and stays has something
  else on it, unless one run dropped several layers of one part of it. `TxnLeft` says so of a transaction
  under way: each version it has dropped of is `Covered`, i.e. has something on it (`Occupied`), lost several layers of a part
  (`Several`), or is deleted or about to be (`Pending`). The exception is the code's: `_dedupe_semantic` asks `version.datasets`
  (`ingest/pipeline.py:887`), a collection the session has loaded for the first layer and does not load
  again. `ArtifactStaging_layers` shows the empty version it leaves.

`ComponentProofs`, for fetches (any bodies, sizes, delays, limits, numbers of attempts, redirects and calls):

- `FetchTypeCorrect` and `FetchedIsWhole`, from `FetchInv`: a call under way is one of the calls and
  its attempt one of the attempts (`FetchNumbered`), nothing was handed over under the name of a file
  that is still to come (`FetchFresh`), and the file of the attempt holds what it has received
  (`FetchReceived`).
- `FetchesPolitely`, of the first request of each attempt: the stamp of a host is as old as the last visit under a delay (`FetchStampTrue`).
- `RobotsAreHonoured`: an entry that counts is what the origin says, or said until a moment from which
  the entry does not outlast `RobotsTTL` (`RobotsEntryTrue`).

`ListingProofs` (any sites, filters, caps and budgets; any request may fail):

- `ListingTyped` and `WalksHonest`, from `WalkInv`, which says of each connector how far its walk has come,
  in one form: what is listed, with what passes of what is still ahead, is what passes of
  all there is to the walk. For documents and feeds (`DocumentWalk`) that is the list itself; for packages
  and services (`NestedWalk`) the current list, the lists held and those behind the next request.
  `SitemapWalk` says that the documents seen and those waiting hold the roots and the children of every
  document seen, and only what can be reached: when none waits, the seen ones are closed, so they are the
  least closed set that `ListingOffered` speaks of, whatever circles the sitemaps make. `HtmlWalk`
  says that the pages read are a prefix of the chain, or of the numbers up to the first empty page;
  `PortalWalk` the same for the portal's pages and the detail links held. `FoundOnce` ties the list to the
  set of what was seen. Each conjunct gives way where the code does: `lost` where a failed
  request is passed over, `capped` where a limit ended the walk.

`ComponentProofs`, for the rest (any descriptors and jobs; layers, shapes and rules; servers, tables and page sizes; grids):

- `RegistryTyped`, `RegistryHealed`: `AuthoritiesThere` says that rows committed or in hand name an
  authority that is there or being added; `QuietIsFaithful` that a job which nothing has met has made
  what is behind it match its files and has read what is still so of the next (`Faithful`). Of jobs that overlap, nothing is
  promised: a crawl that read an old descriptor may write it back after a later sync.
- `LayersTyped`, `DatasetsTold`, `DifferencesReplay`: `LayerInv` says that a layer is what its import makes
  of its file, that a call which has read its layers has views of *them*, and that a stored change set is the
  difference of two such views, one for each pair. Everything the properties say then follows from the
  operators alone. A change set replays for files whose rows have names of their own; of rows that share one, two
  views may pick different ones. A call that raises has found the pair's change set stored by another.
  `DatasetsTold` takes in dates that cannot be read and layers in any CRS.
- `PagingTyped`, `PagesExact`: `PagingInv` says, by kind of paging, which rows have arrived: the first ones
  as long as nothing changed (`OffsetGoes`, `LinksGo`); by OBJECTID every row that stayed up to the last id,
  and none beyond, however the layer changes meanwhile (`OidGoes`). The induction over a batch goes
  by a least id not yet covered (`LeastNumber`).
- `GridTyped`, `SweepsHonest`: while points are asked, the plans found are what the points that answered
  show and the errors are counted (`GridAsks`); while items are made, a plan is listed or still to be
  (`GridLists`). What is fetched for an item is of a plan of that file name, which need not be the item's own
  (`Components_names`).
- `PartsStand`: side by side the parts behave as each does alone (`Spec` of `MCComponents` implements each
  part's specification), so all of the above holds of the composition. `AttemptsArePolite` and
  `DiscoveriesAreHonest` are the two properties that span parts: the second says which discoveries list the whole
  source, and its exceptions are what `SourceCrawl` has as resources passed over. `ComponentsTyped` and `TilesAreFound` carry the types and
  what is said of tiles below over to the composition.

`TileProofs` (any base, sizes, payloads, limits; any tiles of zooms 0 to 26):

- `IdsTurnBack`: the loop of `tileid_to_zxy` undoes that of `zxy_to_tileid`. The two go in opposite
  directions, and the one down mirrors the whole square where the one up mirrors what it has built so
  far. `CurveInverse` bridges that: `j` rounds of the curve, begun at `p`, give a number below
  `4^j`, and `j` rounds up from that number, whatever is added above it, lead to `p` modulo `2^j`. One round is
  `TurnBack`; a mirrored number modulo a divisor of the square's side is the mirrored rest
  (`RestMirrored`). `LevelOfId` finds the zoom. Hence ids are distinct (`IdsDiffer`).
- `DirectoriesTurnBack`: a directory reads as it was written, as long as its ids do not descend. A varint is
  read back whatever follows it (`VarintRead`), so the bytes are the numbers (`NumbersRead`); ids are the
  sums of their deltas (`IdsRead`), and an offset 0 gives the end of the entry before, which is what was meant (`OffsetsRead`).
- `TilesTyped`: from `TileInv`, which says that an archive is the file of distinct tiles. It takes the leaves
  in: the chunks are never empty and their first ids do not descend (`Chunked`), so the root of pointers is
  a directory too.
- `TilesFoundByRoot`: `TilesFound`, as long as the root holds all entries (`TileRootHolds`: the serialized
  directory is within `TileMaxRoot`). The payloads follow one another at the offsets of their entries
  (`FlattenPlaces`), the parts of the file at those of the header (`PartsFollow`), what is read there is what
  was put there (`BlockRead`), and the search in ascending ids finds an id's own entry and no other (`SearchFinds`).
- `LaterLeavesLost`: the condition is needed. When the root has no room for the entries, looking up any
  address whose id is in a leaf behind the first (`TileInLaterLeaf`) raises. A directory is never empty, so such a
  leaf's pointer is behind the first unit of the one stream all leaves are in (`PointersSay`); what is read from there
  begins inside the stream or in the payloads (`LeafCut`), which is no stream (`CutUnreadable`), and a search
  that ends at such a pointer raises (`SearchRaises`). `tiles_leaves` is such an archive. It rests on the model
  of gzip: only a whole stream, and nothing more, is turned back.

The functions of `TileArchive` are recursive, and no prover here does induction over an operator.
`RecursionExists` proves once, from finite sets of naturals, that a function exists whose values are given by
those at smaller arguments (`Recursive` packs the conditions into one predicate); each recursive
function then has a lemma with its equation, and what would be an induction goes by a least counterexample (`LeastNumber`).

No run repeats what `ReservationsEligible`, `FlagsGated`, `MapIsCurrent` and `ComparisonsStand` prove. `ListingWalks` has
parentheses around a `UNION` to the left of `\cap`: the tools disagree on what such an expression
means without them.

Only model-checked:

- everything about liveness (`DueEventuallyRuns`, `TickEnds`, `Converges`, `EveryPickIsAnswered`,
  `CallsEnd`), which the provers do not reach;
- what a tile archive with leaves gives at the ids of its first leaf: nothing is promised there, see `tiles_leaves`.

Every invariant and action property of a passing run is stated by a theorem, some under the conditions
named above.

## 5. Not modelled, and why

- *Geometry* (`geo/` but for PMTiles): GDAL, shapely and floating point; shapes are opaque, and constants
  say what the code is told of them. Of the quality rules those are left out that an import gives
  nothing to look at; the dates of a version are parsed before it is entered, those of rows are modelled.
- *Parsing*: what a listing's text, a PDF or an OCR result is turned into (titles, hints, decision
  numbers) is an input of the models.
- *Metadata origin and supersession of versions*, information codes, the fields of a document, and
  the provenance events, review tasks and findings entered with a row: nothing modelled reads them.
- *Security checks* (`check_url_allowed`, unpacking of zips): a refusal is one of the ways a fetch fails.
- *A server that stops sending ETags* and a listing that is transiently empty: behaviours of the outside
  world against which the code promises nothing.
- *Coverage, search, provenance graph*: queries over committed rows. *API, CLI, MCP*: thin handlers.
  *Review tasks*: one row, one write.
- *The rest of the page*: `VersionDetail` with its manifests and metadata snapshots, point queries, and
  the panels that show one answer; `SearchBox` and `ComparePanel` keep no request number, so the order
  of their own tables is nobody's promise.

## 6. Plan

Done, in this order: `CrawlScheduler`, `SourceCrawl` over `ResourceInventory`,
`ArtifactStaging`, `PublishGate`, `PlanningSelection`, the parts of `MCComponents`, and the proofs of their
safety. To come:

1. `VersionDetail` and `MetadataSnapshotDownload`: the panel of one version, with manifests, prepared
   and cancelled snapshots, and the point query of the map.
2. Further pure algorithms, each against a reference definition over bounded inputs: `next_check_at`,
   `_health_after`, the origin lattice and supersession, coverage.
