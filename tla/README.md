# Verification of astroburst-server

TLA+ models of the astroburst server (`src/src/server`), of the image cache it uses
(`src/src/infra/cache.rs`), of its companion modes (tunnel and dashboard), of the desktop commands that
share the process's state (`src/src/cmd`), and of the file formats and image algorithms all of them call
(`src/src/infra`, `src/src/core`, `src/src/math`); the TLC configurations that check them; and TLAPS
proofs.

## 1. The system

`astroburst-server` is an HTTP server (axum on tokio) that keeps *sessions*. A client creates a session,
opens FITS or ASDF files into its image cache, derives further images, asks about pixels, and starts
background jobs (stacking, drizzle, calibration pipeline) whose results land in the same cache. A
companion mode (`connect`) keeps an SSH tunnel to a remote server up; another (`tui`) is a terminal
dashboard. The desktop commands (`cmd`, built with the feature `tauri` only) work on one process-wide
cache and an output directory instead of sessions. Under both lie file formats (`infra`) and numerics
(`core`, `math`).

| Component | State it keeps | Operations | Interacts with |
|---|---|---|---|
| Session table (`session.rs`, `state.rs`) | `DashMap` id -> `Arc<Session>`, `last_accessed` | create, delete, TTL cleaner | every request, jobs (are any Running?) |
| Extractor (`extractors.rs`) | the `Arc` a request holds | look up, touch | session table |
| Jobs (`job.rs`, `handlers/{jobs,stacking,pipeline}.rs`) | per job: status, pct, completed_at, cancel token, SSE channel; server-wide semaphore | start, cancel, poll, stream; the blocking closure | session registry, image cache |
| Image cache (`infra/cache.rs`) | LRU map, byte count, stamp counter behind a `RwLock` | get, get_or_load(_full), upgrade_header, insert_synthetic, invalidate, clear | handlers, closures, desktop commands |
| v2 image refs (`v2/images.rs`, `bin.rs`, `cutout.rs`) | ref counter, metadata map, active ref | open, hdu, bin, cutout, list | image cache |
| Activity log (`activity.rs`, `v2/sessions.rs`) | a ring of 200 events per session and a global one, sequence numbers | record (middleware), history | session table, active ref |
| v2 files (`v2/fs.rs`) | none of its own; a request's open file | list, exists, raw (ranges, compression) | a disk that changes, clients that resume |
| Tunnel (`connect.rs`) | attempts, back-off, ssh child | supervise | dashboard, by events |
| Dashboard (`tui/`) | selection, detail, modal; a poller thread | apply snapshot, apply tunnel event, key | HTTP interface, tunnel |
| v2 queries (`pixel`, `region`, `stats`, `histogram`, `wcs`, `inspect`, `export`, `render`), v1 `fits`, `render` | none | read one cached image | image cache |
| Composite commands (`cmd/compose`, `cmd/processing`) | six pinned cache entries, previews in the output directory | compose, blend, restretch, calibrate, reset, patch, export, clear | image cache, directory |
| Result commands (`cmd/processing`, `cmd/io`, `cmd/export`) | cache entries, result files named after their source | stretch, denoise, crop, background, debayer, export, ... | image cache, directory |
| Settings and plate solving (`infra/config.rs`, `infra/astrometry`) | the settings file | load, update, save; upload, poll, rescale | astrometry.net |
| FITS (`infra/fits`) | none | scan, choose and decode an image; write; compress; unpack archives | everything that opens a file |
| Image algorithms (`core`, `math`, `infra/render`) | none | statistics, scaling, stretches, stacking, drizzle, debayer, cubes, ... | the endpoints, jobs and commands |

What is hard, and what makes each part correct:

* **Sessions.** The cap check and the insert are separate; the cleaner decides about a session while
  requests touch it and start jobs in it, and removes it later without a second look; requests keep using
  a session whose id is gone. Correct means: the cap is overshot by a known amount at most, an id that
  died stays dead, a job that was there all along protects its session, abandoned sessions go.
* **Jobs.** A closure on the blocking pool, cancels and polls read and write the fields of a job one at a
  time, and a panic may end the closure anywhere. Correct means: permits are conserved, success is never
  reported before the result is there, reports do not go backwards, a subscriber sees every event however
  late it comes, every stream ends.
* **Cache.** Readers write recency stamps under a shared lock, loaders run outside the lock and two may
  load the same key; eviction is by count and by bytes and must spare pinned keys. Correct means: to its
  callers the cache is an atomic partial map, its byte count is exact, it evicts the oldest.
* **Refs.** Opening an image is naming, caching, recording and activating, in four steps between which
  other requests run and clients disconnect. Correct means: a ref never changes its image, metadata tells
  the truth, the active ref is listed, a request is answered with its own image.
* **Activity.** The middleware records after the handler has answered, with what it reads then; a bounded
  ring overflows while its poller is away. Correct means: a poller sees every event or can tell that it
  missed some, and a request nobody interferes with is logged with its own image.
* **Raw files.** A file is statted, then opened or compressed by name, and streamed over a link that
  breaks; the client resumes at an offset. Correct means: ranges are those of RFC 9110, an exchange ends,
  and a copy of a file that was still is the file.
* **Tunnel.** Links fail, remote servers restart and local ports are contested in any order, while the
  pane that shows it all lives on events from another thread. Correct means: the retry budget is kept and
  used up in finite time, no ssh is left behind, the pane follows, a usable link leads to a live tunnel.
* **Dashboard.** Snapshots race a selection that moves by keys and by earlier snapshots. Correct means:
  what is drawn fits together, a live session keeps its selection, the display becomes current.
* **Desktop commands.** Each runs on a thread of its own, in many accesses of a shared cache and
  directory that nothing brackets. Correct means: without an overlap a composite is whole and what is
  shown is what is held; a result and its cache entry agree; pixels and header come from contents the
  file really had; a failure leaves the composite as it was, where it does.
* **Settings, plate solving.** The settings file is emptied and rewritten in place; a service delays,
  fails and forgets. Correct means: one command at a time changes one field, an answer is the solution of
  this upload in this image's pixels, and a solve ends.
* **Formats and algorithms.** Boundaries: constant blocks, values at the width of their type, missing
  pixels, even counts, parity of offsets, sizes that do not divide. Correct means: what is written reads
  back as it was, parts are exactly the pixels asked for, fast methods agree with slow ones, calibration
  undoes what the instrument did.

`PROJECT.json` lists every hazard at its line with the properties that cover it.

## 2. The modules

| Module | Models | Checked by |
|---|---|---|
| `SessionServer` | session table, extractor, job start and cancel, semaphore, TTL cleaner | `MCSessionServer`, proofs |
| `JobLife` | what a job promises: the abstract specification | as a property of the next two |
| `JobCell` | one job in full: closure, status cell, cancel, poll, SSE | `MCJobCell`, proofs |
| `ImageStore` | what a cache promises: an atomic partial map | as a property of `ImageCache` |
| `ImageCache` | the cache at the granularity of its lock | `MCImageCache`, proofs |
| `ImageRefs` | the ref protocol, over an `ImageStore` | `MCImageRefs`, proofs |
| `Activity` | the rings, the recording middleware, the pollers | `MCActivity`, proofs |
| `RawServe` | `GET /v2/fs/raw` with a changing disk and a resuming client | `MCRawServe`, proofs |
| `Tunnel` | `connect --tui`: supervisor, ssh child, probes, event channel, tunnel pane | `MCTunnel`, proofs |
| `Dashboard` | the dashboard's poller thread and UI loop | `MCDashboard`, proofs |
| `Composite` | the commands that share the composite | `MCComposite`, proofs |
| `Results` | the commands that turn a file into another | `MCResults`, proofs |
| `PlateSolve` | the settings file and the plate solver | `MCPlateSolve`, proofs |
| `FitsFile`, `MefWriter`, `ImageFile`, `Rice`, `TileTable`, `Inputs` | HDUs and the choice among them; the compressor; 16-bit scaling and header cards; Rice bits; tiles and their table; archives, loaders, listings, globs | `MCAlgorithms` |
| `Regions` | parts of images: regions, cutouts, boxes, bins, previews, crops, indices | `MCAlgorithms`, proofs |
| `Statistics`, `Rendering` | statistics, clipping, histograms, zscale; pictures, stretches, tile pyramids | `MCAlgorithms` |
| `Stacking`, `Debayer`, `Cube` | calibration, rejection, drizzle, batch pipeline; both debayers; cubes eager and lazy | `MCAlgorithms` |
| `Fractions` | exact rational arithmetic for these | `MCAlgorithms` |
| `...Proofs` (8) | theorems about the module they are named after; `ClientProofs` about `Dashboard` and `Tunnel`, `CacheProofs` about `ImageCache` and `Results`, `PartsProofs` about `RawServe` and `Regions`, `SharedStateProofs` about `Composite` and `SessionServer` | TLAPS |

How they compose: `SessionServer` sees a job only as a `JobLife`, `JobCell` implements `JobLife`, and
both facts are checked and proved (`ImplementsJobLife` in both modules). `ImageRefs` is built on
`ImageStore`'s actions, which `ImageCache` implements (`ImplementsImageStore`, proved). So the results
about sessions and refs hold of the code with the detailed job and cache in place. `Composite` and
`Results` use one access of the cache as one step for the same reason. `MefWriter` is
built on `FitsFile`, so that what it writes is read by the model of the reader.

Operators named `Faulty...` are variants of the definition they precede with one plausible mistake; no
specification uses them. `PROJECT.json` pairs each with the property that notices it.

### 2.1 SessionServer

| Variable | Code |
|---|---|
| `table`, `minted` | keys of `AppState.sessions`; all ids ever inserted (`Uuid::new_v4` does not repeat) |
| `age` | ticks since `Session.last_accessed` |
| `pc`, `arc`, `target` | where each request is, the `Arc<Session>` it holds, the job a cancel is about to mark |
| `owner`, `running`, `worker`, `permits` | `Session.jobs`, `Job::is_running`, the closure's life, `job_semaphore` |
| `cleaner`, `cursor`, `todo`, `expired`, `elapsed` | the cleaner's loop: program point, entry under its guard, entries left, `expired`, ticks since `now` |
| `spanning` | auxiliary: jobs Running since the scan began |

`CheckCap`/`InsertSession` are the two halves of `SessionManager::create`; `Resolve`/`Touch` of the
extractor; `CheckRunning`/`MarkCancelled` of `cancel_job`; `BeginScan`, `CheckJobs`, `ReadLast`,
`EndScan`, `Evict`, `EndSweep` are the cleaner between its awaits and table accesses. `WorkerBegin`,
`WorkerSettle`, `WorkerExit`, `WorkerPanic` are the closure. An insert or remove in the shard whose guard
the cleaner holds waits (`ShardFree`).

Abstractions: `DashMap::len` and `has_active_jobs` are read at one moment (the code adds up shards, or
walks the job registry); permit, registration and spawn are one step, since no other thread can tell them
apart except by a scan that misses the new job, which `CheckJobs` before `StartJob` already is; the clock
is a tick counter; a 503, 404 or 429 changes nothing and is not a step; `created_total` is left out.

### 2.2 JobCell and JobLife

`kind` chooses the closure of `stack`/`drizzle` (events 0, 90; one slot) or of `pipeline::run` (events 5,
15, 25, 90; several slots). `status`, `pct`, `completed` are the fields of `Job`, each load and store a
step: `set_done` is `SetDone`, `SetFull`, `StampDone`; `job_json` is `ReadStatus`, `ReadPct`,
`ReadCompleted`. `Store` is `insert_synthetic` of an output, which may take any of the earlier ones out of
the session's cache, `PutOther` an insertion by anyone else, which may take any of them out; which of them
go is `ImageCache`'s matter. `displaced` is auxiliary. The slots of one job are taken to be different
names. `chan` and `rx` are the mpsc channel with its receiver, parked in the job until a
subscriber takes it. `Panic` ends the closure while the numerics run. That is a build that unwinds; under
the release profile (`panic = "abort"`, `Cargo.toml:103`) a panic ends the process with all its sessions,
which is no step of any run but `composite`.

### 2.3 ImageCache and ImageStore

A section under the write lock is one action. A section under the read lock is two, `DrawStamp` and
`StoreStamp`, because readers overlap; a writer waits for all of them (`WriteLock`). `Load` runs without
the lock; `CommitFound` and `CommitPut` are the second look and `put`. `Evicted` says in closed form
which entries an insert pushes out; the loop of `put` and `evict_lru` is `Survivors`, and
`EvictsTheOldest` checks that they agree. `fresh` is auxiliary. Arrays are model values with a size;
`usize` overflow of the byte count is out of reach of real arrays.

### 2.4 ImageRefs

Requests name a ref (`Name`), have the cache load or compute the image (`Loaded`, `Binned`), record it
(`Register`, `RegisterBin`) and make it active (`SetActive`); `Disconnect` drops a handler at an await
and leaves its blocking task running (`OrphanLoads`). `FirstHdu` stands for a request that names no HDU.
An image is known by the file and HDU its pixels come from and whether they are derived; the geometry of
bins and cutouts is in `Regions`.

### 2.5 Tunnel

`pc` is where `supervise` is: `spawn`, `await` (the first `await_health`), `start`, `again` (the second),
`judge` (the match on the answer), `wait` (for the child), `sleep`, `over` (a fatal event was sent) and
`aborted` (the `?` on a failed spawn). `attempt`, `backoff`, `announced` are its locals, `events` the
mpsc channel, `phase` the pane's `TunnelPhase`. The environment is `net`: the link, the remote server,
and whether another process has the local port; `child` is ssh. `HealthyElsewhere` is a healthy answer of
a server that is not behind this tunnel; the code sees `Healthy`. Left out: lines that only reach the
pane's log, the count of reconnects, version comparison, argument parsing.

### 2.6 Dashboard

The poller is one action per request (`FetchHealth`, `FetchList`, `FetchDetail`), between which the
server and the UI move on; `FetchDetail` stands for `/images` and `/history`. `polling` is what it has so
far, `snaps` and `wakes` the two channels, `published` is `PollControl.selected`. The UI loop is `Apply`
for each queued snapshot, `Publish` and draw, one key, and a blocking `SendDelete`. Lists are sets of
numbers, because `v2/sessions.rs` sorts the list. Left out: tabs, scrolling, global activity, latency,
the header's error line.

### 2.7 Activity

`live` is the session table, `active` each session's active ref, `nextSeq` and `events` the
`ActivityInner` of each ring. A handler is two steps: `Start` finds the session and reads which image it
is to work on (`target_ref`, or the active ref of `switch_hdu`), and later, after its awaits, it answers:
`AnswerOpen` (open, hdu, bin, cutout) sets the active ref, `AnswerUse` does not, `HandleFailure` fails.
`Refuse` is a request the extractors turn away, `HandleGlobal` one without a session. Then comes the
middleware: `FindSession` resolves the session once more or finds it gone (`SessionGone`), `Attribute`
reads the body's or the active ref, `RecordSession` and
`RecordGlobal` append. Clients hang up at an await (`Disconnect`). A poller (`poll`) asks for what came
after the last number it knows, with or without a limit (`EventsSince`; `After` is the filter by number).
`own` (what the request works on, then what it made) and `disturbed` are auxiliary. Timestamps, methods, parameters and the body cap's bytes are left out; whether a
body is short enough to be looked at is a choice.

### 2.8 RawServe

`pc` and `req` are the handler: `Stat`, `Open` or `Compress` (to an unlinked temporary file), `Respond`
(headers), `Send` (one read of the stream), `EndOfStream`. `disk` is the inode the path names, `length`
the length of each. The disk resizes, replaces or deletes the file at any moment (`Resize`, `Rename`);
the link breaks (`Break`). The client is external: it makes one request with any range, or copies by
resuming from where it stopped. `fresh` records that the disk has kept still.

### 2.9 Composite, Results, PlateSolve

A desktop command is a *program*: the sequence of accesses it makes of the cache, the directory and the
disk, each a step (`Program`, `Step`, `At`). Any number of commands run at the same time, as the tauri
runtime runs them. In `Composite`, `cache` is the six entries (three channels as composed, `orig`, and as
shown, `key`), `files` the previews with the time of their last write (`nth`, of which only the order
matters: it is what `enforce_output_lru` sorts by); an image is known by the step that made it and its size, which is
what indexing can fail on. In `Results`, `disk` and `cache` map paths to contents, a half-written file is
`Broken`, and results are named by the stem of their source, so that two sources may share one. A file is
not read or written in one step: `OpenFile` opens and maps it, the reading steps (`Read`, `ReadHeader`,
`ReadFull` and so on) decode what it has had since (`seen`), `Create` empties it in place, `Write` ends it,
and others may do any of this in between. Who has a file open when another creates it anew is `torn`: it
decodes a content the file had, parts of several (`Mixed`), or nothing, or the process ends at a page that
is gone (`Die`, with everything that was cached); two writers of one file may leave parts of both. Reading
to the end instead of mapping (`ASTROBURST_IO_MODE`, network mounts) has the same outcomes without the
last. `Crop` is `crop_channels_cmd` for one path and the default branch: given several it loads them all
and writes their outputs in turn, with the sweep of `resolve_output_dir` before each, so that a later one
may remove the output of an earlier; `ResultsAgree` says nothing of that, nor of `bin_ids` and `persist`. In
`PlateSolve`, `file` is the settings file as the pieces it consists of, so that a cut-off write shows;
`jobs` is what the service has, which starts and ends jobs when it likes and loses requests; coordinates
are doubled integers, so that half pixels are exact, and the scale is counted in a unit that every
downsampling factor divides (`Scale`, 12 in the run). `alone`, `found`, `mixed`, `torn` (of
`PlateSolve`), `had` are
auxiliary. What the pixels become is in the modules of 2.10.

### 2.10 Formats and algorithms

Functions without state are operators, and `MCAlgorithms` calls them: a behaviour is one call, `asked` is
what the caller passes, `answer` what it gets, and the properties compare the two, or the answers of two
functions. Pixels are small integers, `NaN` or fractions; nothing is rounded where the code rounds only
by the width of a float, and what a float conversion does on purpose (16-bit scaling, nearest level,
truncation to `u16`) is modelled. Deviations are compared squared, so that no root is needed. `Curve`
stands for gamma, arcsinh and logarithm: any rising function that keeps both ends. Loops over rows are
over one axis where the other is treated alike. Modules:

* `FitsFile` the HDUs of a file and their scan; `MefWriter` the multi-extension compressor (which HDU is
  dropped, copied or compressed how, the report, `select_best_image_hdu` and the decoders on what came
  out); `Rice` the coder bit by bit; `TileTable` the tiling, the table with its heap, gaps and marks;
  `ImageFile` writing and reading pixels and headers; `Inputs` nested archives, the loaders and their
  fallbacks, `list_dir`, `stat_path`, globs.
* `Regions` pixel and sky regions with clipping, bins, boxes, cutouts, crops, previews, boundary
  handling. It has its own calls (`RegionSpec`, of requests of any size) and statements, so that they can
  be proved as they are checked; `MCAlgorithms` makes the same calls with small requests.
* `Statistics` exact and histogram statistics, sigma clipping, histograms, zscale; `Rendering` scale
  limits, shades, overlays, the automatic stretch, the v1 viewport, hyperbolic stretches, grayscale
  files, pyramids.
* `Stacking` masters, calibration, rejection, drizzle, the batch pipeline and its command; `Debayer` both
  methods; `Cube` the eager and the lazy reader, collapses, spectra, the plane cache, the spectral axis.

## 3. The runs

| Run | Instance | Distinct states | Shows |
|---|---|---|---|
| `session_server` | 2 session ids, 1 job, 2 requests, cap 1, 1 permit, TTL 0 ticks, at most 1 tick per scan | 420k | how far the cap is overshot, permits, removal, expiry, `JobLife`, no deadlock |
| `job_cell` | both kinds, 2 pipeline slots, 1 canceller, 1 poller, 2 subscribers | 379k | what polls and streams report, `JobLife` |
| `image_cache` | 3 keys (1 pinned), sizes 1 and 2, 2 entries, 3 bytes, 2 callers | 85k | accounting, recency, eviction, `ImageStore`, no deadlock |
| `image_refs` | 3 requests, 2 files, 1 HDU, generated names only, 3 refs | 268k | refs are immutable, listed, answered with their own image |
| `tunnel` | all `connect` options with budgets 0, 1, 2 and none; back-off 1, 2, 3; channel of 2 | 39k | budget, what the pane shows, recovery |
| `dashboard` | 2 sessions that come, change once and go; channels of 1 | 368k | coherence, selection, currency |
| `activity` | 2 requests, 1 session and the global ring, 2 refs, rings of 2, limit 1, 3 events per ring | 2.38M | the ring, its pollers, attribution |
| `raw_serve` | 2 inodes of up to 3 bytes, renditions of up to 3, 2 breaks, 2 changes of the disk | 518k | ranges, exact copies, exchanges end |
| `composite` | 2 threads, 2 commands of 14 kinds, sizes 1 and 2, previews by index above 1, 1 file kept | 1.09M | the composite, its previews, failures |
| `results` | 2 threads, 2 commands of 11 kinds, one image debayered at a time, two images of one stem in two directories | 1.64M | what is cached and written, while files are open |
| `plate_solve` | 2 threads, 2 commands, 2 polls per loop, upload factors 1 and 2, 1 crash | 191k | the settings file, whose answer it is, solves end |
| `algorithms` | every function with small input sets (below) | 418k | section 2.10 |

Why the bounds are enough to be interesting. Cap 1 with two ids and two requests lets creators race the
cap and lets an id be evicted while another lives; one permit makes the semaphore run dry; one tick
during a scan is the case that `now` is older than an access. Two subscribers are first and second; 2
slots make the store loop partial. `ChannelCap` is the real 256, which at most six events cannot fill.
Three keys with two entries of unequal size make both limits bind, a pinned key makes eviction stop
short; two callers on one key are the double load. Three requests and three refs let one open, one derive
and one switch at the same time. In `activity` three events overflow a ring of two while a poller is away
and a limit of one cuts its answer. In `raw_serve` three bytes have a start, a middle and an end; two
breaks let a copy be resumed inside a resumed part; two changes let a file go and come back. `Composite`
and `Results` interleave every pair of commands at each of their accesses, which is every race there is
between two of them; of two images debayered at once (four files each, which would be more than half of
all states) `OneDebayer` lets only one be, and the theorems speak of any number. Size 2 lies above and size 1 at the preview's limit. A solve polls twice, so that an
answer may come at the first, the last or no poll.

The inputs of `algorithms` are chosen at the boundaries of each function: files with up to two extensions
of every kind, whole, cut or with something after them; Rice blocks at the ends of 8 and 16 bits; regions
from off the image through every overlap to off its other side; up to four or five pixels with missing,
equal and outlying ones, odd and even counts; every Bayer pattern and offset with holes; two frames of
each kind for the pipeline, with exposures that are missing or not; archives nested one level beyond the
limit. The constants that only set a scale are made small: two bins of a histogram, refined once (`Bins`,
`Large`), four samples of zscale, a white of 4, a `MadToSigma` and `KRej` of 3/2, numbers and texts of
three columns, a batch and a sample of two planes.

Other bounds: `MaxScan` (ticks per scan), `MaxMinted` (refs), `MaxSeq` (events), `MaxCommands`,
`MaxBreaks`, `MaxChanges`, `MaxCrashes`. `AgeCap` saturates ages above every threshold that is compared.
The cache's stamps grow for ever; the run identifies states that differ only in stamps of the same order
(`VIEW UpToOrder`; the code only compares them). `image_cache` uses symmetry among callers and among
unpinned keys, `image_refs` among requests and among files, `activity` among requests and among refs,
`composite` and `results` among threads; none of them checks liveness. In `Tunnel` and `Dashboard`
`MaxQueue` and `MaxSnaps` make a sender wait where the real channel would grow, `AttemptCap` saturates a
count that is only compared with smaller budgets, `MaxWakes` saturates wakes, of which a second one only
causes one more poll, and `MaxVersion` bounds how often a session's content changes. The environment of
these two can always move, so that the absence of deadlock says nothing there; their liveness properties
do. `CHECK_DEADLOCK FALSE` is said where the system rests: when its clients, commands or events are used
up (`activity`, `composite`, `image_refs`, `plate_solve`, `raw_serve`, `results`), when a job is over and
nobody listens (`job_cell`), after the one call (`algorithms`).

### Fairness

`SessionServer`: weak fairness of the clock, of the cleaner's task and of every closure: the tokio
runtime schedules a spawned task, the blocking pool runs what it was given, and the numerics end. Nothing
is assumed of requests. `JobCell`: weak fairness of the closure, of the second half of a cancel (no await
in between) and of the delivery of a connected stream; a client may leave at any time and need not come.
`RawServe`: weak fairness of the handler, and of a copying client that asks again or concludes; the link
breaks a bounded number of times. `PlateSolve`: weak fairness of every command's steps, since threads run
and every request to the service ends (the HTTP client's timeout of 300 s); nothing is assumed of the
service. `ImageCache`, `ImageRefs`, `Activity`, `Composite` and `Results` are checked for safety only.
`Tunnel`: weak fairness of each step of the supervisor and of the UI thread; strong fairness of the
deadline, which passes whatever the link does meanwhile; an ssh handshake ends one way or the other, and
keepalives end an ssh whose link stays down. A `good` link is one over which ssh comes up within
`TUNNEL_READY_TIMEOUT`, a `slow` one need not. `Dashboard`: weak fairness of both threads, whose waits
are bounded (1 s, 100 ms), and strong fairness of `Publish`: the poller makes requests between two
snapshots, so that draining the channel ends. Nothing is assumed of the user, the server or the link.

## 4. Where the code and its documents disagree

The modules keep the statement of a document that the code does not satisfy as a definition of its own,
next to the property that does hold; no run checks it.

* `SessionCap`: `config.rs:21` calls `session_max` a hard limit. Check and insert are separate
  (`session.rs:131`), and concurrent creators exceed it. `OvershootBounded` gives the true bound, and it
  is proved.
* `NeverEvictRunning`: `SERVER.md:166` says sessions with a running job are never evicted. A job that
  starts after the cleaner looked (`session.rs:163`) is running when its session goes; the job finishes
  invisibly. The part `SpanningJobProtects` of `RemovalIsSound` is what does hold, and it is proved.
* `CancelIsFinal`: `handlers/jobs.rs:72` and `SERVER.md:334` make the task responsible for the
  cancellation token; none looks at it, and `set_done` (`job.rs:75`) overwrites Cancelled.
* `RefsAgree` with explicit names: opening another file under a cached name answers with the old pixels
  and records the new file as their source (`images.rs:166`, against `session.rs:25`). With generated
  names only (`image_refs`, `Names = {}`) the property holds.
* `AnnouncedThroughTunnel`: `connect.rs:78` and `:246` describe an Up event as a healthy `/health`
  through the tunnel. A probe (`:564`) asks whoever has the local port, and both ends default to 8097:
  with a local server running, `connect` announces that server, its ssh exits for want of the port, and
  the two alternate. The part `LostRaceIsVisible` of `Settles` is what holds.
* `stacking.rs:63` has the result available under its slot after the job completes. It is an unpinned entry
  of the session's cache: another request's entry may displace it at any time, before Done is stored as
  well, and the later channels of a pipeline may displace the earlier ones. `SuccessIsStored` is what
  holds: all have been put, and the last is there unless somebody else has put an entry since; it is proved.
* `SelectionPinned`: `app.rs:224` pins the selection unless its session vanished. A failed poll carries
  an empty list and drops it (`:227`). `PinnedWhileAlive` is what holds: successful polls keep it.
* `LoggedWithOwn`: `activity.rs:47-50` says an event's `image_ref` is the ref the request made or
  addressed. It is the active ref at the time of recording, which another request may have set since the
  handler read it (`v2/stats.rs:70`, `v2/bin.rs:52`) or set it. `OwnWhenUndisturbed` is what holds, if no
  other sets it in all that time, and it is proved.
* `OneFile`: `fs.rs:7-8` promises the exact bytes of the file. A copy resumed after the file was replaced
  is composed of both; there is no ETag or If-Range. `fs.rs:56-57` has a range refer to the rendition,
  which is made anew for every request.

Also seen, by part:

* *Jobs, tunnel, refs.* A closure that panics (where panics unwind) leaves its job Running for ever, and
  with it the session, which the cleaner then never evicts. `AbandonedExpire` is therefore about sessions
  without a Running job. A failed spawn of ssh returns from `supervise` without the Fatal event that
  `connect.rs:527` and `tui/mod.rs:60` promise, so the pane stays at Connecting or Reconnecting (the last
  case of `PaneFollows`). With `--max-retries 1` a tunnel that was up and dropped is never retried, since
  `connect.rs:640` compares with `>=` and the first attempt counts; `WithinBudget` holds all the same. A
  wake after a key is sent before the new selection is published (`tui/mod.rs:140`, `:132`), so the poll
  it causes may fetch the old session's detail and the new one's comes a second later. `SERVER.md:668`
  says `source` is null for bins; `bin.rs:139` copies the parent's. `export_compressed` and `structure`
  of a bin use the parent's file.
* *Composite.* Overlapping commands mix the channels of two composites, and abort the process where the
  sizes differ (indexing out of bounds under `panic = "abort"`). Compose and blend can report a failure
  after they have replaced the composite; opening an RGB file replaces it; a channel patched in is lost
  by the next calibration or reset, which start from the originals; automatic white balance may take some
  channels from `orig` and others from `key`; the sweep of `composite_png_path` deletes the preview
  another command is about to answer with; blend does not use the directory that `resolve_output_dir`
  fell back to; calibration reports `scnr_applied` even where it was skipped for unequal sizes.
* *Results.* An entry is not invalidated when its file is written again; `upgrade_header` can pair the
  new header with the old pixels, and `export_fits` the header on disk with cached pixels; sources of
  equal stem overwrite each other's results; a background result that is not saved is lost on eviction; a
  failed write leaves half a file. A result file is created anew in place (`writer.rs:314`) with no
  regard to who has it mapped or is reading it (`file_bytes.rs:132-149`, `reader.rs:541-555`): a command
  that reads the result of an earlier one while that is being made again may go on with, and cache, parts
  of both, or end the process by a bus error; two commands that write one file may leave parts of both.
  `OnlyWhatTheFileHad` is therefore about which file's contents are used, and says that parts of several
  come up in that case only and never of an image of the user's, which no command writes.
* *Settings and plate solving.* A crash or an overlap between truncation and write leaves `config.json`
  unreadable for good, and overlapping updates lose one. The configuration is loaded twice within one
  solve; `plate_solve_timeout_secs` is not used; one failed poll gives up a solve that runs on; without
  downloaded headers CRPIX is set for the original and then rescaled once more.
* *Regions and pictures.* `region.rs:66-69` guards by a sum that wraps in release builds, as does `x + w`
  of the v1 viewport; the viewport's automatic stretch takes its parameters from the crop and its range
  from the whole; crosshairs of binned pictures are rounded; binned pixels of sides that do not divide
  overlap.
* *Statistics.* `is_valid_pixel` and `is_finite` are both in use for which pixels count; a constant or
  reversed range makes a histogram of zeros; the median of an even count is the mean of the middles in
  one place and the upper or lower middle in others.
* *Stacking.* `calibrate_image` does not check sizes and panics where `calibrate_light` skips the master;
  `lights_after_rejection` holds counts of rejected samples; nothing is rejected in the batch pipeline
  where the MAD is 0; a shift by whole pixels spreads NaN over four; L is ignored once channels had to be
  cut.
* *FITS.* A constant image written at 16 bits is read back as another value; parsing drops COMMENT and
  HISTORY; `set` on a duplicated key changes its first card; `filter_header` leaves the index unfiltered;
  quotes within a text are not doubled, numbers over 20 characters are cut; a `-64` image with GZIP_2
  cannot be read by the program's own reader; a cube whose SCI extension is compressed makes the reader
  show another image; data of the primary HDU can be lost (against `mef_writer.rs:3`); unpadded tails,
  trailing bytes and 64-bit integers fail compression, the first by a panic; keywords that begin with Z
  are dropped; heap offsets wrap beyond 2 GiB.
* *Files and archives.* Archive members of one base name overwrite each other and are listed twice;
  failures in nested archives are skipped and leave partial files; the companion `.fits` is tried by one
  loader only; `list_dir` describes links by `DirEntry::metadata`, which does not follow them; a `*` in a
  pattern meets a `*` in the name literally, so that `*` does not match `*a`.
* *Cubes.* The lazy reader ignores BLANK, the eager one has no overflow check, and statistics of 64 or
  more planes are sampled.

## 5. The properties

Each is stated in its module with a comment. Some are conjunctions of named parts (in parentheses).

* Safety: `OvershootBounded`, `PermitsConserved`, `SuccessIsStored`, `StreamIsComplete` (`NothingMissed`,
  `OneSubscriber`, `CompleteIsLast`), `BooksAreRight` (`Accounting`, `StampsDistinct`,
  `EvictsTheOldest`), `RefsAgree` (`MetaNamesSource`, `ActiveIsListed`), `WithinBudget`, `NothingStale`
  (`PaneFollows`, `NoneLeftRunning`), `Coherent`, `LogIsTold` (`RingIsTail`, `SeenOrTold`),
  `OwnWhenUndisturbed`, `ServedExactly` (`RangesFollowRFC`, `ExactCopy`), `CompositeIsSound`
  (`WholeComposite`, `AbortNeedsOverlap`, `OutputBounded`), `OnlyWhatTheFileHad`, `AnsweredRight`
  (`OwnSolution`, `InOriginalPixels`).
* Of functions: `RenditionFaithful`, `FilesComeBack`, `RegionsExact`, `MeasuredRight`,
  `PicturesFaithful`, `FramesRecovered`, `InputsAgree`, each over one group of modules and with one part
  per function.
* Actions: `RemovalIsSound` (`DeadStaysDead`, `SpanningJobProtects`), `FreshOutlive`, `OneImagePerRef`
  (`RefsAreImmutable`, `AnsweredWithOwn`), `PinnedWhileAlive`, `ShowsWhatIsHeld`,
  `FailureKeepsComposite`, `ResultsAgree`, `SettingsKept` (`SettingsReadable`, `OneFieldChanged`).
* Liveness: `AbandonedExpire`, `PermitsComeBack`, `ClientsLearnTheEnd` (`ReportsAdvance`,
  `SettledIsStamped`, `StreamsEnd`), `Settles` (`Recovers`, `BudgetEnds`, `LostRaceIsVisible`),
  `BecomesCurrent`, `CopyEnds`, `Ends`.
* Refinement: `ImplementsJobLife` (twice), `ImplementsImageStore`.

`TypeOK` stands in the modules whose proofs need it, as part of the inductive invariants.

## 6. The proofs

The `...Proofs` modules assume what the named assumptions of their module say of its constants, and
nothing else. Each proves an inductive invariant and from it the properties; there is one lemma per
conjunct or per group of actions, and one step per action. `IInv` is that invariant unless another name
is given. Sums, recursive functions and the numbers of events need induction: it is done by a minimal
counterexample, from the well-foundedness of `<` (`Least`).

`SharedStateProofs`. Of `SessionServer`, for any finite sets of sessions, jobs and requests and any cap, number of permits
and TTL: `TypeCorrect`, `PermitsAreConserved`, `OvershootIsBounded`; `RemovalSound`, an action property;
`JobsLiveTheirLife`, the refinement of `JobLife` by every job of the table. `IInv` is `TypeOK`,
`PermitsConserved` and `OvershootBounded` with what they need to be inductive. `CleanerInv`: the cleaner
holds an entry exactly while it awaits, and its collected ids are non-empty only in a scan or sweep.
`JobsInv`: only a registered job runs, and its request had a session. `ScanInv`: an id that is collected,
or under the cleaner's guard, has no spanning job; this carries the check made during the scan to the
removal long after it. `CapInv`: the table and those about to insert are bounded together. Cardinalities
go through `FiniteSetTheorems`.

Of `Composite`, for any finite set of threads, any commands, sizes and bound of the directory:
`SoundComposite` (`CompositeIsSound`), `ShowsHeld` and `FailureKeeps` (the two action properties). Nothing
of these is inductive alone, as each speaks of the end of a command or of a moment without one.
`CompositeInv` says what holds in the middle. `AloneInv`: a command that is alone has not changed the cache
before the step from which on it changes it (`Chg`). `SureInv`: if nobody else writes to the cache,
because the command is alone or is the one writer of a composite that is not mixed, what it has put there
is there, what it has removed is not, what it has read it still holds (`Agrees`), and channels it has made
are of one making (`Same`). `WholeInv`: until writers overlap there is at most one, the composite is whole
(`Whole`) except within the six steps in which it replaces it (`Replacing`), and all that was read has one
size (`OfSize`), which is why indexing cannot fail. `PictureInv`: how a command's picture is named, and
that the directory holds no other composite once it has been swept by one that is alone. `CountInv` counts
a thread that is about to add a picture as if it had; without it a step of `Render` could exceed the bound
from a state that meets it. As in `Results`, all commands are proved at once from what their order of
steps has in common (`Shape`): the argument needs that what may fail comes before the first change (but in `compose` and `blend`), that
the six changes are adjacent, that a picture is rendered from channels read before. Each action is first
brought to one of five forms (`Goes`, `Fails`, `Aborts`, `Leaves`, `Joins`), and the conjuncts are shown of
these.

`JobCellProofs`, for any stages, slots, cancellers, pollers and subscribers: `SuccessMeansStored`,
`StreamsAreComplete`, `PollsAdvance` (the safety part of `ClientsLearnTheEnd`), `CellIsAJob`. `IInv` says
what each program point of the closure has stored and sent so far (`WorkInv`, `SentInv`, `CompleteInv`),
with whatever the cache drops in between, who holds the receiver (`RxInv`), and what a poll that is under way may have read (`PollInv`): torn reads
are ordered because the cell only advances (`CellAdvances`).

`CacheProofs`. Of `ImageCache`, for any keys, sizes, limits and callers: `CacheIsAStore`, the refinement of
`ImageStore`; `Books`, that the byte count is the sum of what is held, within both limits, and that the
closed form `Evicted` is what the loop of `put` and `evict_lru` removes; `FreshEntriesOutlive`, an action
property. A step under the lock maps to the atomic operation, stamps do not show (`StampsDoNotShow`), and
what is evicted is a set `ImageStore` may forget (`PutKeeps`). `CallInv` says that what a caller holds
came from the map or its own load, and that no stamp is stored while a writer is in. `BookInv` is the
account itself; what it takes is that a sum over a set splits in two (`SumSplits`, from the recursion the
library defines the sum by, which `RecursionExists` shows to have a solution), and that dropping the
oldest entries one by one ends at the newest set that fits (`KeptFit`, `LoopEvicts`). `StampInv`: stamps
are distinct, and what was used since the last insert is newer than what was not, or has a reader about to
stamp it with a stamp newer than those (`FreshNewer`); this is what concurrent readers could break.

Of `Results`, for any threads, images and set of its commands: `OnlyWhole` (`OnlyWhatTheFileHad`) and
`AloneAgrees` (`ResultsAgree`, an action property). `ResultInv` is the types, `SoundInv`, `OpenInv` and
`AloneInv`.
`SoundInv`: a file written to its end and an entry of the cache are contents their path has had; a thread
about to read a header has an image to give it to, and one past its computation has an output, so that no
pixels of the source are cached in the name of a result. `OpenInv`: what a thread may find in the file it
has open is among the contents that file has had; one whose file is torn is reading or writing it, is not
alone, and the file is known to have been mixed, which a writer in that state passes on to the readers
that come later (`LeavesOpen`). `AloneInv`: while a command runs alone, nobody
else is busy, every file and entry it has written is as it left it, and the file it has just created is
still there to be written. All commands are proved at once:
`Shape` states what the argument needs of a program (it loads before its output begins, no file is
written twice, an entry is put last, a header is read only after a look-up that found an image), the
lemmas `Shape_...` establish it for each command (and `Paired`, that a file is written in the step after
the one that created it), and from then on nothing else of the programs is used. A command added
to the program is covered once its shape is proved.

`ImageRefsProofs`, under generated names (`Names = {}`): `RefsAlwaysAgree`, `OneImageForGood`. `OwnInv`:
a ref that was minted belongs to the one request that minted it until it is recorded; `SourceInv` and
`TargetInv`: what a request remembers of the image it derives from is still true when it records it,
because refs are immutable. The proof fails where the code does: with an explicit name `OwnInv` is not
preserved.

`ClientProofs`, about both parts of `connect --tui`. For any set of budgets below a cap, any back-off
schedule and channel length, of the tunnel: `BudgetIsKept`, `NothingIsStale` and the types. `TunnelInv`
adds to these properties `MayRetry` (before another spawn there is budget for it; without it a spawn
could exceed the budget) and `Tried` (past the first spawn an attempt is counted, which tells Connecting
from Reconnecting). Two lemmas carry the channel: sending decides what the pane will show
(`ShownAfterSend`), applying does not change it (`ShownAfterApply`).

For any number of sessions and any bounds on the channels, of the dashboard: `AlwaysCoherent`, `Pinned`
and the types. `Coherent` is nearly inductive by itself: it needs that the first and last entry of a
non-empty list exist (`MinExists`, `MaxExists`). `Pinned` needs `InOrder`: the lists on the screen, in
the channel and being built came from the server in that order, so each misses of the earlier ones only
sessions that are gone. It holds because ids are not used twice and there is one poller;
`InOrderServer` is its stability under whatever the server does. The code offers the first as version-4
UUIDs, the second as one thread.

`ActivityProofs`, for any capacity, sessions, requests and pollers: `PollersLearnAll` (`LogIsTold`) with
its first part `RingHoldsTheTail`, and `LoggedWithOwnImage`. The ring needs one fact about sequences, that
appending and dropping the head of a tail leaves a tail (`KeptIsTail`). For the pollers, `PollInv` says
that what each has seen and what it has been told it missed do not overlap, and, if it asks without a
limit, are together all numbers up to the last it knows; it rests on `AfterTakes`: filtering a ring
by number gives the end of it, of the length one expects, and the limit takes the newest of those
(`NewestIsTail`). Attribution needs `OwnInv`: from when a request has read the active ref, or has set it,
and while no other sets it, the active ref is the request's own.

`PartsProofs`, for files of any length, any renditions and any number of breaks and changes:
`ServedExact`. `ResolvedIsSelected` is the arithmetic of `ParseRange` and `Resolve`: a start and a length
are exactly the positions RFC 7233 selects. `IInv` speaks of a disk that has kept still: from the stat on
the handler knows the length of what is served (`KnowsFile`), its answer is the one of the range
(`AnswersRange`), a prober has the part sent so far (`ProbeHas`), and a copier has a prefix of the file
that ends where the current answer has got to (`CopyHas`), which is what makes it right to resume from
the length of the prefix. The steps are `PartGrows` (one byte more) and, at the end of a copy, that an
open range reaches the end of the file (`OpenRange`).

`PartsProofs`, for images and requests of any size: `RegionsAreExact` (`RegionsExact`, all seven parts).
A region is treated by axis (`AxisIs`): as long as the far edge fits an i64 it is the sum, although the
cast of the side may have wrapped (`FarIs`), and then what is cut, clamped and counted is an intersection
of two intervals. Bins and previews rest on what a quotient is, for a divisor that is not known
(`QuotientAtMost`, `UpAtMost`, `RestIs`): a block runs from the first pixel its share touches to the last
(`BlockIs`), a preview rises with its row because it is no longer than the image (`ScaledUpRises`), and the
factor of a picture is the least that makes it fit (`ShownIs`). Crops rest on an extreme of every finite set
of numbers (`SmallestNumber`, `GreatestNumber`). The arithmetic is exact, as in the model: where the code
multiplies in floating point, the theorem speaks of the sizes at which that is exact.

`PlateSolveProofs`, for any commands, factors, polls and deaths of the process: `SolvedRight`
(`AnsweredRight`), `SettingsSurvive` (`SettingsKept`, an action property) and the types. The solver's half
is `SolveInv`: the service gives no job to two submissions (`JobsInv`), and each solver's submission, job
and, past the end of the job, its success are those of one entry of the service; what it has of the
answer so far is in the pixels of the image uploaded until the last step rescales it, and then in those
of the original (`RescaledRight`; this is where a scale the factors divide is needed). The half of the
settings file has no invariant as long as two writers may be in at the same time, and the code allows it;
so both of its parts are conditional, as the property is. `WriteInv`: until a write was cut off or
overlapped, at most one thread is between emptying the file and writing it, the file is empty exactly
then, and otherwise absent or readable. `AloneInv`: a command that has run alone so far finds in the file
what it has to find at each of its steps (`Keeps`), which makes the field it changed the only one that
differs in the end.

Only model-checked: every liveness property (under fairness, outside the prover's reach), and all of
`algorithms` but `RegionsExact`: the other functions are folds and recursive functions over data, about
which the prover has no induction.

## 7. Plan

Done: `SessionServer`, `JobLife`/`JobCell`, `ImageStore`/`ImageCache`, `ImageRefs`, `Tunnel`, `Dashboard`,
`Activity`, `RawServe`, `Composite`, `Results`, `PlateSolve` and `Regions`, with proofs; the other
algorithms, model-checked. Next: the remaining exact parts of the numerics, which are
`core/metadata/header_discovery.rs`, the linear part of `core/astrometry/wcs.rs` and triangle matching in
`core/alignment`.

## 8. Not modelled

* Sky projections (`wcs.rs`), Fourier transforms, PSF fits, wavelets, photometry, affine registration and
  synthesis: what could be wrong in them is the rounding of floats, of which exact arithmetic says
  nothing. Where such a result is used (an offset, a projection), it is an input of the model.
* `v2/wcs.rs`, `v2/inspect.rs`, `v2/export.rs`: JSON and CSV over one cached image. Router, errors,
  configuration and entry point: tables.
* ASDF: a format without state; what callers do with its failures is in `Inputs`.
* Metadata, analysis and synthesis commands: they read one image and answer. Progress and IPC: plumbing
  of a desktop front end. The Python client and the examples: clients of the HTTP interface.
* In what is modelled: response bodies and wording, PNG encoding, DEFLATE (a lossless box), the Gaussian
  and Lanczos kernels of drizzle, the dashboard's tabs and scrolling, the planes a running cube command
  exports, the API key's own file.
* The number of runtime threads is not modelled, so that a guard held across an await
  (`session.rs:152-157`) could block executor threads is not checked.
