# smARTmatch in TLA+

TLA+ modules of the parts of smARTmatch where several processes, the database and the
file system meet, and of the algorithms whose results are written there; the TLC
configurations that check them on small instances; and proofs checked by TLAPS. Paths
such as `scrapers/orchestrator.py` are relative to the repository's root (`src/` in
`PROJECT.json`).

    tlc -config MCImageCleanup.cfg MCImageCleanup        # one run
    tlapm ImageCleanupProofs.tla                         # one module of proofs

`PROJECT.json` names, for every definition that models code, the lines it stands for;
for every property, a mutation of a mapped definition that breaks it; and the hazards the
properties are aimed at. Definitions whose comment begins with *Mutant:* are such
mutations and no part of a specification.

## 1. The system

smARTmatch looks for stolen or lost artworks in the catalogues of auction houses.
Scrapers download catalogues and images into PostgreSQL and an image store; a pipeline
ranks candidates among the lost artworks for every auction image, compares the images,
extracts, normalizes and compares the descriptions and writes match scores; a frontend
shows the matches. Images nobody needs any more are deleted. A daemon reports daily to a
central receiver.

    supervisord ── keeps up ──> dashboard ── starts by hand ──┐
        │                                                     ▼
        └──> scraper scheduler ── starts a batch ──> workers (source scrapers)
                 │ runs first                          │ image files, rows, links
                 └──> image cleanup ──────> PostgreSQL + image store
                      deletes files,          ▲               │
                      marks rows              │               ▼
              pipeline scheduler ── blocking, matching,     telemetry daemon ──> receiver
                                    metadata stages

The processes share no memory. They meet in PostgreSQL (row, table and advisory locks,
triggers, unique keys), in the image store (a directory under one `flock`,
`shared/image_storage_lock.py`), in the pipeline's files, and through signals and exit
codes.

### Components

| Component | State it keeps | Operations | Meets | Hard because | Correct when |
|---|---|---|---|---|---|
| **Image cleanup** `scrapers/image_cleanup` | quarantine with journals, `image_file.cleaned_up_at`, its transaction | inventory, stage, mark, commit, purge, undo, recover | image writers (store lock), pipeline (table locks), server | a file system and a database that must agree across crashes; COMMIT with unknown outcome | bytes are given up exactly when their rows are committed, and never for a protected image |
| **Image blocking** `matching_pipeline/image_blocking` | candidate parts, embedding cache, `is_embedded` | select a batch, load, embed, rank, write or reuse parts, mark | scrapers, image matching | hours between reading a row and writing about it; files that outlive the run | the mark and every file are about the recorded bytes; everything pending is selected in the end |
| **Image matching** `matching_pipeline/image_matching` | `match_score`, processed flags, feature cache | compare, lock and validate, upsert, finalize | scrapers' transactions, triggers | a transaction against row changes, locks taken late, aggregate scores | no score or verdict of older bytes or an older lost corpus survives; failure is not rejection |
| **Scraper database interface, schema triggers** `scrapers/db_interface.py`, `db/init-production` | images, links, flags, scores, `lost_content_revision`; artists, auctioneers, experts | record bytes, relink, invalidate; look up or insert | every scraper, blocking, matching, cleanup | triggers see their statement's snapshot; open transactions race for names | what depended on replaced bytes is reset; a lot refers to rows that exist |
| **Scraper runs** `scrapers/orchestrator.py`, `run_lock.py`, `worker.py` | `scraper_run` rows, advisory lock session | acquire, insert, scrape in batches behind a fence, record, reconcile | other workers, dashboard, server | the lock lives in another session than the work, and is lost or kept independently of the process | one run at a time, entries counted once, no row stays at running |
| **Source scrapers** `scrapers/<house>`, `scrapers/utils` | the lots found, the queue, an open batch | purge, discover page by page, scrape lots, images, commit | sites, scraper runs | pages move, repeat, fail or are empty; partial downloads | the queue is what was read; a failure loses no row or link |
| **Scraper scheduler, worker, launcher** `scrapers/scheduler.py`, `process_launcher.py`, `supervisord.conf` | next trigger, children, reserved places | trigger, cleanup, batch, reap; reserve, start, watch | runs, cleanup, dashboard | places must be given back on every path; programs that restart or cannot | places cover workers; every trigger gets its batch |
| **Pipeline scheduler** `scripts/run_pipeline_scheduler.py` | cycle, health, process group of a stage | start a stage, poll, terminate, clean up, report | stages and all their descendants | processes fork, detach, ignore signals and are adopted while /proc is read | stages run alone; matching uses fresh candidates; failures stay visible; a stop ends it |
| **Metadata extraction, normalization, matching** `matching_pipeline/metadata_*` | two marks per row, files between steps, metadata part of the score, indexes in memory and in a pickle | read a batch, extract, normalize, write; stream, score in threads, mark | scrapers, image matching | rows change while a stage holds them; indexes loaded by racing threads | a mark stands for what the row says; exactly the pairs that deserve it are kept |
| **Telemetry daemon and delivery** `telemetry/daemon.py`, `delivery.py`, `database.py` | ledger row per UTC date, worker child, workspaces | claim, deliver, retry at start-up, kill | receiver, database | a crash between claim and answer, alarms that are not acted upon | one operation per date; the daemon reaches its daily work |
| **Telemetry sync** `telemetry/sync_*.py` | inventory and data pages, budgets | advertise, be asked, spool, post, poll | receiver, writers of the database | two snapshots; lost answers, repeated pages, one deadline | the receiver applies what was advertised, and no success is made up |
| Pipeline support, ORM models, telemetry provenance | none that changes | configuration, declarations, hashing | | | |
| Dashboard `scraper_dashboard`, frontend `frontend` | configuration file; none | views, single updates | database, launcher | | |
| Health and logging, operations scripts `shared`, `scripts/*.sh` | heartbeat file; dumps | update; backup, restore, migrate | schedulers; docker compose | | |

The components in bold are modelled, wholly or in the parts section 3 names; section 7
says what is left out and why.

## 2. Modules and plan

| Module | Models | Proofs |
|---|---|---|
| `AtomicCleanup` | what image cleanup promises: deleting a file and marking its rows is one step | |
| `ImageCleanup` | the protocol that implements it | `ImageCleanupProofs` |
| `ImageMatching` | scraper transactions, triggers, blocking and matching over the same rows | `ImageMatchingProofs` |
| `CandidateParts` | the files blocking leaves for matching, across runs | `CandidatePartsProofs` |
| `EntityUpserts` | artists, auctioneers and experts that scrapers share | in `ScraperRunsProofs` |
| `ScraperRuns` | one scraper's lock, run rows, fences and reconciliation | `ScraperRunsProofs` |
| `SourceScraper` | one run of each of the six sources | in `ScraperServiceProofs` |
| `ScraperService` | supervisord, scraper scheduler, launcher | `ScraperServiceProofs` |
| `PipelineScheduler` | the scheduler of the stages and their processes | `PipelineSchedulerProofs` |
| `MetadataStages` | extraction, normalization and metadata matching over rows that change | `MetadataStagesProofs` |
| `MetadataScoring` | the threads that score lots, their indexes, the answers of the language model | in `PipelineSchedulerProofs` |
| `PairScores`, `DatingIntervals` | the algorithms: similarities, confidences and the final score; intervals of years | in `PipelineSchedulerProofs` |
| `DailyAttempt` | what the ledger of daily attempts promises | |
| `TelemetryDelivery` | daemon, workers, ledger and workspaces, which implement it | `TelemetryDeliveryProofs` |
| `SyncOperation` | what one synchronization promises its caller | |
| `TelemetrySync` | the synchronization, which implements it | in `TelemetryDeliveryProofs` |
| `MC...` | values for TLC | |

Abstract specifications: `AtomicCleanup`, `DailyAttempt` and `SyncOperation`, each a
PROPERTY of the run of the module that refines it. `TelemetryDelivery` takes a
synchronization as one step with a nondeterministic answer, which is what `SyncOperation`
allows; `ScraperService` takes a worker as a process that ends, whose life is
`ScraperRuns`, whose scrape is `SourceScraper`; `MetadataStages` takes a lot's score as
given, which is `MetadataScoring`, whose numbers are `PairScores`.

Four modules of proofs hold the theorems of two components each: what a scheduler or a
daemon does, and what the run does that it starts. Where two components of a module would
have the same names, those of the second carry a prefix (`UpsertInit`, `SourceNext`,
`SyncSpec`, `ScoringSpec`, ...).

No module declares a RECURSIVE operator. Constants have named assumptions in the module
that declares them, which TLC evaluates on every run. Every module of a component has a
type invariant (`TypeOK`, or with the component's prefix); they are proved, `ScoringTypeOK`
excepted, and the runs spend their time on the other properties.

## 3. The modules and the code

### ImageCleanup, AtomicCleanup

State. `rowState` and `use` are `image_file` rows and what links, scores and flags make
of them (`_INVENTORY_SQL`); `txn`, `marks`, `verdict` the cleanup's transaction as the
server sees it; `orig`, `journal`, `named`, `data` the image store: the file at its path,
the journal of an operation and the rows it names, the staged file. `pc` is a place in
`_cleanup_with_storage_locked`, and each action is one of its calls: `TakeStoreLock`,
`LockSnapshot`, recovery (`PickJournal`, `Purge`, `Restore`, `LeaveJournal`, ...),
`Inventory`, then for each target `OpenTarget`, `PublishJournal`, `MoveTarget`,
`StageDurably`; `MarkCleaned`, `SendCommit`, `CommitReturns` or `CommitRaises`, and the
purge. Every call may fail where the code catches a failure (`MaxFaults`).

Crashes. `Kill` ends the process at any point: the flock is free at once, the session is
not, and the server decides an unfinished COMMIT later (`Commit`, `AbortTransaction`).
`PowerLoss` replaces the store by one of the states in `lag`, the states since the last
fsync. This assumes a journaling file system that persists the operations of a directory
in order; an operation and the fsync that follows it are one step, and finished downloads
count as durable.

One cleanup process stands for the holder of the exclusive lock. `Writer` processes
(scraper workers, image blocking) hold it shared, download again what is missing and
record it. `HandEdit`, a program that ignores the lock, exchanges the file between its
open and its move, which `_stage_target` looks for. Rows are never deleted, nor
repointed to another path; transactions of writers are atomic and wait for the table
locks.

`AtomicCleanup` has one variable for the bytes that are kept and one action, `Delete`,
that gives them up and marks the rows. `ImageCleanup` refines it with
`kept <- Kept`: what is at the path or in quarantine for rows not committed as cleaned.

One thing the model shows and no property objects to: the COMMIT of a killed cleanup may
land while a writer that found the file missing downloads it again; the row is then
marked by the older transaction and recorded afresh by the newer one.

### ImageMatching

State. The bytes of an image are a version number, which doubles as their digest
(the same bytes never come twice); `ver` is `content_version`, `embedded` the version an
`is_embedded = true` stands for. `processed` and `completed_without_error` are always set
and reset together, so `done` is one set of links. `tx` holds what an open scraper
transaction has written and locked, one artwork per transaction: `Touch`, `Record` (with
what the trigger on `image_file` and an authoritative empty set clear: `Invalidates`,
`ClearsEmpty`), `Relink` (with the triggers on links: `Replayed`, `Reopened`, and
`Closed` for an artwork without images), `CommitTx` or `AbortTx`. The pipeline reads
revision and rows (`ReadRevision`, `LoadRows`), writes parts, marks, matches image after
image (`MatchImage`) and writes in one transaction: `LockImages` (FOR SHARE and the
comparison of digests), `LockRevision`, the upserts, the two finalize statements and
`CommitWrite`. Each SQL statement reads what is committed and waits for row locks, as at
READ COMMITTED; a deadlock ends one of its two parties.

Abstracted: a file name carries its artwork's id, so an image has one owner; the lost
corpus is one image with a revision; a comparison of scores only decides whether the
better row is kept (`Kept`); the fingerprints of a run's inputs are one check. Left out:
the CSV input and manual runs that mix revisions, rows without a digest from before the
migration, the reset of the metadata flag, a missing file (which ends the stage), and
rows whose file cleanup has removed.

`ScoresAreCurrent` says nothing of the bytes of a score whose image has lost its link
(`orphan`), see the finding in section 4.

### CandidateParts

What `ImageMatching` takes for granted: the files. `parts` are the candidate parts with
the path of their shard and all that their identity hash covers, `cache` the embeddings
of lost images with the identities they were computed from, `features` the matcher's
cache by digest, `paths` the snapshot of auction image paths. A blocking run reads
revision and rows once (`ReadRevision`, `LoadRows`), the files several times (`CheckLost`,
`EmbedLost`, `EmbedPart`, `WritePart`, `Recheck`), takes over a part whose name is the same
(`TakePart`), removes what is not of this run (`Close`) and marks its images (`Mark`);
matching reads what is there (`StartMatching` to `Save`). Scrapers `Replace` a file and
`Record` it later; the operator changes the model (`ChangeModel`); every step may raise or
be the last of a killed process, whose files stay (`Fail`). A file that has changed since
the first look raises where its digest is compared, and the parts stay, or, for a row without
a digest, where the two looks are, and they are removed (`RaiseAtChange`).

Observations: run by hand after a killed blocking, matching may read parts made by two
models (the pipeline scheduler does not start it then, see `FreshCandidates`); that bytes
are replaced twice within a run and come back to what they were is not modelled.

### EntityUpserts

`table` are the committed rows of artists, auctioneers and experts, `own` what an open
transaction has inserted, `refs` what the lot at hand has resolved. A scraper goes
through its lots (`Plan`): `Find` (a SELECT), `InsertRow` (waits for another transaction
that holds the same unique key), `Conflict` (IntegrityError: under the artist's savepoint
only the insert is undone, an auctioneer's ends the run), `FindAgain`, `Update` of an
auctioneer's raw data, `SaveLot` with a commit every `Every` lots. A circle of waits is
ended by failing one of it (`Deadlock`).

Observations: two scrapers that insert the same names in opposite order can deadlock, and
a lost race for an auctioneer or a platform ends a run; nothing makes experts,
institutions and literature unique, so that duplicates arise and `scalar_one_or_none`
then raises in every later run that meets the name.

### ScraperRuns

One scraper, so one lock key. `lock` is the *session* that holds it: `LoseLock` takes it
from a live worker, `DropSession` gives it back some time after a death. The work goes
through another session, and there every transaction's COMMIT may outlive its client, the
insert of the row, a purge, a batch, a checkpoint, the finalizer's and a row's last UPDATE
alike: the process is killed after it has sent it (`Die`), or lives on without an answer
(`CommitFails`). Such transactions are on the `wire`; they hold the locks of the rows they
have written (`Locked`) until the server commits (`Land`) or not (`Lose`), at any later
time and in any order. `Sent` is what a process sends at each place, `Apply` what a commit
does.

`rows` are in the order of `started_at`. A worker: `Acquire` or `Skip`, `SelectStale` and
`Stamp` (finish the rows of dead runs, in any order), `Insert`, `CountBefore`, `FirstFence`
(where it shows whether the run was started with a purge); for Lost Art
the purge in a transaction of its own (`PurgeFirst`), elsewhere with the first batch; then
`Fence`, `CommitBatch`, `Checkpoint` for each batch, `Count`, `Record` and `Release`. The
insert is committed before the baseline is counted, and each count may fail by itself
(`RunFails`, `CountFails`): a failed run then falls back to its baseline, or to 0 without
one; the finalizer leaves rows uncounted, or all as they were (`StampUncounted`). A
purge removes what its DELETE saw, so entries may become fewer. A reconciler (the
dashboard) `Poll`s and goes through the same finalizer. The twenty attempts at the lock
are time and nothing else: a worker may give up whenever the lock is taken. Publishing
progress is the same fence as a batch's. The threads of one process and the listing of runs
are left out; the scrape is `SourceScraper`.

History: `made`, the entries ever committed; with each count when it was made (`at`) and by
which statement (`from`); `late`, the batches sent without the lock; `behind`, the runs that
were not settled when the row of a later one was sent; `landed`, the rows ended by a COMMIT
whose client had gone on.

`NewEntriesAddUp` is claimed while no lock session is lost and each run is settled before
the next begins (`losses = 0`, `behind = {}`): a checkpoint on the wire may otherwise put
back the counts of a row whose successor has counted already. Nothing is claimed of
the amount over a run that has no count at all. `EndedByItsOwner` is claimed while no lock
session is lost; its one exception are rows in `landed`. Both exceptions are findings.

Observation: the fences ask `ensure_held`, the finalizer of interrupted runs does not.
One whose session was lost after it had selected its rows may finish the row of the next
worker, which `EndedByItsOwner` excludes by its condition that no lock has been lost.

### SourceScraper

`Listings` are the pages a site may show, a page being the sequence of its lots at the
moment it is fetched (so lots can move between pages); `Offers` the images a lot's page
offers. One run: the purge (deletes the platform's rows in the open transaction),
the discovery by each source's own loop (`ListChristies`, `ListDrouot`, `ListDorotheum`,
`ListLottissimo`, `ReadCalendar` and `ListAuction` of Sotheby's, `ListLostArt`) with its
ends: an empty or failed page, nothing new, the row limit, the skip, the page limit. Then
lot by lot (`ScrapeChristies` and so on: download, upsert, links, clearing of columns), a
commit per batch, and the ends: finished, failed, interrupted, killed.

Observations:

* Lost Art commits its purge before it discovers anything, so that a failure leaves
  nothing; a purge elsewhere, when the discovery finds lots none of which can be parsed,
  leaves an emptied platform.
* A failed page of a Christie's lot saves what the listing said and clears the image
  links; a failed Lost Art detail page replaces title, artists and image links.
  `NothingLostBlindly` leaves these two sources out.
* Sotheby's never scrapes a stored lot again, its skip counts lots seen twice, and its
  loop over lot cards has no end of its own when a page brings nothing new.
* Drouot, Lot-tissimo and Sotheby's keep an artist the page no longer names.
* Dorotheum without a page limit reads the first page only; where a listing ends at a
  page that brings nothing new, lots that moved behind it are missed.
* A row found by its URL that is given another row's `lot_id` raises an IntegrityError
  outside any savepoint.

### ScraperService

`program` is what supervisord knows of dashboard and scheduler: starting, running,
backoff, FATAL after `startretries`; the event listener then ends the container.
`scheduler` is a place in the loop of `scrapers/scheduler.py`: `Trigger` reads the clock,
`CleanupEnds` waits for the cleanup, `Submit` starts the batch and computes the next
trigger. `place` are the launcher's reserved places (`process_launcher.py`), which a
request takes before Popen (`Reserve`, `Launch`, `Spawn`, `Watch`) and a watcher gives back
(`Forgotten`); each of these calls may fail.

History of the scheduler: `served`, the last trigger whose batch was started, and `missed`,
those whose batch could not be. Every trigger it lives to see leads to a batch or is
`missed`: a Popen that fails is logged and its interval given up. History of the dashboard:
`workers`, those it started that run, and `unwatched`, those it failed to wait for. A failed
wait gives up the place of a process that may run on (`process_launcher.py:110-116`), and so
does a failed watch before it terminates its worker; `PlacesCover` names both and says of
every other worker that it has a place of its own, and of every place that a thread or a
watcher has it in hand and gives it back.

Observations: the scheduler takes `now` before the cleanup, so that a cleanup longer than
the interval is followed by an extra batch at once; a cleanup that hangs holds the
scheduler, since nothing limits it; the event listener's own FATAL ends nothing.

### PipelineScheduler

`proc` is the process table: every process is live, doomed (SIGKILL is on its way), a
zombie or gone, with a parent and a group. The stage's processes `Fork`, `Detach`
(`setsid`), `Exit` and `Wait`; the children of a process that ends become the
scheduler's, which is a subreaper (`_set_child_subreaper`). Everything else is the
scheduler: `run_scheduler` and `_run_cycle` (`StartCycle`, `Prepare`, `RecordStep`,
`FinishCycle`, `EndEarly`, `Stopped`), `_run_step` (`Launch`, `LaunchFails`, `Reap`),
`_stop_process` (`Terminate`, `KillLeader`), and the two loops that end what is left of
a stage. A look at /proc is `List`, the process ids, and then one `Read` per entry, with
everything else in between.

SIGTERM has no effect of its own, because a process may exit at any time and may ignore
it; a deadline may pass at any round. A process id is given to a new process when no
process and no group has it, and which one a stage gets makes no difference. Exit codes
are 0 or 1, the list of failed steps is a flag. Left out: trigger times, heartbeats,
writing the health file (taken to succeed), processes that join another's group
(`setpgid`), and the fallback without /proc.

`fresh` and `failing` are history: the candidates come from a successful blocking stage of
this cycle; a stage has failed and no cycle has succeeded since.

Observations: nothing limits how long a stage runs, so one that hangs holds the cycle
until a stop; and a stop may take five waits of thirty seconds (two for the group, two
for detached children, one for the leader), close to the 160 seconds of
`stop_grace_period`.

### MetadataStages

A row is its description's version, its title, the extracted columns with the version
they come from and the normalizations they went through, and the two marks; a score is a
pair's image and metadata part. Extraction: `GetDescriptions`, then hours without a
connection (`ExtractMetadata`, `Normalize` in the order of the steps, three of which
rewrite `descriptions.jsonl` in place), and `WriteDescriptions`, which writes values and
mark whatever the row's description is by then. Matching: `OpenStream` (a server-side
cursor, so a snapshot), `FetchBatch`, `InsertScores`, `MarkProcessed`. `Scrape` may change
a row between any two of these, with the schema's trigger on its marks. A stage may fail
at any step.

`ExtractedIsCurrent` and `MatchedIsScored` ask nothing of a row that changed while a stage
held it (`retold`: the extraction, `reshown`: the matcher's stream): the stage then sets
its mark on values nobody has extracted or scored, although the comment at
`db/init-production/01_schema_production.sql:256` says that any change of an input
invalidates the previous pass.

Observations: a lot without a description is never extraction-processed and so never
matched on metadata; a blank description keeps the metadata of the one before;
eligibility trims what the fetch compares with the empty string; the extraction
overwrites the site's title, and the next scrape writes it back; descriptions whose
answers cannot be read fill a batch again and again and can end in a failing stage; a
pair whose score falls below the threshold keeps the old one; new lost artworks reset
no marks; normalization started by itself applies what an old file says.

### MetadataScoring, PairScores, DatingIntervals

`DatingIntervals` gives the interval of years of a text (`RegexDating`, the patterns of
`regex_filter.py` in their order) or of a reading's mentions (`ResolveDating`);
`MetadataScoring` hands the texts no pattern matched to the language model in one batch,
whose answers may come in any order, be missing, or be of no use (`Answers`). `PairScores`
has the similarities of artists, titles, datings, sizes, materials and techniques, their
confidences, and the two weighted means. The threads of the matcher take lots from a queue
and go through the lost artworks; the artists' and the titles' indexes are loaded under a
lock by the thread that comes first and read outside it, the datings' index is a pickle
written under no lock. The titles are counted by one query and their number is taken by
another (`CountTitles`, `TotalTitles`), each with a snapshot of its own, and rows may change
in between (`ChangeRows`). Numbers are integers with `Unit` for 1.0; the edit distance, the
logarithm and the density of sizes are tables in `MCMetadataScoring`.

Years are counted in an array that begins at the first year of all intervals. An interval
that ends before it begins (nothing refuses a text like "1920-1915") counts for no year,
or, if it ends before the array begins, for the years up to an index taken from the array's
end (`Until`); and an array of less than no years raises (`QueryDatings`).

A lot's artists are one string where they are compared with the names of a lost artwork, and
a list of names only where their rarity is asked.

Observations: if titles are deleted between the two queries, the counts of the older table are
set against the total of the newer, and a title can be rated more common than it is in either;
`RarityNeverUnderstated` and `KeptIsDeserved` speak of the tables as they were
queried; a single dated lost artwork makes the confidence of a dating NaN, which
passes the threshold and is then refused by the table's CHECK (`FitsTable` says that
nothing else is refused; rounding of floating-point numbers is not modelled); the pickles are never
refreshed, so that lost artworks added later are not in them; titles that are equal can
score less than titles that are nearly so, because common titles are looked up as they
are stored; names like "anonym" have a similarity but no confidence; the patterns accept
an interval whose end is before its start and do not cap a century at the current year,
while the resolver does both, with 2026 in its code.

### TelemetryDelivery, DailyAttempt

The daemon (`daemon.py`: `StartDaemon`, the start-up delivery with its retries, the daily
one, the waits in between), one child worker and one started by hand (`work`), the SIGALRM
in the worker and the parent's limit as an age, the ledger (`Claim`, `CloseClaim` of
`DailyAttempt`). `Kill` ends one worker alone, `Crash` every process; both keep ledger and
workspaces. The receiver may have applied what the worker takes for failed.

A workspace (`spool`) is made (`Collect`: "open"), its lock file opened (`Open`: "opened")
and locked (`Lock`: "locked"), in three steps, and a scavenger, which runs at the start of the
daemon and around every worker of it, may come between any two of them (`CleanSpools`). It
removes each directory whose lock it gets, or a part of it, or nothing, since an OSError is
logged and passed over: without its lock file a directory is "bare" and free for the next
scavenger whoever works in it; it is "lost" when it is removed before the lock file is
opened, which then raises, and "gone" when after, which nobody notices, because flock
succeeds on a file without a name. `stale` are the workspaces of dead workers: "child" is one
of the daemon's worker that no scavenger has met yet, "other" one that a worker run by hand
has left or a scavenger could not remove. A request to stop is obeyed at the head of the
daemon's loop only, where request and shutdown are one step (`Shutdown`).

Only the daemon scavenges, and never while its own worker lives; so the child always has its
workspace (`WorkspacesKept`), and a worker run by hand may lose it (a finding). What a dead worker run by hand has left may be beside a live child.

Observations: the cap on the backoff is never
reached with five attempts; a worker that starts past midnight claims the new date, so
that a date may be skipped; a daily NOOP leaves the health report at "running"; a row may
stay "started" although its operation was delivered.

### TelemetrySync, SyncOperation

Rows are matches and the entities they refer to, their hash a version. Two snapshots:
`Inventory` pages are posted and answered with what is requested; `Data` pages are made in
batches that are halved until they fit, each row compared with what was advertised
(`DataFromFirst` and what follows). Then each page is posted, with retries; the receiver
applies the operation when it has them all, at once or while it is polled; a newer
operation may supersede it. `WorkerAlarm` is the deadline.

Abstracted: sizes in bytes, the free space of the file system, hashing and JSON are
whether a batch fits. `SentOrGone` says that what was requested is sent, unless its row or
the match that brought it along is gone by the second snapshot, see the finding.

## 4. The runs

The properties of each run are in `PROJECT.json`, with the sentence that says what it shows.
There is one run for each component, and all of them pass; what the code does not keep of the
repository's own words is an exception in a property, and a finding.

| Run | Instance | Question | States | Seconds |
|---|---|---|---|---|
| `image_cleanup` | one file, two rows that alias it, one writer, two deaths, one failing call | do quarantine, journal, rows and recovery agree at every step and on every disk; is `AtomicCleanup` implemented; is the quarantine drained in the end | 84,551 | 25 |
| `image_matching` | two images of an artwork, one scraper with two transactions, a lost image that changes, one failure | are scores, verdicts and marks about recorded bytes; is only the rejected deletable; is every linked image judged in the end | 411,941 | 70 |
| `candidate_parts` | two auction images in shards of one, one lost image, two models, two faults | is what blocking leaves, reuses and hands to matching what its names say | 2,526,996 | 30 |
| `entity_upserts` | three scrapers, up to three lots, names shared in another order and case | do lots refer to rows that exist; does a run that ends well have all its lots | 80,975 | 10 |
| `scraper_runs` | two workers, one dashboard, two runs, two entries, any two of: a death or an unanswered COMMIT, a lost lock, failing statements | do the counts of successive runs add up; what gets past the fences; who ends a row, and is every row ended | 585,749 | 170 |
| `source_scraper` | six sources, three lots, two listing pages, with and without purge, skip, limits | what is queued, kept, committed and lost | 442,426 | 11 |
| `scraper_service` | two threads, two requests, one place, two triggers, two faults | do places cover workers; is every trigger served | 188,852 | 40 |
| `pipeline_scheduler` | three stages, two process ids | do stages run alone, is health remembered, does a stop end it | 54,956 | 9 |
| `metadata_stages` | two lots, one lost artwork, three scrapes, two faults | what do the two marks promise; is every lot matched in the end | 115,943 | 11 |
| `metadata_scoring` | two threads, two lots, fourteen datings, two or three lost artworks, two runs, a death | are answers given to the right records; do racing indexes make names too common; is what is kept deserved, and will the table take it | 988,543 | 165 |
| `telemetry_delivery` | two dates, two starts, one child and one worker by hand | one operation per date; bounded start-up; is the child's workspace its own; does the daily work come up | 1,026,993 | 135 |
| `telemetry_sync` | three matches that share artworks, one change, pages of two and three, two tries | is what is applied what was advertised and asked for; is the outcome true | 469,297 | 25 |

Bounds. `MaxVersion` 2 lets bytes be replaced once after they were read; two deaths let one
hit the recovery from an earlier one; two operations per target let new bytes be
quarantined while older ones are left over; two aliasing rows are the smallest group with
a protected and an unprotected member. (With two files, three rows, one operation per
target and one death there are 836,324 states, four and a half minutes and the same
results: a cleanup can end between two files.) In `image_matching`, `Room` bounds
transactions, lost changes and downloads of old bytes *together* (`MaxEvents`), so that
each pair of them meets each step of a cycle; two images let one be replaced under the
score of the other. (Two scrapers and larger bounds, or two artworks in batches of one,
gave up to three million states and the same results.) In `candidate_parts`, two versions
of each image and of the model let every ingredient of a name change once after it was
used. Three scrapers are the fewest in which a race is lost to one and a deadlock met with
another. Two workers and a dashboard let a lock change hands twice, and let the late batch of
one land beside the other. The second run is the one whose count builds on an interrupted, a
failed or an uncounted first. `MaxBreaks` counts deaths and unanswered COMMITs together, and
`MaxTroubles` bounds them, lost locks and failing statements *together*, so that each pair of
troubles meets each step of a run; two failures are the fewest that leave a run without a
count. Which worker is started next, and which of those that wait gets the lock, makes no
difference: until then they are alike (`First`). (Three runs without lost locks gave 1,417,599
states and the same results, before `First`.) Three lots on two overlapping pages let a
lot repeat, move or be skipped. One reserved place is a pool at its limit; a second trigger
finds the cleanup of the first. With two process ids and their reuse, a child detaches,
outlives its parent, is adopted and forks between the listing and the reading of /proc;
three stages are blocking, matching and one after both. (With three processes and two
stages there are 1,773,295 states and the same results.) Batches of one and two lots make
a stage work on less than there is. Two dates let a worker started on one claim the next;
the second start of the container follows a crash. Three matches over shared artworks are
split unevenly and share rows between the halves. None of the bounds limits what a
component may do within them: a counter at its bound stops further faults or inputs, never
the system's own steps. `metadata_scoring` takes the two threads as symmetric, which
they are; it has no liveness property.

Deadlock is checked where the system cannot stop. `CHECK_DEADLOCK FALSE` is said where it
may: the pipeline scheduler and the container after a stop request, the telemetry daemon
after its last start, and the models of one operation or of a bounded number of runs
(`source_scraper`, `entity_upserts`, `metadata_scoring`, `telemetry_sync`). In the other
models idle processes always have a next interval or a poll.

Fairness.

* `ImageCleanup!FairSpec`: the scheduler starts a cleanup at every interval
  (`scrapers/scheduler.py:95-118`) and its steps go on (weak); lock waits are queues, so
  taking a lock that is free again and again succeeds (strong); the server decides every
  transaction; writers end.
* `ImageMatching!FairSpec`: cycles repeat, and each scraper transaction ends. Liveness is
  claimed only when files and rows agree from some time on.
* `ScraperRuns!FairSpec`: workers that run go on, the server drops the session of a dead
  client and goes on deciding the COMMITs on their way, the dashboard polls, and a scrape ends,
  its list of pages being finite (strong).
* `ScraperService!FairSpec`: scheduler, supervisord and threads go on, and processes that
  were started end (workers have finite lists, cleanups finite inventories). This is the
  assumption behind `EveryTriggerServed`: a cleanup that never ends blocks the scheduler.
* `PipelineScheduler!FairSpec`: the scheduler runs, its clock reaches a deadline it keeps
  waiting for (strong, since the loop is at its scan in between), and a process that got
  SIGKILL dies. Nothing is assumed of stages: they may run for ever, or fork for ever.
* `MetadataStages`: cycles repeat (weak on the stages), and scrapes and failures end.
* `TelemetryDelivery!FairSpec`: the daemon goes on and a worker gets older. Nothing is
  assumed of workers: they may hang, and their alarm may never be acted upon.
* `TelemetrySync!SyncFairSpec`: the sender goes on; nothing is assumed of the receiver.

### What the findings say

Where a document, a comment or a test of the repository says more than the code does, the
property states what does hold and names its exception; the findings in `PROJECT.json`
quote both. Of those with an exception the run fails when it is taken away.

* Image cleanup's README, line 17 (`QuarantineDrains`, exception `Irreconcilable`): if the
  cleanup dies between move and commit, the batch of that interval starts nevertheless,
  downloads the image again, and no later run can put the move back: each ends in
  "requires manual recovery".
* Blocking's README, line 73 (`PendingIsJudged` has no broken images in its instance):
  images that cannot be decoded stay selected; as many artworks with such images as the
  batch has places, with the lowest ids, keep every other image out.
* The schema's tests (`DoneIsJudged` speaks of links, not of the artwork's flag): a link
  committed while the finalize statement waits for its artwork's row leaves the artwork
  processed with a pending link.
* `db/README.md`, line 98 (`ScoresAreCurrent`, exception `orphan`): an image that is
  unlinked, replaced and linked again keeps the score of its old bytes.
* The comment at `orchestrator.py:711` (`OneLateBatch`): a lock lost between fence and
  commit lets one batch through beside the next worker, and not a second one.
* The comment at `orchestrator.py:389` (`NewEntriesAddUp`, exception "none"): when the count
  before a run fails and the one after it too, 0 is recorded as its total, and the next run
  counts every entry as new once more. (With three runs TLC finds an entry reported twice.)
* The message at `orchestrator.py:279` (`EndedByItsOwner`, exception `landed`): a worker is
  killed after it has sent its row's last COMMIT, the server drops its lock session, a finalizer
  selects the row as running, the COMMIT lands, and the finalizer marks the completed run as
  interrupted: its UPDATE does not ask for the status again.
* `sync_workspace.py:27` (`DeliverySafe`, whose `WorkspacesKept` speaks of the daemon's own
  worker only): a scavenger that comes between the opening of a lock file and its locking
  removes the workspace of a worker run by hand, which then works on under the lock of a file
  without a name.
* The schema's comment, line 256 (`MatchedIsScored`, exception `reshown`): the matcher's
  mark undoes an invalidation that came while it held the row.
* `telemetry/README.md`, line 95 (`AppliedIsWhole`, exception in `SentOrGone`): when a
  batch is split, a match that was deleted between the snapshots is left out and the
  operation reported as delivered, where an unsplit batch raises.
* `artist/count_confidence.py:25` (`RarityNeverUnderstated`, a lower bound only): a thread
  that reads the artists' index just before it is complete takes a known artist for one
  never seen. Line 59 of `dating/count_confidence.py`: a pickle torn by a death or a
  second thread makes the stage fail until it is deleted.
* `technique_and_material/matching_function.py:10`: two different names that are both
  missing from the hierarchy are found equal instead of unknown.

## 5. What is proved

Everything below holds for every value of the constants that satisfies the named
assumptions, without the bounds of section 4.

**ImageCleanupProofs** (from `ConstantsAssumption`). `Invariance` proves
`Spec => []IInv`. The safety properties are not inductive: whether an undo may move a file
back depends on what the process knows of the rows, and this on what the server may still
do. `IInv` adds: on *every* state a power loss may leave (`OnDisk`), a staged file has its
journal, a version is in one place only, and a condemned version is in quarantine under
cleaned rows or nowhere (`StoreOK`); where the process is and what its journals name
(`ProcessOK`); which rows are known to be cleaned or live (`RowsOK`); that a transaction
is in flight only when everything is synced and the process waits, is dead or is about to
connect (`CommitOK`); that nothing chosen is protected while the locks are held
(`ChosenOK`). The proof has a lemma for each part and a step for each action. From it:

* `TypeCorrect`;
* `QuarantineIsJournaled` (`StagedIsJournaled`): journals come first and go last;
* `DeletionIsDurable` (`DeletionSticks`): versions are unique, and condemned ones are in
  quarantine under cleaned rows, which no restore touches;
* `UndoIsSafe`, `RecoveryIsDecided` and, from both, `RestoresAreDecided`
  (`RestoredOnDecision`): the advisory lock is taken only after the server has decided,
  and the quarantine is empty when a new transaction opens;
* `ProtectedIsKept` (`NeverCleansProtected`) and `BytesFollowDatabase`
  (`StagedBytesFollowDatabase`), two action properties;
* `CleanupIsAtomic` (`ImplementsAtomicCleanup`): the protocol implements `AtomicCleanup`.
  The bytes the abstract deletion still counts as kept are those at the path or in
  quarantine under rows that are not cleaned, so they must not depend on which disk a
  power loss leaves. `AInv` adds what this needs: a transaction marks live rows only, and
  with one row of a file all of them (`WholeOK`); a journal names rows of its own target
  (`NamedOK`); every disk that a power loss may leave keeps the same bytes (`SameKept`).
  Then every step but the commit leaves the kept bytes alone or writes or removes a file
  at its path, and the commit gives up those of the files it has marked, all at once.

**PipelineSchedulerProofs** (from `SchedulerAssumption`). That stages run alone is a
statement about trees: following parents leads out of every set of processes (`Tree`), so
as long as any process is left, one of them is a child of the scheduler. A child of the
scheduler stays in the table, dead or alive, until the scheduler waits for it; what forks,
detaches, exits or is adopted only adds children (`StageStep`). So a scan that began with
processes left lists a child and finds it, however the rest changes while it reads
(`ScanFindsRoot`), and one that finds none proves that none is left (`NothingMissed`).
Ending the group alone would not do: its scan may miss what is forked meanwhile.
`Succession` and `Remembered` carry exit codes and failures through a cycle. Theorems:
`TypeCorrect`, `StagesRunAlone` (`Alone`), `CandidatesAreFresh` (`FreshCandidates`) and
`HealthIsRemembered` (`HealthRemembers`).

**ImageMatchingProofs** (from `MatchingAssumption`). A scraper's transaction that has
written holds its artwork's row alone, so nobody else changes the rows of that artwork's
images until it ends (`HeldAlone`), and what it will invalidate is fixed when it records
(`TxOK`). The matcher's locks decide who is first: while its transaction is open, no image
it has locked is among those about to change, and what it is about to write is not about
to be cleared (`LocksOK`, `UpsertsOK`); `ScoresOK` and `DoneOK` state the properties also
for what open transactions will leave. Theorems: `TypeCorrect`, `EmbeddedMarksAreCurrent`
(`EmbeddedIsCurrent`), `ScoresStayCurrent` (`ScoresAreCurrent`), `DoneLinksAreJudged`
(`DoneIsJudged`), `OnlyRejectedIsDeletable` (`DeletableIsRejected`).

**ScraperRunsProofs** (from `RunsAssumption`). What a step may change is taken together
first: a row is written by the process that commits it or by a COMMIT that lands
(`RowEffect`), entries by purges and batches (`EntriesEffect`), and a process rests, enters,
leaves, dies or goes on (`AllMove`). The lock is taken in one place, before the run's row
exists; a worker that has sent a batch without it meets a fence next, which fails
(`LateOK`, for `OneLateBatchOnly`). No two transactions on the wire have written the same row
(`RowsOK`), and what was counted is at least what is left of the entries there were, with
those that have come since (`CountsOK`). While no lock session has been lost, a process past
the lock holds it alone (`HeldInside`), and the rows it selected are running or have
`landed`; a transaction on the wire that ends the row of a live worker is that worker's own
(`OwnersOK`). If besides each run was settled before the next, all runs but the last are over
for good: no row running or locked, none selected, none in work (`Settled`); so what a
worker takes for its baseline, whenever it looks, is the run before its own, and every count,
recorded, on the wire or in hand, adds up with that one (`CountsAddUp`). `SerialOK` says this
under its condition, and from it follow `NewEntriesAreCountedOnce` (`NewEntriesAddUp`) and,
from `OwnersOK`, the action property `RowsEndedByTheirOwner` (`EndedByItsOwner`). That a
baseline is the total of the *latest* finished run needs that a set of runs has a greatest
one (`MaxExists`).

**TelemetryDeliveryProofs** (from `DeliveryAssumption`). A worker between its claim and
its record owns the row of its date: it says "started", which lets nobody else claim it,
and no two workers own the same (`OwnersApart`); what was sent is what the receiver has,
and only for claimed dates (`LedgerOK`). The start-up deliveries of a daemon are those
that failed and the one under way (`StartupOK`). The child's place gives the state of its
workspace, because every scavenger is the daemon's and runs while no child lives, and what a
dead child has left has been through one before the next child starts (`SpoolsOK`). Of a
worker run by hand nothing is claimed, so its workspace needs no invariant. Theorems:
`TypeCorrect`, `DeliveryIsSafe` (`DeliverySafe`) and `LedgerImplementsDailyAttempt`
(`LedgerKept`): each step of a worker on the ledger is a `Claim`, `Deliver` or `Close` of
`DailyAttempt`, and every other step leaves the ledger as it is.

**CandidatePartsProofs** (from `CandidateAssumption`). Bytes only ever get newer here, so a
file that had the recorded version at two looks had it in between: this is what the rereads
of blocking (`Recheck`, the check around `EmbedLost`) buy, and why a part is about the
bytes its name says even if nobody looked while it was computed. `IInv` says it for
everything that is in the process's hands (`LostOK`, `ShardOK`), in the caches
(`FeaturesOK`, `CacheOK`) and in the directory (`PartOK`). From it follows `FilesAreTrue`
(`FilesTellTheTruth`). While a run is past its selection, its rows, shards and the order
of its ids are fixed (`RowsOK`), a part is determined by its path, and so what `Close`
leaves is one part for each shard of the batch, no more and no less (`DirectoryOK`).
The batch has each image once and its paths are in the snapshot (`SelectedOK`), so the
rows of the sorted parts never come back to an image (`Places`: a row's number in the
batch gives its part and its place there). With this `DirectoryIsExact` states both halves
of `BlockedIsExact`: what the directory holds, and that the matcher can read it.

**ScraperServiceProofs** (from `ServiceAssumption`). A request is in the hands of one
thread until its worker is watched, and has its place from before its process exists until
it is given up (`LaunchOK`); its number is used again only when no place, thread or watcher
has it, and a process number only when nobody holds it. So a place is given up by the one
who has it in hand (`CoverLess`), no place is left that nobody has in hand (`PlacesOK`), and a
new process is never one that holds another
place (`CoverSpawn`). Every worker of the dashboard that runs has its place from its start
(`Covered`), until it ends, or its watch or its wait fails: `PlacesAreCovered`
(`PlacesCover`). `TypeCorrect` needs that a trigger
that is served is not after the time that was read (`TriggerOK`); then there is a next one
(`NextAfterIs`: it is on the grid, later than that time, by an interval at most).

**MetadataStagesProofs** (from `VersionsAssumption`, `BoundsAssumption` and
`NoneAssumption`). The stages hold copies of rows that scrapers go on changing. `FileOK`
says of each description in the file that it is still its row's or the row is recorded as
scraped since, and which normalizations it has been through; `HeldOK` says the same of the
rows in the matcher's cursor, of its batch and of those it has scored, and that a pair of a
row in the batch that waits for a metadata score was read with it. The last part is what
`MatchedIsScored` rests on: no image stage runs while rows are held (`StageOK`), so a pair
that is not alike enough to be kept does not wait either (`InsertedIsScored`). A scrape
that changes what a row says takes its mark away and is recorded for whoever holds the row
(`ScrapeIs`, `ScrapeRecords`). Theorems: `TypeCorrect`, `ExtractedMarksAreCurrent`
(`ExtractedIsCurrent`) and `MatchedMarksAreScored` (`MatchedIsScored`).

**EntityUpserts** (in `ScraperRunsProofs`; from `PlanAssumption` and `BoundsAssumption`: a
scraper has lots, and a batch has at least one). What a transaction has resolved for the
lot at hand answers the first calls of that lot one by one, with rows that are committed or
its own (`LotOK`, `Answers`); every lot behind it is saved, in this transaction or for good,
and is whole (`LotsBehindOK`, `LotsOK`). Committed rows stay, and a commit makes a
transaction's own rows committed in the step that saves its lots, so an abort takes lots and
rows away together and another scraper never sees the ones without the others. Theorems:
`UpsertReferencesHold` (`ReferencesHold`), `UpsertDoneSavedAll` (`DoneSavedAll`),
`UpsertTypes`.

**SourceScraper** (in `ScraperServiceProofs`; from the four assumptions of the module: lots
are finite, limits are positive or absent, `None` is not a value). What is queued is said of
the pages read so far, so the six loops are taken together: outside the calendar of
Sotheby's what has been found is `Unseen` of all lots shown, in their order, up to the
limit (`FoundOK`). That one page more keeps this is an induction over the positions of the
page, for each of the folds of the module (`Unseen`, `Yield`, `FlattenSeq`). While lots are
scraped the queue has each lot once, what is behind `done` may be saved and nothing else
(`LoopOK`); each lot saved since the last commit is one of the batch, so at most a batch
is uncommitted (`BatchOK`); what a saved row no longer has of the committed one was not
offered by its page (`KeptOK`). Theorems: `SourceQueueIsWhatWasRead`
(`QueueIsWhatWasRead`), `SourceRowsFollowRun` (`RowsFollowRun`), the action property
`SourceNothingLostBlindly` (`NothingLostBlindly`), `SourceTypes`.

**TelemetrySync** (in `TelemetryDeliveryProofs`; from `SyncAssumption`). A batch holds rows
that were asked for and expects them with all that their matches refer to, less what has
gone since the inventory (`BatchOK`). So each row a batch has taken is on a page with the
version that was advertised, or expected by a batch that is still to be written, or gone
(`BatchesOK`, `Settled`): splitting a batch keeps this, because an entity is expected by the
half of any match that refers to it, and writing one keeps it, because a page is compared
with what was advertised. The receiver has the pages before the one at hand (`SendOK`) and
applies when it has the last. Theorems: `SyncAppliedIsWhole` (`AppliedIsWhole`),
`SyncTypes`, and `SyncImplementsOperation`: every step is a step of `SyncOperation` or leaves
outcome and receiver alone, which is `OperationKept` without its fairness.

**MetadataScoring, PairScores, DatingIntervals** (in `PipelineSchedulerProofs`). Assumed of
the constants: a pattern's fields are digits and a mention's are numbers or missing
(`DatingAssumption`); names and titles are sequences and values as the tables hold them
(`RowsAssumption`); the tabulated similarities and rarities are in `0..Unit`, as the code
clamps them (`AlikeAssumption`), and a logarithmic rarity does not grow with the count
(`LogAssumption`). The lots are finitely many; threads and lost artworks may be any number.

* The sums, folds and readings of sequences come first. A sum over a finite set of indexes
  is the last of its partial sums (`SumIsRun`), so it can be bounded member by member
  (`SumLe`, `SumAbove`); a fold is the last link of a chain of steps (`FoldChain`), and
  `Among` is described by a strictly increasing choice of positions (`AmongFacts`).
* Datings. Every form of text but one yields years in order (`RegexOrder`), and so does every
  mention and the hull of several (`ResolvedOrder`, `HullOrder`). An answer is given to a
  record with the answer's own text, whatever the order, so `DatesInv` (a dating is what its
  text says, or nothing, or not there yet) is inductive: `ScoringDatesAreTheirOwn`
  (`DatesAreTheirOwn`).
* Numbers. `FinalAgrees`: if the weighted mean reaches the threshold then what is known
  agrees well enough, and conversely, although the code divides and truncates.
  `ConfidenceGrows`: the confidence does not fall when a rarity rises, and is no number only
  with a dating that is none. Together they give `PairJudged`: a deserving pair is never
  discarded if its rarities are not understated.
* Threads. A name that the artists' index finds has the rarity of the rows that were
  loaded (`NameIsExact`), of several spellings of a title the rarest is kept
  (`TitleIsRarer`), and what is not found counts as never seen. So an index may be read
  half-made and still not understate. `Holds` says what a thread at each place may rely on
  whatever the others do: its lock, that an index it fills is not marked loaded, that one
  marked loaded is whole. `WorkOK` says what it has judged so far: rarities not below the
  true ones for the names it is through with. `FoundOK` says of the pairs before its row
  that they are settled: each is right if it was kept, kept if it was wanted, and the
  indexes it was judged by are loaded, so that no later load changes which rows its rarities
  are counted over. Each action keeps the part of its own thread, and a frame lemma for each
  part says what steps of the others leave. Theorem: `ScoringRarityNeverUnderstated`
  (`RarityNeverUnderstated`).
* Ranges. Every similarity and every rarity is in `0..Unit` or missing, whichever index it
  is read from and however much of that index is there: the weighted mean of the known
  (`FinalShare`), the sum by weights that add up to one (`SumOfWeights`,
  `ConfidenceShare`), the mean of a dating over years an index may not know. What a thread
  has asked so far (`WorkOK`) and what it has kept (`FitsTable`, a part of `RightScore`)
  carry these ranges from step to step: of all numbers of a pair only the confidence of a
  dating can be none, and then the pair's confidence is none. Theorem, with all of the
  above: `ScoringKeptIsDeserved` (`KeptIsDeserved`).

Every inductive invariant was checked with TLC before it was proved.

## 6. What is only model-checked

Every safety property of the runs is proved. What stays with TLC:

* Liveness (`QuarantineDrains`, `PendingIsJudged`, `RunsFinish`, `StopEnds`,
  `EveryTriggerServed`, `EveryLotIsMatched`, `DailyComesUp`, the outcome that
  `OperationKept` promises): the installed proof system has no rule for fairness and
  ENABLED.
* `ScoringTypeOK`, whose parts that the proofs need are in their invariant.
* What the tabulated functions say of each other (that equal names are alike, for one):
  the theorems assume their ranges only.

The library's induction theorems take operators as parameters, which the provers cannot
instantiate. Where a proof needs induction over a sequence or a set, it takes the set of the
members at which the statement holds and uses that the strict subsets of a finite set, or
the natural numbers, are well-founded (`SubsetInduction`, `PrefixInduction`).

## 7. What is not modelled

* HTTP, HTML parsing, image comparison, embeddings and language models: pure computation
  or I/O, whose results are nondeterministic choices here (a verdict, a page, an answer,
  a failure). `PairScores` has the algorithms that decide what is written; the edit
  distance, logarithm and density in them are tables.
* The normalization of names, dimensions, materials and techniques, which turns text into
  text in one file.
* Frontend and dashboard: single UPDATE statements and views, no protocol of several
  steps; the dashboard's configuration update under its lock is not modelled, its starting
  of workers is (`ScraperService`).
* ORM models, pipeline support, provenance, logging: declarations, configuration, hashing.
* Health files (except what the pipeline scheduler and the telemetry daemon report in
  them) and shell scripts for backup, restore and migration: orchestration of docker
  compose.
* Wall-clock time: intervals, deadlines and twenty attempts in two seconds appear as
  choices that may be taken at any time. What rests on it is not checked: that twenty
  attempts outlast a reconciliation (`orchestrator.py:589`), and any limit to a stage that
  never ends (`run_pipeline_scheduler.py:294`; there is none).
* Durability of a download before its row is committed (`scrapers/utils/scraper.py:356`):
  it would need the page cache of every writer.
* The start of a browser and its failure are one choice; what a crashed browser leaves
  behind is not modelled.
