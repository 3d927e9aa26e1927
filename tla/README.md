# Formal verification of The Real Windy City

TLA+ specifications, TLC models and TLAPS proofs for the parts of this
repository that keep state, run concurrently, or must survive a failure.
Paths are relative to the repository; `S/` stands for
`services/scanner_transcriber/scanner_transcriber/`.

## 1. The system

The repository holds two long-running programs (a live scanner transcriber and
its browser panel), two crawlers that run on a schedule and carry state from run to
run, a pipeline that turns captions of council meetings into audited records, an
encrypted archive read in the browser, and static pages.

| Component | Code | State it keeps | Operations |
|---|---|---|---|
| Scanner store | `S/storage.py` | SQLite tables `segments`, `capture_sessions`, `capture_gaps`; in memory the publication window (`_completed_sequences`, `_next_expected_seq`) | start and recover a session, persist a segment, complete a silent or failed chunk, close, record a gap, page by cursor, retention, backup, restore |
| Scanner capture | `S/capture.py` | PCM buffer, sequence number, end of the last chunk, pending gap, failure count | connect, poll, cut chunks, time out, back off, report gaps |
| Scanner worker | `S/worker.py` | bounded chunk queue, stop event, status and error of the runtime, three threads | start, stop, enqueue a chunk, transcribe and store, sweep, health snapshot |
| Read API and broadcaster | `S/api.py`, `S/worker.py` | one bounded queue per subscriber | page, subscribe, publish, consume, unsubscribe |
| ASR adapter, model bootstrap | `S/asr.py`, `S/model_bootstrap.py`, `S/cli.py` | a loaded model; model files in a shared cache | transcribe one WAV; resolve or install a model by its hash; start a process under the feed lock |
| Transcript panel | `deploy/patches/0001-*.patch` | rows on screen, cursor, fetches on their way | poll, refresh, change feed, stream, merge |
| City mirror | `tools/sync_city.py`, `tools/validate_mirror_snapshot.py`, `.github/workflows/pages.yml` | `state.json`, documents, Actions cache | restore, crawl within budgets, validate, save, publish |
| Any-city crawler | `tools/anycity_crawler.py` | profile; `state.json`, documents, catalogue | recon, harvest, resume |
| Transcript fetcher | `tools/fetch_transcripts.py`, its workflow | catalogue, caption files, transcripts | download, de-duplicate, render, mark fetched |
| Audit ingestion | `audit/audit_ingest_node.py`, `audit/ui_adapter.py` (its rebuild) | JSONL of classified records, dead letters | append, rebuild, rebuild from the dashboard |
| Audit analysis | `audit/minutes_parser.py`, `alignment.py`, `claims.py`, `reconcile.py`, `build_analysis.py`, `report.py` | none (computed anew) | parse minutes, align transcripts, find claims and responses, reconcile, report |
| Atlas | `tools/build_atlas.py` and its parsers, `tools/lock_atlas.py`, `atlas/js` | plaintext tree, stash, encrypted data set; the page's decrypted files | build, lock, seal, stash, unlock, verify, view, lock the page |
| Static site | `city/*.js`, `tools/build_archive_coverage.py`, `tools/check_evidence_site.py` | none | render, count, check links |

How they interact. The capture thread cuts chunks and puts them in the worker's
queue; the ASR thread takes them out, has them transcribed, and calls the store;
the store publishes rows in capture order and the worker broadcasts those it is
given back; the API pages rows by their cursor and streams broadcasts; the panel
merges both. The crawlers share no state with the scanner. Their only partner is
the next run, through a directory; the harvest also starts from the profile a
reconnaissance wrote. The fetcher's transcripts and catalogue are what the audit
ingests, by the command or from the dashboard, and the analysis reads the same
files with the city's minutes and agendas. The Atlas page reads what a lock left on
disk, over HTTP and its cache, while the next lock may be at work.

What is hard here, and what makes each part correct:

* **Store**: several transactions per segment with a crash possible between any
  two, an in-memory window next to them, and a cursor readers rely on. Rows must be
  published in the order they were spoken, never re-numbered, never stuck behind
  a chunk that is done, and completely recovered by the next start.
* **Worker**: three threads and a bounded queue. Rows must be published as they
  are reported and announced; stop() must end and must drain; no audio may be left
  on disk; a failing chunk must not hold up the others.
* **Capture**: outages of any length, failed attempts, stalls, bursts, short tails.
  Every second from a session's first chunk on must be transcribed or lie in a
  recorded gap, and a source that is back must be heard.
* **Panel**: answers in any order, a cursor moved by two channels. No row between
  two rows on screen may be missing for good.
* **Mirror, harvest**: runs with budgets, killed anywhere, a snapshot written
  once at the end. What is published is what was recorded; nothing known is
  hidden or forgotten; a site larger than one run is covered by many; a harvest
  reaches what its reconnaissance saw.
* **Status, files, processes**: one status that five parts write; audio whose rows
  and files are removed at different times; processes that share a lock and a model
  directory and can be killed at every step. A fault is shown until it is over, no
  row claims audio that is gone, a feed has one worker, a cached model is whole.
* **Fetcher, ingestion**: captions in overlapping windows, attempts that leave
  files behind, runs that die anywhere. Every word is kept once, at its time, under
  its own meeting; no record is lost or doubled.
* **Analysis**: the outcome of nested motions, who had the floor, which item a
  sentence belongs to, which ordinance a title names. A report accuses people by
  name, so none of these may be guessed wrong where the text tells it.
* **Atlas**: one complete copy of the data at every step of build, lock, stash and
  unlock, and never two data sets in one page.

`PROJECT.json` lists every component with what is and is not modelled, and the
hazards with the line where each bites and the properties that cover it.

## 2. Modules

| Module | Models | Composition |
|---|---|---|
| `CursorLog` | the abstract promise of the segment table to readers | refined by `ScannerStore` |
| `ScannerStore` | `storage.py`: sessions, staging, window, recovery, close, transcript retention | |
| `ScannerWorker` | `worker.py`: the threads, queue, sentinel, files, announcements | EXTENDS `ScannerStore`; every store call is the store's own action |
| `ScannerCoverage` | `capture.py`, `worker.py`, `storage.py`: which air time the tables account for | capture, queue, ASR thread and tables over one clock |
| `ScannerCapture` | `capture.py` `run`: attempts, time-outs, back-off, stop | |
| `ScannerHealth` | `worker.py`: the status, the error and the health report | EXTENDS `ScannerCapture`: its callbacks are conjoined with the loop's actions |
| `ScannerRetention` | `storage.py`: audio files, their retention, backup and restore | |
| `ScannerProcesses` | `storage.py`, `model_bootstrap.py`, `cli.py`: the feed lock and the model cache | several processes, two feeds, one cache |
| `TranscriptPanel` | the panel, with the paged listing and the broadcaster's queue | panel and service |
| `CityMirror` | `sync_city.py`, the gate, the crawl job | crawler, directory, cache |
| `CityHarvest` | `anycity_crawler.py` `Harvester` | crawler, state, output |
| `CityRecon` | `anycity_crawler.py` `Scope`, `Recon` | EXTENDS `CityHarvest` for the queue and the rule the harvest follows links by |
| `TranscriptFetch` | `fetch_transcripts.py`: catalogue, attempts, windows, transcripts | |
| `AuditIngest` | `audit_ingest_node.py`, `ui_adapter.py`: records and dead letters | EXTENDS `TranscriptFetch`: it reads the transcripts the fetcher writes |
| `RemoteSource` | `audit_ingest_node.py`: paged reading of Socrata and ArcGIS data sets | publisher, server and reader |
| `CouncilMinutes` | `minutes_parser.py`, `reconcile.py`: results, votes, voting record, R4 | |
| `MeetingAnalysis` | `alignment.py`, `claims.py`, `build_analysis.py`: items, roles, claims, passages | |
| `OrdinanceLedger` | `reconcile.py`, `official_records.py`: dates, postponements, lifecycles, R1 to R3, the outcome of an item | |
| `AtlasLock` | `lock_atlas.py`, the output of `build_atlas.py` | |
| `AtlasViewer` | `atlas/js/lock.js`, `core.js` | EXTENDS `AtlasLock`: the page and the tools act on one tree |
| `*Props` | the properties of the module they extend (those of `TranscriptFetch` and `RemoteSource` are in `AuditIngestProps`; `ScannerHealth` and `ScannerRetention` state theirs themselves) | |
| `*Proofs` | its theorems (those of `ScannerCapture`, `ScannerHealth`, `ScannerRetention`, `ScannerProcesses` and `TranscriptPanel` are in `ScannerOperationsProofs`, those of `CityRecon` in `CityHarvestProofs`, those of `TranscriptFetch` and `RemoteSource` in `AuditIngestProofs`, those of the analysis in `AnalysisProofs`) | EXTENDS the module or its `Props`, and `TLAPS` |
| `MC*` | constants of the TLC instances | |

State and actions follow the code by name where they can. Some correspondences
need a word:

* **ScannerStore.** A chunk is `<<session, n>>`, `n` its sequence number. `rows`
  and `cursor` are the committed table (`cursor[c] = 0`: `published_seq IS NULL`);
  `txCursor` is what the open transaction sees; `mem` is the window. `op` and `cur`
  say where a call stands: every statement after which a crash or an error leaves
  a different state is an action of its own (`PersistNew`, `MarkSegmentReady`,
  `PublishExpected`, `WindowCommit`, ...). `env` is what the threads around the
  store do: how many chunks are cut (`captured`) and which were reported
  (`handled`). `faults` remembers which kinds of fault have happened; `MaxKinds`
  limits the kinds per behaviour, not how often they happen.
* **ScannerWorker.** `capture`, `asr` and `stopping` are the program counters of
  the threads, `queue` holds sequence numbers and the sentinel. Audio is not
  retained (the default), so a WAV is temporary.
* **ScannerCoverage.** Air time passes in slots. Chunks are pairs of slot
  numbers, computed as the code computes its timestamps, so that a boundary that
  does not meet the next one shows. `Hear` reads a slot as it ends, `Burst` one more
  without time passing, `Miss` lets one pass without a byte. `attended` and `backdated`
  are history variables: the slots at which a connection gave audio, and those a chunk
  was dated back over, by its first bytes or by the clamp (`Emitted`).
* **ScannerCapture.** Time passes in polls of one second; only the ages of an
  attempt, a silence and an outage are kept, up to the bound at which the code
  tells them apart.
* **TranscriptPanel.** Rows are numbered as published; `given[r]` is the cursor a
  row got, which can repeat after retention. A fetch is sent, answered and
  delivered in separate steps.
* **CityMirror, CityHarvest.** Bodies are numbered versions, `Torn` is a file whose
  write was cut short. `Visit(u)` is one iteration of the main loop with every
  outcome of its request. The heap of the harvest is `heapq`'s array, sift by sift,
  because its array order is what is saved.
* **CityRecon.** The town is outside the program: `site`, `mapped` and the hosts are
  one of a set of towns. `recon` is the `Recon` object, `profile` what it writes. A
  person reviews the profile before the harvest, so the two never run at once.
* **ScannerHealth.** `status`, `error` and `age` are the runtime's; every callback of
  the capture loop and every step of the ASR worker writes them as the code does.
  `faulted` is a history variable: a fault was set since the last first bytes.
* **ScannerRetention.** A recording has a row, a claim of audio in it, and a file;
  a sweep unlinks files one by one inside the transaction that commits at its end.
  `stray` holds the files an unlink that failed has left.
* **ScannerProcesses.** A process goes from opening the lock file to its release;
  the model directory is modelled by which of its files are there.
* **TranscriptFetch, AuditIngest.** A meeting is a sequence of lines; caption files
  are cues over a window of lines (automatic) or one line each (by a creator). A
  record holds its lines and the time of its link. `incidents` counts kills,
  time-outs and removed files together.
* **RemoteSource.** One `NextPage` is a request and the rows of its answer. `steady`,
  `shown` and `shifted` remember what the publisher did since the reading began.
* **CouncilMinutes.** The council's decisions are outside: a step makes one and has
  the clerk write a sentence of it in one of the forms the parser knows. What
  became of the item (`disposition`) and the `ballots` are history variables the
  parse is compared with.
* **MeetingAnalysis, OrdinanceLedger.** The transcript, or the record of meetings,
  grows by what can be said or done next; what the code computes from it is
  evaluated in every state.
* **AtlasLock, AtlasViewer.** A data set is numbered by the build that wrote it,
  ciphertext by the lock (its salt). A tool works file by file, a kill can fall
  between any two, and a write can be torn. `http` is the browser's HTTP cache.

## 3. Runs

| Run | Instance | What it shows |
|---|---|---|
| `store_safety` | 2 sessions of 3 chunks, all fault kinds, one kind per behaviour; or 7 slots of air time, 2 sessions, chunks of 3 slots, tails of 2 kept and of 1 thrown away, 2 slots in bursts, a queue of 1 | `PublishedPrefixUntilFault`, `WaitsOnlyForInFlightUntilFault`, `RecoveryComplete`; the store implements `CursorLog` (`LogSpec`); `EverySlotAccountedFor` |
| `worker_safety` | 2 sessions of 2 chunks, queue of 1, failed calls, failed commits, dropped chunks and late closes in any combination | `NothingWaits`, `PublishedIsAnnounced`, `SentinelMeansDrained`, `NoFileBehind`; a stop ends (`StopCompletes`) and every chunk is reported and published (`EveryChunkSettles`) |
| `health_safety` | read time-out of 3 polls, back-off up to 4, queue of 2, a source that goes up and down | `OutageRemembered`, `FaultIsShown`; audio and a healthy report come back (`OutageClears`) |
| `capture_reconnect` | the capture loop alone, first bytes after one silent poll | *violation*: no attempt after a long outage is given time for its first bytes (`capture.py:382`) |
| `operations_safety` | 2 recordings, audio kept for less or for more time than the text, 2 faults, a backup and a restore; 3 processes of 2 feeds with one model cache, killed anywhere | `AudioClaimsAreTrue`, `AudioLeaves`, `OneWorker`, `ModelIsWholeUntilKill` |
| `panel_safety` | 3 rows, pages of 2, 2 fetches on their way, subscriber queue of 1 | `NoHolesUndisturbed`, `NewRowsAppear` |
| `mirror_safety` | 3 URLs, 2 visits a run, bodies of 2 sizes, all fault kinds | `RenderedIsRecorded`, `WithinArchiveBudget`, `HidesNothingUntilFault`, `NothingStarves` |
| `harvest_safety` | 6 URLs, 3 documents, 2 visits a run, all fault kinds; reconnaissances of 4 pages over 48 sites and 4 sitemaps, hosts of the town, of a platform and allowed by hand | `OutputIsRecorded`, `UnfinishedFirst`, `NothingForgotten`; `ProfileReachesWhatWasSeen` |
| `audit_safety` | 2 meetings of one body on one day, one with automatic captions of 4 lines and one with a creator's of 2, lines repeated in both, one incident, one record that fails, the command and the dashboard; or a data set of 3 rows in pages of 2 or 1, changed twice | `RecordsFaithful`, `CatalogTrue`, `NothingLost` |
| `caption_wording` | the fetcher and the meetings of `audit_safety` | *violation*: of captions that show each line once, a line said again in the next cue is lost (`fetch_transcripts.py:130`), and the transcript says that wording is unchanged |
| `analysis_safety` | an item of 6 sentences with 2 votes by 3 members; or 4 segments over 3 items; or 2 ordinances over 3 meetings, carried, amended, failed or postponed 3 times | `FinalIsTruth`, `RecordIsTruth`; `AlignmentIsBest`, `OneItemAtATime`, `RolesFollowTheFloor`; `AccusationsAreReal`, `LifecyclesAreOrdinances` |
| `atlas_safety` | a thread, the index and the inventory, 2 builds, 2 locks, 2 events: a kill or a load of the page | `DatasetSurvives`, `OneDataset` |

`CHECK_DEADLOCK FALSE` is set where the system really stops: the scanner after
its last session, or its last slot; a record of meetings, a paragraph or a
transcript that is complete; a profile that is written; a data set with no
build, lock or load left.

**Why these bounds.** Three sequence numbers are the least with a first chunk, one
that overtakes it and one that follows; two sessions give recovery, and a close
that races it. A queue of one or two is full while a chunk is in hand. Seven slots
hold a chunk, a tail, an outage and a restart; two slots in bursts are the least that
fill the rest of a chunk of three and reach back over an outage. Two rows a page with three rows is the
least where a page is not the whole answer, two fetches the least that can
overtake. Two visits a run over three or four URLs leave work over in every run;
two versions of a body are the least where the wrong one can be published. A
read time-out of three polls leaves room for an attempt that is silent and not
yet given up. One kind of fault at a time keeps cause and effect apart: it may
happen any number of times, and `worker_safety` mixes four. A second process of a
feed meets the first at its lock, one of another feed only at the model. Two videos
of one day are the least with one file name, four lines the least where a line
returns after another and after itself. Six sentences hold a motion, an amendment
and a postponement with their outcomes; four segments an introduction, a claim, a
reading and a reply; three meetings an introduction, a postponement and the meeting
after. Two locks are the least where a page can be older than the data; one kill
falls into any of four tools. Three rows in pages of two are the least with a last
page that is short; two changes remove a row and add or edit another.
`MaxIncidents`, `MaxFaults`, `MaxChanges`, `MaxRestores`, `MaxBuilds`, `MaxLocks`,
`MaxKills`, `MaxLoads`, `MaxReads`, `MaxEvents`, `MaxSentences`, `MaxVotes`,
`MaxSegments`, `MaxMeetings`, `MaxEntries`, `MaxTime`, `MaxBurst` and `MaxChunks` bound counters
the program does not bound. `Window`, 160 segments in the code, and `PassageSize` are
small so that both ends of them are met.

**What the guards exclude.** A property named `...UntilFault` or `...Undisturbed`
holds until one of the faults it names, and each of these faults really breaks
it:

* `PublishedPrefixUntilFault`: a failed COMMIT of the publication transaction
  leaves the window ahead of the table, so the next rows are published before the
  one that was rolled back; a session closed while a chunk is in the ASR thread's
  hands flushes the rows after it first.
* `WaitsOnlyForInFlightUntilFault`: a call that fails before its first commit, a
  dropped chunk, an error inside the window, a failed COMMIT: each loses a sequence
  number the window goes on waiting for, until the session is closed or recovered.
* `HidesNothingUntilFault`: an unreadable `state.json` starts an empty run whose
  snapshot is valid and becomes the newest cache; eviction does the same.
* `NoHolesUndisturbed`: a full fetch that overlaps another, a poll answered with
  less than everything newer, a reused cursor, or an event stream that has missed
  something.
* `EverySlotAccountedFor` leaves out what a session hears before it completes its
  first chunk: if it ends before, `last_audio_end_utc` is unset and the next
  session records no gap (`storage.py:296`). It also leaves out the span of a chunk
  whose `persist_segment` failed, for which no gap is recorded (`worker.py:381`), and,
  while a connection lasts, what its timestamps lag behind the air (`Lag`): the time of
  a chunk is counted in samples, a stall shorter than a select's wait is never tested
  for the read time-out (`capture.py:373`), and so any number of them adds up; the gap
  after the connection makes it good. It does not say that timestamps are true. A chunk
  bears the time at which its connection gave audio, too early by the lag or by the size
  of a burst. And a chunk may overlap the gap before it, because the first bytes are
  dated by their own length before the end of that gap (`capture.py:409`, 416), and a
  burst is moved back by as much as it is ahead of the clock (257): over the gap, or
  over the chunk before. `backdated` holds exactly these slots, and nothing else is
  both transcribed and in a gap.
* `OutageClears` speaks of a worker that is done with its queue when an outage is
  reported. Otherwise the status the first bytes look for may be overwritten
  between `_handle_connecting` and them, and the error stays until the next
  reconnect (`worker.py:255`). On the other hand a reconnect clears the error of any
  part, so a report can be healthy whose last transcription or write failed, and the
  branch that should clear an ASR error (`worker.py:311`) is never taken: line 301 has
  overwritten the status it asks for.
* `AudioLeaves` leaves out a file whose unlink failed (it is ignored, and the row
  forgets the path), the audio of silent, failed and killed chunks, which no row
  names and no sweep looks for, and what a restore brought back or orphaned.
* `ModelIsWholeUntilKill`: a kill within the removal of an old model can leave
  `model.bin` and `config.json` without the rest, which every later start takes for
  a model and fails on.
* `ProfileReachesWhatWasSeen` leaves out profiles that ran out of room, and what a
  sitemap lists and whose URL looks like nothing, both such a page's records and such
  a record: the reconnaissance asks for everything a sitemap lists
  (`anycity_crawler.py:687`), the harvest reads no sitemaps, and a page links to the
  record in vain if its text says no more (1011). The memo of `MCCityHarvest` is one:
  without `Slips(d)` the property is false. (Documents listed in a sitemap alone are counted in
  `candidate_documents_seen_in_recon` and never harvested.)
* `RecordsFaithful` says what the code does with words, which is not what it promises:
  captions that show each line once lose a line that repeats the one before it. That
  is the finding of `caption_wording`, whose `WordingIsUnchanged` is the promise;
  `RecordsFaithful` adds that nothing else is lost, and of rolling captions nothing.
* `CatalogTrue` lets the catalogue lack transcripts a run had written when it died; a
  time-out of `yt-dlp` kills a run that way (`fetch_transcripts.py:223`). Two videos of
  one day are kept apart by `expected_file`, which is given when the second is added
  (see `DistinctFiles` in Section 4 for the one day where it is not).
* `NothingLost` leaves out an append to a file a killed run left without a line end:
  its first record is glued to the torn one and lost until another append
  (`audit_ingest_node.py:507`); and an append during which a rebuild replaced the file
  (`:545`): its records go to a file nobody can open any more. Of a remote data set
  it leaves out a reading during which a row already read was removed: the row that
  moves up to its place before the offset is never read (`:327`, `:348`).
* `FinalIsTruth` names in its comment what the parser cannot tell: a bare outcome of a
  motion with another one under it, a decided motion to strike (renamed, but counted
  as a main motion), and "withdrawn" after an outcome. `RolesFollowTheFloor` speaks of
  the segments before the first one whose cues are misread (`Misread`: an introduction
  and a hand-back in one segment, the wrong one last), `OneItemAtATime` leaves out
  passages that begin within a second of each other.
* `AccusationsAreReal` and `LifecyclesAreOrdinances` are about titles that stay alike
  from one meeting to the next and about intervals as the record has them; an
  ordinance dormant for more than 200 days is taken for a new one, and called pending
  for ever if it was postponed last (`reconcile.py:263`). A meeting without minutes has
  the listing's date, a day late, so a postponement to it can be called broken.
* `DatasetSurvives` is about the latest data set a build has completed, up to its
  inventory. Three runs lose it, or can, and from their start on `risked` excludes it:
  a build over a tree that holds the only copy, which it writes over file by file
  (`build_atlas.py:443`), so that a kill leaves no whole copy but what the raw sources
  give; a lock begun on a tree that holds a part of it, after a run was killed; and an
  unlock after a build that was not locked.
* `OneDataset` says when a right passphrase is refused: a re-lock
  between two loads of the page, with the head still in the HTTP cache
  (`lock.js:93`, `force-cache`). It does not say that a locked page has dropped what it
  had decrypted, and the model shows that it has not: a decryption awaited when the
  button is pressed ends after `LockNow` and puts its text into the cache that was just
  cleared (`Decrypted`; `lock.js:133`, 136), where it stays while the page asks for the
  passphrase. `lock.js:219` ("every decrypted byte is dropped"), `app.js:266` and
  `atlas/README.md:91` say otherwise. The key is gone and nothing of it is drawn; the
  disagreement has no run here.

**Fairness.** `ThreadFairness`: weak fairness for each thread's own work, for a
stop once it is called and a restart after a clean end (a supervisor restarts the
service); nobody has to call stop() or to speak. A transcription need not end,
except where `TranscriptionEnds` is the stated premise. `WF(HealthCapture)`,
`WF(Asr)`: the threads are scheduled and time passes; the source owes nothing.
`RetentionFairness`: a running service sweeps, and one that was killed is restarted.
`PollFairness`: the panel's timer ticks and fetches do not fail forever, strong
because the bound on fetches on their way disables them in between.
`CrawlFairness`: the daily schedule, each step of a run, and a `robots.txt` that can
be read now and then (strong: it may fail in between). All other runs check safety
and assume nothing.

## 4. Proofs

TLAPS checks the following for every value of the constants that satisfies the
modules' assumptions.

* `ScannerWorkerProofs`, the store: `TypeCorrect`, `PublicationOrder`, `WindowProgress`,
  `RecoveryIsComplete`, and `StoreIsCursorLog` (the store implements `CursorLog`).
  The inductive invariant `IInv` joins, besides the types, six parts.
  `TransactionInv`: the open transaction only adds cursors to the committed ones,
  above all of them and all different, and a chunk without a row has none.
  `SessionInv`: which method can hold the lock in which state of the process, what
  the session table says meanwhile, and that rows of older sessions are published
  once the process is up. `WindowInv` (until a COMMIT fails): below the front of
  the window everything is reported and published, from it on everything is staged;
  inside the loop the same holds of the committed cursors and the old front, which
  a rollback goes back to. `ProgressInv` (until a completion or a transaction is
  lost): what is reported lies below the front or is remembered in memory, and a
  call ends only when the loop can go no further. `CloseInv` (unless closed late):
  a flush, and a closed session, has nothing in flight. `OrderInv`: the order of
  publication as the open transaction sees it. None of the checked invariants is
  inductive alone: order needs to know that what the window has passed is
  published, and that needs the transaction's relation to the table at every
  statement in between.
* `ScannerWorkerProofs`, the worker: `WorkerImplementsStore` (each step of a thread is a step of
  the store or leaves it alone, so the store's theorems hold of the service;
  `ServiceRecovers` draws one of them), `WorkerTypeCorrect`, `SentinelDrains`,
  `FilesAreTemporary`, `ReportsInOrder` and `PublishedAreAnnounced`. The invariant `WorkerInv` adds to the
  store's: `StopInv`, the order stop() keeps (the sentinel is the last entry, put
  when the capture thread is gone); `FlightInv`, a chunk cut and not reported is
  with the capture thread, in the queue or in the hand of the ASR thread;
  `FileInv`, which of them have a file; `FifoInv` and `ReportInv`, the pipeline
  carries chunks in the order they were cut, so everything reported is older than
  everything in flight unless a chunk was dropped. `ReportsInOrder` combines the
  last with the store's `WaitsOnlyForInFlight`: a row that waited would wait for
  an older chunk in flight, and there is none. `PublishedAreAnnounced` adds
  `OldestInv` (the chunk a thread reports is older than all others in flight) and
  `AnnounceInv` (published and announced differ only within a call that will
  announce, or after a fault).
* `CityMirrorProofs`: `SavesHideNothing` and `PublishesWhatItRecorded`, from
  `ShapeInv` (the files and the queue are well formed in each phase), `KeepInv`
  (the run's records contain those of the cache it was restored from), `FilesInv`
  (a recorded document's file exists) and `RecordedInv` (and holds the recorded
  version unless a crawl was killed). `BudgetIsKept`, all of
  `WithinArchiveBudget` with the types, is about two folds. `FoldExists` and
  `FoldsAgree` show, with a least subset for which they would fail, that the
  function a fold chooses exists and is the only one; so `ArchiveBytesCounts`:
  `ArchiveBytes` is the number of bytes of the records, and archiving a version
  changes it by the difference the code adds (`ArchiveReplaces`); and
  `FoldEnqueueKeeps`: the queue holds each URL once. `BudgetInv` says of the cache,
  the directory and the run that the sum is that of their records and within the
  budget.
* `ScannerOperationsProofs`, the capture loop: `CaptureTypeCorrect` and `OutagesAreRemembered`, the
  latter from the invariant that an attempt which has given bytes owes no gap
  and one that follows audio does, in every stage. `HealthImplementsCapture`: each
  step of `ScannerHealth` is a step of the loop or leaves it alone, so the second
  theorem holds of it. `FaultsAreShown` adds
  `ErrorStays`: once bytes were received the status is neither of the two under which
  first bytes clear an error, and no chunk is transcribed under the status of a failed
  transcription, so the two places that clear an error cannot reach a fault's.
* `ScannerCoverageProofs`: `EverySlotIsAccountedFor`, all parts of
  `EverySlotAccountedFor`. In `CoverageInv`, `InLine` orders what is in the process:
  what was completed, the chunk in hand, the queue, the end of the last chunk cut, the
  buffer or the outage, now. As a chunk can be dated back over the one before it, what
  rises along the line are the ends. `Clear` says that of all this only what was dated
  back over lies in a gap, `AllAttended` that only that was not on the air, and
  `Complete` that from the start of every chunk in the process to the end of the last
  one cut nothing is left out (`CoveredFrom`: kept by the tables, or in a chunk that is
  completed later), that a gap reaches from there to the buffer, and that the tables
  are complete for the sessions that ended.
* `ScannerOperationsProofs`, the panel: `PanelHasNoHoles` and `PanelTypeCorrect`. `NewestPage` and
  `NewestRows` say what a page is in a set with a total order: it has as many rows as
  fit and with a row every row above it. `PanelInv` joins to the types `RowsInv` (the
  table is a suffix of the published rows, and cursors grow until one is reused),
  `StreamInv` (the unread events are those of the last rows announced) and, while
  undisturbed, `PanelOK`: what is shown has no holes among the rows that are due; the
  answer of a full fetch has none either, and is the only fetch there is; the answer
  of a poll has every row between its two cursors, and a row above its first cursor
  that is due is in it or on screen, or was pushed off. The last part is what lets
  polls be answered and delivered in any order.
* `ScannerOperationsProofs`, the processes: `ProcessesAreExclusive` and `CacheIsWholeUntilKill`, for
  any number of processes and feeds. The first rests on `WorkersHoldLocks`: between
  its acquisition and its release a process is the one holder of its feed's lock, and
  a session is active only under it. The second rests on which files of the model are
  there at each step of an installation, and on the removal being the one step in
  which they are not all there.
* `ScannerOperationsProofs`, the retention: `RetentionIsTruthful`, for every policy and every number
  of recordings. The invariant says for each recording in which of its stages (not
  yet captured, pending, stored, in a sweep, swept) the row, the claim and the file
  can be, in the database, in the sweep's transaction and in the backup; the sweep's
  own list has to be part of it, because the files go before the transaction that
  forgets them commits.
* `CityHarvestProofs`: `OutputIsAlwaysRecorded` (with the types), `UnfinishedIsFirst` and
  `NothingIsForgotten`, from the array of `heapq` up. `PathFacts` and `PathDownIsChain`
  say how the positions of one path of a binary tree lie; what a push or a pop puts in
  each position comes from a position of its own (`from` in `PushIsHeap`, `PopIsHeap`),
  so entries stay different, and the order of the heap follows case by case.
  `EnqueueEachGrows` shows what the loops of `run` schedule, `StepsExist` that their
  recursive function is there. `TypeInv` holds the counters that decide between equal
  scores apart and counts visits: scheduled is visited or waits. `WorkInv` says while a
  run crawls that its leftovers are scheduled, those that wait with `PendingScore`, and
  everything else but the seed with less (`LeftoversFirst`); `OutputInv` that the
  documents are those of the run's records, and those copied those to be listed.
* `CityHarvestProofs`, the reconnaissance: `ProfileReachesIt`. `ReconInv` keeps with the
  queue why each URL is in it (`Came`: the seed, a sitemap, the score, a link on the
  seed's page), that scores only grow and stay within what link text gives, and that
  pages are no documents; `TownIsInScope` that the scope, which grows during the crawl,
  never decides otherwise than at its start. Then any set of URLs that has the seeds and
  is closed under the links a harvest follows has the record.
* `AtlasProofs`: `DatasetAlwaysSurvives` and `PageAlwaysShowsOneDataset`, for any
  threads, builds, locks, killed runs, loads and reads. `LockInv` says per run what is
  whole while another place is not: until its inventory is written a build is not the
  latest data set, and one that did not risk it has it in the stash or the ciphertext,
  which no build touches (`BuildInv`); a lock that was not begun on a part has the whole tree
  while the ciphertext goes and comes (`LockingInv`), and what `EncryptInv` says of the
  blobs and the head written so far becomes, with the manifest, a whole ciphertext that
  verifies; stash and unlock touch the plaintext beside a whole ciphertext only
  (`AwayInv`). `ViewerInv` rests on `BlobTrue`: whatever was encrypted under a salt, on
  disk, in the HTTP cache or in a read under way, is what the tree held when that lock
  began, and no tool changes that (`ToolGrows`). So a blob that opens under the page's
  key is of the page's lock, however old it is. `Listed` shows that `InOrder` lists each
  file of a set once, by counting ranks.

* `AuditIngestProofs`, the text: what a transcript says is computed by four functions
  that count through a sequence (`EmittedLines`, `Paragraphs`, `Merged`, `Unrepeated`).
  The provers cannot choose such a function, so for each a lemma says that it exists
  (`CueStepsExist`, ...), by `Induct`, an induction over the set of the numbers where a
  statement holds. `EmittedOfRolling` and `EmittedOfPlain` say what is left of the
  windows; `Cuts`, that the pieces of a sequence follow each other without a hole and
  none is empty; `ParagraphsCut` and `MergedCut`, that paragraphs and then passages cut
  the emitted lines; `WordsOfCuts`, that pieces joined again are the whole.
* `AuditIngestProofs`, the fetcher and the runs: `CatalogIsTrue` (with the types),
  `RecordsAreFaithful` and `NothingIsLost`, for any number of meetings, incidents and
  runs and everything that may be said. `ArchiveInv`: a transcript lies where
  `target_file` puts its meeting, a catalogue names no other place, and what a run has
  written but not saved is in the list it will save. `JobsOK` says of a run, while it
  reads, what the file had when it came (`Writes`: known and written are apart) and that
  what it has not come to yet is all it lacks of an archive that stays (`Covered`), on
  which zero loss rests. `RecordsOK`: no record is there twice, which an append keeps
  only because the command line is the one process that appends. `SoundInv`: whatever
  is in the file or a buffer is timed where it was spoken.
  The first two theorems assume `DistinctFiles`: `target_file` gives no two meetings
  that are fetched one name. Without it the second transcript replaces the first, as
  the mutant `TargetByDate` shows. It holds of `meetings.json` but for the two planning
  commissions of 2026-03-02: they have files (`-a`, `-b`), no `expected_file`, and would
  share a name if both were ever fetched anew. `NothingIsLost` needs no such assumption.
* `AuditIngestProofs`, the remote rows: in `RemoteInv`, `Passed` says that of the rows
  that stayed as they were those whose place lies before the offset have been read, until
  a row before it is removed. `PlacesAreTaken` and `PagesAreFull` count the places: n rows
  have the places below n, so a short page is the last one.
  `NothingIsLost` is stated of `Spec /\ RemoteSpec`, in which the archive and the data
  set change in any order; the run's `SourcesSpec` lets one of them change at a time.

* `AnalysisProofs`: a step of these models is a sentence, a segment or a decision, and
  what the code makes of the whole text is a function that counts through it. So first
  what such a loop computes: `LoopExists` and `LoopsAgree`, by `Induct`, with
  `GreatestIs` and `LeastIs` for the least and greatest of a set.
  `ItemsHaveTheirResult` and `VotesAreBallots`, for any council and paragraphs of any
  length: `CouncilInv` says how the clerk's text so far is understood while the motions
  are pending (`OnTheFloor`), that in an unambiguous text each outcome is read with the
  verb that was decided (`VerbIsRead`) and none before the last decided the item
  (`ReadAsDecided`); `BallotsInv`, that the votes noted are the ballots one by one, for
  which every form a vote can be written in is read back (`RecordedIs`).
  `RolesKeepTheFloor`: `LabelIs` says of one segment that the code's state follows its
  last cue unless `Misread`, `FloorStep` the same of the floor, and the two are compared
  from segment to segment. It needs nothing of the alignment.
  `NoMatchingIsBetter` needs recursion over a finite set by a rank (`RecursionExists`,
  `RanksAgree`): the totals of the dynamic program by the time of the anchor
  (`HeaviestIs`), the chain traced back from the best pair (`ChainIs`), the sum over a
  set by its size (`TotalIs`), in whatever order it is taken (`TotalWithout`).
  `MatchingsWeighLess` is the argument: a matching whose last pair is c weighs no more
  than the total of c; and `ChainsAre` that the chain weighs what its last pair has.
  `EverySegmentHasOneItem` rests on two facts alone: the captions' times do not go back
  (`MeetingInv`), and the aligned items start with segments, one after the other
  (`AlignedIs`, from the order of the chain). So `FirstFromIs` and `WithinIs` place every
  segment, `Telescope` and `RolesFillTheRange` add up the seconds, `CommentStartsAdd`
  joins the ranges of the items, and `PassageIs` says which times a passage spans.
  `NobodyIsAccusedWrongly`: `LedgerInv` says that a meeting is listed for its day or a
  later one and `SimIs` that titles of one ordinance are alike; then R1, R3 and
  `EntryForIs` follow for any number of meetings and ordinances.
  `LifecyclesAreTheirOrdinances` is about R2. `HistoryInv` says what an ordinance has
  behind it: meetings are held in order, no entry is past the reading that is due, and
  of two entries the earlier one decides nothing and is not the higher reading. The
  readings are traced to the entries they are from (`FlattenedFrom`, `Origins`); sorted,
  by counting ranks (`SortedIs`), those of one ordinance are in the order of the acts
  (`ReadingsAre`). `Grouped` is the invariant of the loop: a lifecycle has readings of one
  ordinance at rising places, and another of the same begins after its end and more than
  200 days after any reading before it (`Alone`). `PlaceIs` gives the two cases of a step,
  `JoiningKeeps` and `BeginningKeeps` keep the invariant, `FlagsAre` and `OneLifecycle`
  conclude: an ordinance never dormant has nothing `Alone`, so one lifecycle.

Only model-checked: everything temporal that is more than an action property
(liveness under fairness and ENABLED are out of the prover's reach). Every safety
invariant of a run is stated by a theorem.
The type invariants of the store, the worker, the capture loop and the panel are theorems
of their own; those of the other modules are the first conjunct of a checked property
and proved with it, or, in the analysis, part of the invariants above.

## 5. Assumptions and abstractions

* One feed per database; two feeds in one file share the cursor sequence and are
  serialised by SQLite. The wall clock does not go back.
* `audio_sha256` de-duplication of a segment is left out: sequence numbers are
  unique within a session. A persist that is repeated is `PersistAgain`.
* stop() always joins the capture thread in time (it waits at most five seconds
  for the queue and eight for ffmpeg, of thirty).
* Gap and status events pass through the broadcaster's queue like segment events;
  they are not told apart from a queue that is smaller.
* `ScannerCoverage` reads audio a slot at a time: the first bytes of a connection are
  dated back by one slot, in the code by the length of what was read (16 KB at most).
* The resolution of the source takes no time in `ScannerCapture`; ages are told
  apart up to `MaxAge`.
* In the crawlers the kind and the links of a URL do not change; `source_status`,
  the change log and the recovery note are display only and left out; sitemap
  bytes are not counted; the harvest's byte and time budgets are the fault
  `budget`, and per-host robots are the outcome `Refused`; link depth counts up
  to 2, from where on it makes no difference. `ReconMinScore` is at least
  `FocusedMinScore`, as in the default configuration; redirects end where they start.
* `ScannerHealth` takes the put of a chunk and the change of status after it as one
  step. A write to the database does what follows it or shows its fault.
* `ScannerProcesses`: the kernel releases a killed process's lock; a rename of a
  directory is one step, a removal is not.
* `TranscriptFetch`, `AuditIngest`: one command-line tool runs at a time (a workflow
  with one job), beside the dashboard; a write of the catalogue is one step; one
  of the records of an archive may fail to serialise.
* `RemoteSource`: a server keeps the order of ids; Socrata gives the 1000 rows a page
  it is asked for. A row's record is its text: two rows of one text are one record.
* `CouncilMinutes`: the clerk writes in the forms the parser's patterns and the
  repository's minutes have; names, kinds, titles and dates are found by the patterns.
* `MeetingAnalysis`: scores are whole numbers over 840, so that every share of a title
  is exact; the captions' times do not go back. The agenda is a sequence whose titles
  have finitely many words.
* `OrdinanceLedger`: the likeness of titles is by ordinance, with `Kept` per cent after
  a substitute and `Others` between two ordinances.
* `AtlasLock`, `AtlasViewer`: `shutil.move` is one rename; one tool runs at a time; the
  passphrase does not change; a seal is a lock without a stash; of the page's reads
  those of the index and of the threads are modelled, the inventory's is one more; authenticated
  encryption opens exactly what its key wrote.

## 6. Not modelled

Parsing, formatting and rendering; the ffmpeg process and the speech model;
authentication; configuration and its validation; counters and latencies of the
scanner; the fingerprints of platforms and URL templates; change logs and recovery
notes of the crawlers; the lexicon and the classification of passages; R3's search in
the raw text; `report.py`; the parsers of the Atlas
build and what its viewer draws; the plain mode of the Atlas; the components
marked `not_modelled` in `PROJECT.json` (read-only pages, one static file server,
configuration).

Some behaviours of the code are stated with the properties that exclude them and have
no run of their own. Of the page's cache after a re-lock the documents say otherwise
(Section 3, `OneDataset`). Of the others no document does: a dropped chunk
stalls the rows after it until the session ends (`worker.py:286`), a row whose event is
missed never appears (patch line 13507), and of work left over one page can be
pending in every run (`anycity_crawler.py:1016`), because the saved list is the heap's
array and all its entries get one score.

## 7. Plan

1. `ScannerHealth` over `ScannerWorker`, so that counters and faults of the store meet
   the status; subscriptions that end.
2. The fetch workflow's commit and push around `TranscriptFetch`, and two workflows
   that push at once.
3. The files of `official_records.py` and the local sources (CSV, JSON lines, text
   files) of `AuditIngest`.
4. R3's text search in `OrdinanceLedger`.
5. The cache of a re-locked page: a property that a locked page holds nothing decrypted,
   once `lock.js` compares the lock an answer belongs to before it keeps it.

The two violation runs document disagreements between the code and its own words.
When the code is changed, they become passing ones.
