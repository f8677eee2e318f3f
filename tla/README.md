# Atrium in TLA+

Atrium (`src/src/atrium`, about 46,000 lines of Python) is a media server that answers the Jellyfin API. One process: an asyncio
event loop that serves HTTP, a handful of background tasks, worker threads for blocking work, SQLite behind
SQLAlchemy, and `ffmpeg` as a child process for every conversion. This directory holds TLA+ models of the parts
whose correctness depends on the order in which those run, their TLC configurations, and TLAPS proofs.

Paths below are relative to `src/src/atrium` unless they say otherwise.

| File | What it is |
|---|---|
| `TranscodeSessions.tla`, `MCTranscode.tla`, `MCTranscode*.cfg` | HLS transcode sessions, their encoders, the sweeper, the server's stop |
| `TranscodeSessions_proofs.tla` | its theorems |
| `PlaybackReports.tla`, `MCPlayback.tla`, `MCPlayback*.cfg` | playback reports and marks, the stored rows, the reaper of silent sessions |
| `PlaybackReports_proofs.tla` | its theorems |
| `SessionActivity.tla`, `MCActivity.*` | logins, tokens, the buffered activity and its flush |
| `SessionActivity_proofs.tla` | its theorems |
| `OwedScans.tla` | what the scanner promises, abstractly |
| `Scanner.tla` | the scanner that keeps it |
| `Scanner_proofs.tla` | its theorems, the refinement among them |
| `LibraryScan.tla`, `MCLibrary.*` | the scan itself, inside the scanner, against a disk that moves |
| `LibraryScan_proofs.tla` | its theorems |
| `Productions.tla` | requests that have ffmpeg produce a file, a stream, a subtitle |
| `Playlists.tla` | a playlist and the users who do not see all of it |
| `ItemMetadata.tla` | one item's metadata over its scans |
| `ItemMetadata_proofs.tla` | its theorems |
| `DeviceProfiles.tla` | how a client's words about itself are read |
| `Ladder.tla` | how a file would be played: direct, copied, encoded, not at all |
| `Negotiation.tla`, `MCNegotiation.*` | the answer, the address it gives, what is decided from the address |
| `Negotiation_proofs.tla` | its theorems |
| `MCParts.*` | the instance of `Productions`, `Playlists`, `ItemMetadata` and `Scanner`, each on behaviours of its own |
| `Parts_proofs.tla` | the theorems of `Productions` and of `Playlists`, and that the four parts behave there as by themselves |
| `PROJECT.json` | components, runs, mutants, the definition-to-line map, findings, hazards, theorems |

Check a run with `tlc -config MCTranscode.cfg MCTranscode` and the proofs with `tlapm TranscodeSessions_proofs.tla`.

## 1. The system

| Component | State | Operations | Talks to | What is hard | What makes it correct | Module |
|---|---|---|---|---|---|---|
| **Transcode sessions** `media/sessions.py`, `media/ffmpeg.py` | dictionary of sessions by key; per session its encoder, lock, last ping, furthest position asked; ledger of live processes; scratch directories | `obtain`, `ping`, `segment`, `stop`, `sweep`, `run`, `shutdown`; ledger `start`/`finish`/`shutdown` | HLS routes, lifespan, ffmpeg through files and signals | awaits in the middle of a restart; kill paths that take no lock; completion judged from file names; pausing by SIGSTOP; cancellation | one encoder per session, all listed; only finished segments served; every request answered; nothing left after a stop | TranscodeSessions |
| **Playback reports** `api/playstate.py`, `domain/playstate.py`, `users/playing.py` | a row per user and item; the last report of each session | three reports, marks, favourites, `reap`/`sweep` | the event loop and a reaper thread share the registry and the rows | read-modify-write of a row from two threads; removal before commit | positions only where one can resume; a played item stays played; silent sessions end | PlaybackReports |
| **Session activity and login** `users/sessions.py`, `users/service.py` | pending activity and check-ins in memory, session and token rows, failed-login counter | `touch*`, `flush`, `establish_in`, eviction, `authenticate` | auth dependency of every route, flush thread, shutdown | buffers swapped under writers; a flush that fails half way; an old flush after a new login | one working token per device, no check-in lost, activity moves back only behind a login | SessionActivity |
| **First-time setup** `users/first_account.py`, `api/startup.py` | first account, completion flag | read, update, complete | startup routes | nothing in one process | one first account; setup closes once | - |
| **Library scanner** `library/scanner.py` | pending requests, worker, stop flag, scan in progress | `request`, `stop`, `idle`, `_run`, `_scan_one` | library routes, lifespan, scan thread | merging, requests during a pass or a stop | every request leads to a later scan; one scan at a time; a stop returns | OwedScans, Scanner |
| **Library scan** `library/scan.py` and the rest of `library/` | items of a library and their inspections | walk, resolve, inspect, write, refresh, commit | disk, database, metadata, a negotiation that stores | vanished disks, files that change during a scan, a scan that ends anywhere | a scan left alone makes the rows describe the disk; an empty share removes nothing | LibraryScan |
| **Metadata** `metadata/` | item fields, locks, `refresh_pending` | refresh, merge, provider calls | scan, remote providers | precedence, two writers of one row, retries | a lock keeps its value; an outage leaves no trace; a rescan changes nothing | ItemMetadata |
| **Progressive delivery** `api/delivery.py` | partial and published remuxes, streamed encoders | `_to_scratch`, `_chunked` | ledger, client | clients that leave; two of the same at once | an encoder ends with its response; only whole files served | Productions |
| **Subtitle extraction** `media/extract.py` | artefact cache, one lock per artefact | `_produce`, `_locked` | ledger | timeouts, locks that are forgotten | one extraction per artefact; every request answered | Productions |
| **HLS plan** `media/hls.py`, `api/dynamic_hls.py` | none | boundaries, manifests | transcode sessions | rounding of the grid | segments tile the film | (TranscodeSessions) |
| **Negotiation** `media/decision.py`, `media/info.py`, `media/urls.py`, `api/media_info.py`, `decide_delivery` | none of its own; inspections of files nobody opened | decide, write an address, decide again from it | probe, device profile, policy, delivery | the second decision knows only the address; indexes move with a rescan | what is delivered is what was promised, within the profile's limits | DeviceProfiles, Ladder, Negotiation (LibraryScan) |
| **Playlists** `domain/playlists.py`, `api/playlists.py` | ordered entries, shares | create, append, remove, move, delete | database, scan | ordinals; entries a caller does not see | contiguous order; a move lands where asked and carries nobody along | Playlists |
| **Images** `images/` | cache on disk | read, render, write | rows and files | key from the row, bytes from the file | an entry is whole | - |
| **Byte ranges** `compat/ranges.py` | none | `negotiate_range` | delivery | boundaries | the bytes served are those asked for | - |
| **Queries and browsing** `db/item_queries.py`, most of `api/` | none of their own | SQL and response shaping | database | none that is concurrent | the database's | - |
| **Database** `db/` | rows | one unit of work per request | everything | two writers, reads outside a transaction | commit or roll back | in each |
| **Wire compatibility** `compat/`, `api/deps.py` | none | parsing and formatting | every route | formats | conversions | - |
| **Lifecycle** `server.py`, `lifecycle.py` | tasks, readiness | start, stop | all of the above | order of the stop | a stop that completes and leaves nothing | in each |
| **Configuration, command line** `config/`, `cli/` | files | read at start | - | - | - | - |

How they meet: the event loop runs every handler, and what lies between two awaits is one step. Three things run
beside it: threads (the reaper, the flush, the scan), child processes, and SQLite, which lets one writer in at a time
and whose readers see what is committed. Modules share no variables except that `LibraryScan` extends `Scanner`: the
other pairs meet only through rows that one of them reads (a playlist sees that an item is gone; a login's session row
is evicted under a flush), and that is in the module of the reader.

## 2. Plan

1. `TranscodeSessions` - done, with proofs: the most concurrent part, with the operating system in it.
2. `PlaybackReports` - done, with proofs: the user's data under two threads.
3. `SessionActivity` - done, with proofs.
4. `OwedScans`, `Scanner` - done, with proofs, the safety of the refinement included; `LibraryScan` - done, with proofs of all its
   properties.
5. `Productions`, `Playlists`, `ItemMetadata` - done, with proofs of all their safety properties.
6. `DeviceProfiles`, `Ladder`, `Negotiation` - done, with proofs of all their properties.
7. Every invariant and every action property of a passing run is a theorem; what only TLC shows is in section 13.

## 3. TranscodeSessions

**Correspondence.** `sessions` is `TranscodeManager._sessions`; `ses[r]` is the `TranscodeSession` object that
request `r` created, which outlives its place in the dictionary as long as a coroutine refers to it; `ledger` is
`ProductionLedger.live`; `disk[k]` is a scratch directory with the files of the muxer, ordered by modification time;
`enc[r]` is the process request `r` launched; `req`, `killer` and `stage` are the program points of the segment
requests, of the stop requests and the sweeper, and of the lifespan.

An action is what one coroutine does between two awaits. `Segment` is `obtain`, the ping, the download position, the
throttle and the look at the file, up to the first await; `Enter` takes the session's lock; `Begin`, `Spawn` and
`Started` are `_begin` before the halt of the old encoder, between it and the launch, and after the launch;
`SettledWhileProducing`, `SettledAfterProduction` and `Reaped` are one turn of `_settled`; `Stop`, `Sweep`, `Discarded`
are the two kill paths, whose loops over sessions advance one encoder per step; `BeginStop`, `Cancel`, `HaltAll`,
`ClearAll` are the lifespan's `finally`. `Opens`, `Advances`, `Writes`, `Crashes` and `Reap` are ffmpeg and the
operating system: no source here, so modelled from the command line the code builds and marked external.

**Abstractions.** Positions are segment indexes, as if every segment had the same length; the code's tick arithmetic
agrees with that on the grid it plans. `HaltAll` halts the sessions together where the code does one after another:
nothing but encoders runs beside it. An encoder dies only by a signal, by itself (`MayCrash`) or when its directory is
gone. The throttle's and the deletion's thresholds are counted in segments.

**Runs.**

| Run | Question | Result |
|---|---|---|
| `transcode_safety` | two requests, a stop, the sweeper, throttle, deletion, crashes, in every order: is an encoder ever unowned, unlisted, paused while owed, or left behind? | holds, 4,152,543 states |
| `transcode_liveness` | is every request answered, every abandoned session swept? | holds, 220,119 states |
| `transcode_orphan` | does a discarded session take its encoder and its directory with it? | violated |
| `transcode_unfinished` | is a segment served only when it is finished? | violated |
| `transcode_shutdown` | does a stop complete? | violated |

**Bounds.** Two requests are the two sides of every race in the code (a restart and a second request, a request and a
kill path), and the sweeper is always there. Three segments allow a jump ahead beyond the allowed gap, a step back,
and a file left over beyond the one being written; the initialisation segment is there too, and the deletion keeps two
segments, so that a file can be deleted that an encoder started again writes a second time. One key: sessions with different keys share nothing but the
ledger, which is a set. The liveness run has two segments and the initialisation segment and no stops, so that
nothing but the system itself answers the requests. Symmetry over requests is used in the safety run only.
Deadlock is not checked: when all requests are answered and the server has stopped nothing is left to do.

**Fairness.** `FairSpec` assumes weak fairness of every coroutine step (the event loop runs what is ready), of
encoders that are not paused, of the reaping of ended processes, of the ping timeout (time passes) and of the
shutdown's steps. New requests, stops, crashes and the server's stop are not assumed to happen.

**What the violations show.**

- *Orphan*: `_discard` pops the session and removes the directory without taking the session's lock. A request that
  is between `_halt` and `ledger.start` then starts its encoder for a session no dictionary has. The ledger still
  lists it, so only the server's stop ends it - which is what the passing run shows in exchange.
- *Unfinished*: `_settled` takes the existence of the next file for the end of the one asked for. After a seek back
  the next file may be one of the first run. `OwnFileIsFinished` says in the passing run that this, and the request
  that reaps an encoder while another is started, are the only ways.
- *Shutdown*: the awaits that end an encoder suppress `CancelledError`, so a cancellation that reaches the sweeper
  inside a discard is lost and the lifespan waits for a task that goes on sweeping.

**Proof.** `IInv` is the type invariant and `Order`: the lock is held exactly in `_begin`
(`LockIsHeldInBegin`); who holds it has no encoder in its session (`LockedHasNoEncoder`); a request that has not
launched has no process (`UnlaunchedHasNoEncoder`); the encoder a session records is one that was recorded by its
request (`RunIsRecorded`); every request past its start has a session (`RequestHasSession`). Ownership alone is not inductive:
that `Started` does not overwrite a running encoder needs that the lock keeps every other request out and that
every path that launches has first taken the old encoder off the session. From `IInv`: `TypeCorrectness`, `LockSafety`,
`EncoderOwnership` (`EncodersAreOwned`: the session and the ledger know every encoder that runs) and `StopLeavesNothing`, for any number of requests, stops, keys and segments.

Two more theorems are about the files, each with an invariant that relates a directory to the encoders that wrote in it.
`PausesAreHarmless` (`PausesStarveNobody`) has `Throttled`: an encoder that is alone in its directory has written there all that is there, in
order, up to the file it is at (`Own`); between where it began and where it is nothing is missing but what was deleted (`Kept`); whatever a
request of its session waits for is there, or deleted, or before its start, or still to come (`Coming`); and it is paused only with a lead. The
last is not inductive without the others: a lead is measured in files, and a look at the directory (`_producing_index`) tells the position of the
encoder only because the newest file is the one it writes. The proof found that the property as first written was not the code's:
it now says what a request that came too early finds (below).
`OwnFilesAreFinished` (`OwnFileIsFinished`) has `Tidy`: of what a running encoder has written only the file it is at is not finished (`Written`), no two files of a directory have
one name, and each has an age, the newer the smaller (`Dated`). A file is judged finished because a later one exists; that is right unless the later one is
another encoder's, and `Tidy` is what makes that the only way out.

**Read off the model.** Both come from the proofs.

- With fragmented MP4, the newest file is for a moment the initialisation segment, index -1. A request that jumps to a segment which is before the
  one the encoder was started at, but not further from -1 than a read-ahead may be, is then not seen as a step back (`_restarts`, `media/sessions.py:689-696`, from
  `_producing_index`): it waits for a segment that this encoder will never write, and is answered when production ends. The table in
  `media/sessions.py:28-35` has "It is behind the producing index | Restart". `PausedOwesNothing` therefore leaves out what is before the start (`from`).
- `_discard` (`media/sessions.py:634-646`) first awaits the end of the encoder and then takes out whatever session the key has by then, and its directory:
  a session that replaced the discarded one in the meantime goes with it.

## 4. PlaybackReports

**Correspondence.** `rows` is one user's `item_user_data`; `playing` is `NowPlayingRegistry._playing`; `known` the
sessions that have a row; `loop` the request being handled, with the row `get` read and the row `put` loaded; `sweep`
the reaper's thread, point by point through `reap`, `clear`, `sweep` and `commit_reaped`; `clock` the time.

Handlers are async functions that block on the database, so they run one at a time; the reaper's `sweep` runs in a
thread and its steps fall anywhere. A row is read twice by whoever writes it. `get` copies it into a `UserItemData` and drops it; the
identity map of the mapper keeps no row alive that nobody changed, so `put` issues a second `SELECT` and then assigns all columns,
of which the mapper writes those that differ from what it has just loaded. Reads happen outside a transaction, a write and
its commit are one step because SQLite lets one writer in. `Receive`, `Load` and the action named for the request are the three points of a
handler; `Read`, `LoadStop` and `RecordStop` those of the reaper. A second insert of one row breaks the primary key (`Conflict`): the
handler answers 500 (`Refused`), the reaper's pass ends (`CommitFails`). The transitions (`Resolve`, `OnStart`, `OnReport`,
`OnStop`, `OnMarkPlayed`, `OnMarkUnplayed`) are those of `domain/playstate.py`.

**Abstractions.** One user. `last_played_date` is left out, which is written with the other columns; the check-in of a report is in
`SessionActivity`. A mark of a series is a mark of each of its leaves. The 400
for a negative stopped position changes nothing and is left out, and so is a report of an item the user cannot see. The
interval between passes of the reaper is left out: a pass may start at any time. The two clocks the registry reads, the wall's and the monotonic one, are one.

**Runs.**

| Run | Question | Result |
|---|---|---|
| `playback_safety` | one film, six kinds of requests, the reaper in every order, commits that fail: what can be stored, and what can be undone? | holds, 2,690,120 states |
| `playback_liveness` | two sessions, two items, failing listings and commits: do silent sessions end? | holds, 104,918 states |
| `playback_lost` | is `played` never cleared by a report or a stop? | violated |

**Bounds.** The film has five ticks, of which the last but three can be resumed with the thresholds at 25 and 75
percent, so each of the three outcomes and each threshold is met; the clip of the liveness run is too short to resume. Time 0 to 2 with a
silence of one second lets a session be silent, report again, and be silent once more. Two plays are counted. One session plays and one
marks in the safety run; two play in the others. The registry and the rows are functions, so more sessions add no new kind of step.

**Fairness.** Weak fairness of the handler in progress, of the reaper, and of time; strong fairness of `List`: listing fails only if
the dictionary grows or shrinks during a loop of microseconds every five minutes, so some pass will list.

**What the violation shows.**

- *Lost*: between the reaper's `get` and its `put` the user marks the item played; `put` writes the unplayed row it started from.
  `PlayedUntilStartedOrUnmarked` and `SweepKeepsTheRest` say in the passing run that this window is the only one: what is
  committed after `put` has loaded the row survives.

**Proof.** `IInv` adds to the type invariant that the reaper has a stop in hand where it uses one (`StopInHand`), that stored positions can be
resumed, and that the position a handler *has read* can be (`ReadIsResumable`). The last is what makes it inductive: `on_start` and the favourite
write back the position they read, possibly long after the row changed. The action properties follow from what `Put` does to each column
(`PutColumns`, `PutOver`) and what each transition does to a row (`ReportEffect`, `StopEffect`). All hold for any sessions, items,
runtimes, thresholds and requests.

## 5. SessionActivity

**Correspondence.** `sessions` and `tokens` are one user's rows, one session per device; `pending` and `checked_in` are the
two dictionaries of `SessionRegistry`; `loop` is the handler in progress and `flushing[f]` the flush of the thread or of the stop,
each at its point; `writer` is who holds SQLite's write lock. `Request`, `CheckIn`, `LookUpHeld` and `TouchSession` are
`touch`, `touch_playback` and the two statements of `touch_session`; `Authenticate` and `Establish` are the login before and after its
first write, eviction included; `TakePending`, `TakeCheckIns`, `Read`, `Write`, `Commit` and the ways to fail (`Fail`, `Stale`) are
the statements of `flush`, session by session; `BeginStop` and `EndStop` are the lifespan's.

**Abstractions.** One user. A login and its session take their identifiers from a counter. A unit of work that fails is rolled back at any
of its statements; the time it waits for the lock is not bounded. A wrong password is one step: handlers do not overlap, so its read and
its write of the counter cannot be separated.

**Run.** `activity_safety` (1,734,512 states): a token works exactly as long as its device has a session and the cap holds
(`CredentialsMatchSessions`); a stored activity moves back only behind the last login (`ActivityGoesBackOnlyBehindALogin`), which it
can, because a flush may write what it took before the login; a check-in is kept unless its flush fails after it has popped it
(`CheckInsAreKept`); what arrives while the last flush runs is not lost (`CleanStopLeavesNothing`). The third states as an exception
what the code does: `flush` restores the entries it still holds, and has popped the check-ins of those it went through.

**Bounds.** Two devices over a cap of one make every login evict; two logins let one device log in twice or two once; times 0 to 2 put an
activity before, at and after a login; one failure is a failing flush or a failing login; one wrong password locks the account. No
fairness: nothing here has to happen.

**Proofs** (`SessionActivity_proofs`), for any finite set of devices, any cap and any bounds. `TypesHold` needs beside `TypeOK` that a handler or
a flush in the middle of its work has what its next statement uses (`Working`): a login its device, a flush that is about to write the row it
read. `CredentialsMatch` is then inductive by itself: only `Establish` and `Commit` write rows; the first removes the surplus and its tokens with it, so
that the cap has room for one more (`EvictionMakesRoom`), and the second makes and removes no row (`CommittedRows`). `CleanStop` needs `Stopping`: once
the server stops no handler runs, so what the last flush took from the two maps stays out of them unless the thread's flush fails and puts its own
back.

The two action properties are proved from `Dated`, which holds while the server is up and says where every date in flight stands: none lies
in the future (`Timed`); a flush takes the two maps and then reads each session once (`InOrder`); nothing is held of a session that no login has
begun, and no two devices share one (`Named`); what is held of a device's session is no older than its row, or else no newer than its last login (`Owned`); and what arrived
after a flush took is no older than what it took (`Ordered`). `ActivityGoesBack` and `CheckInsKept` read their exceptions off `Owned`; without
`Ordered` it is not inductive, because a flush that fails puts what it took back beneath what has arrived. They need that `None` is not the record
of an update (`NoTouchedAssumption`).

## 6. Scanner and OwedScans

**The contract.** `OwedScans` has for each library the strongest request it is owed and the one scan in progress. A scan begins only
for a library that is owed one, and either answers all of it or leaves what has been asked since, which may not be more; a request is given up
only when the server closes or restarts, or weakened when the database cannot list the libraries. Its fairness: a scan ends, and a
library that is owed again and again is at last left with nothing owed.

**Correspondence.** `pending`, `everything`, `stopping`, `settled` are the fields of `Scanner`; `worker` is the point the worker
task waits at or is about to run from; `batch` is what is left of its pass, `job` the call of `_scan_one` in the thread. `AddLibrary` and
`RefreshLibrary` are the two routes that ask; `TakeBatch`, `ListLibraries`, `NextScan`, `ScanReturns`, `PassEnds`, `Rest` and
`WorkerEnds` are the worker between its awaits; `Stop` and `Stopped` are `stop` before and after its await. `Restart` is the process
ending at any moment.

**Refinement.** `Contract == INSTANCE OwedScans WITH owed <- Owed, now <- job, lost <- unlisted, open <- stage = "up", starts <-
restarts`, where `Owed[l]` is the stronger of what `pending` and `batch` hold for `l` and what `everything` and `asked` hold for every
library there is. Taking a batch and listing the libraries are stutters; `NextScan` is `Begin`; the worker's early end is `GiveUp`.
`AnswersEveryRequest` is `Contract!Spec`, checked with its fairness.

**Run.** `parts` (4,156 of its states): the refinement; `idle` is told only when nothing is owed (`SettledOwesNothing`); a stop returns
whatever is left of the pass (`StopReturns`).

**Bounds.** One library there from the start, one added, one without paths; three requests, so one can arrive in each of three consecutive
points of a pass; one failing listing; one restart, which also ends a stop. **Fairness.** The event loop runs a worker that is ready, a scan
returns (it has no unbounded wait of its own), and the awaiting `stop` is resumed. Requests and stops need not come.

**Proofs** (`Scanner_proofs`), for any libraries, known or not, and any bounds. The invariant `Hands` says what the worker holds at each of its
points: a batch only during a pass, `asked` only while it lists, a job only while it scans; nothing is pending while it rests; and `settled` means
nothing is pending and no pass runs. That last one, and not "the worker rests", is what holds: a stop wakes a resting worker and leaves `settled` set.
`SettledIsTrue` follows at once. `KeepsItsContract` is the safety of the refinement, `Spec => Contract!Init /\ [][Contract!Next]_(Contract!vars)`:
each step is matched with the contract's (`RequestsAsk`, `WorkerKeepsContract`, `StopKeepsContract`). The step that has to be argued is the route
that adds a library without a scan while all libraries are being asked for: the new one is then owed a scan too, and that is an `Ask`. The
fairness half of the refinement is TLC's.

## 7. LibraryScan

**Correspondence.** It extends `Scanner`: between `NextScan` and `ScanReturns` the thread now takes the steps of `_scan_one`.
`disk` and `share` are what is outside: files with a version (their size, time and duration together) under a mount that shows its files, shows nothing, or is away.
`rows` and `probes` are committed rows; `scan` holds what the scan has read and, once it has written (`locked`), its own uncommitted view. `Walk` and
`Settle` are the two passes of the walker, `Resolve`/`Refused` and `RootUnreadable` the guards, `Inspect` the probe of the files
whose stored inspection is of other bytes, `Write` the rows, `Refresh` the provider, `Check` and `Commit` the end. `Open`, `Store` and
`StoreFails` are a negotiation that finds a film nobody has inspected. `Dies` is a crash.

**Abstractions.** An item is one file: no containers, no parts, no subtitles beside it. Local metadata says nothing here
(`ItemMetadata` has it). Opened files are read at one moment, the walk's two passes are two moments.

**Run.** `library_safety` (748,778 states). The property that says most is `AQuietScanDescribesTheDisk`: a scan during which nothing
moved and nothing failed leaves every row as the disk and the provider have it, after any history of disturbed, stopped, refused and
crashed scans and of negotiations that stored in the middle of one. `NobodyIsForgotten`, `AnEmptyShareRemovesNothing` and
`AfterStopNothingIsWritten` need not be quiet.

**Bounds.** Two files: one that the provider knows and one that it does not, and the least number with which a part of a library can go; half may go. Two
changes of the disk are a change and its reverse, or two files; one fault; three requests are three scans; one restart. Deadlock is not checked, here as in
the other runs: when requests and changes are spent there is nothing left to do.

**Read off the model.** The removal guard measures against rows that include the removed ones, so the more has gone the more may
go (`specs/003-library-configuration-and-scanning/plan.md:305` speaks of a library's items). A file that changes between the two passes
of the walk is skipped, and so its item is removed until the next scan. `refresh_pending` stays set when a retry finds nothing
to change. `confirm_removals` and `purge_removed` have no caller in `src/atrium`.

**Proofs** (`LibraryScan_proofs`), for any libraries, files, faults and requests. `ScansAreScanners` is `ScanSpec => Spec`: what the thread does lies
between `NextScan` and `ScanReturns` and touches no variable of the scanner, so whatever is proved of `Scanner` holds of the scan.
`NothingIsWrittenAfterStop` uses it: in `Scanner` a stop that has returned leaves no worker (`StopWaits`), and every write of a scan has a worker to
wait for it.

The other four rest on three invariants. `DataInv` says what a scan and a negotiation have in hand at each of their points; `ScanTypesHold` is part of it.
`Marked` says that a row is resolved or marked or of an item the provider does not know - in the committed rows and in the uncommitted view of the scan
alike, since either may be what is left: `EveryItemIsRemembered`. `AnEmptyShareCostsNothing` follows from what the guard has counted when a
commit removes the last item (`RootUnreadable`, `Refused`). `QuietScansDescribeTheDisk` has `Quiet`: at each point of a scan that nothing has disturbed, what has been walked is
what is on the disk, what has been settled has the version it has there, and once inspected and refreshed the scan's own view is what the row must be. It
is an invariant *about the past* of the scan (`quiet` was never cleared), so it says nothing about earlier scans, and need not: `Write` and
`Inspect` look at every file again or know by its version that they need not. Two facts about constants are assumed that the code provides: no row is `None`
(`NoRowAssumption`), and a file has at least one version.

## 8. Productions

**Correspondence.** A request is for a remux, a stream or a subtitle, and requests of a kind are for the same file. `at` is where its handler
is; `encoder` and `wrote` are its process and the file or pipe of its own; `live` is `ProductionLedger.live`; `locks`, `waiting` are the two
globals of `extract.py`, a lock being known by the request that made it, `entered` and `holder` who has found it and who has it. A step is what a handler
does between two awaits: `Launch` and `Finish` are the ledger's, `Publish` and `GiveUp` what follows the wait.

**What holds** (in `parts`): one extraction per artefact while any number asks (`OneExtractionPerArtefact`); no encoder,
no entry of the ledger and no lock outlives its request, also when the client leaves (`NothingOutlivesItsRequest`); what is served is whole
but for an extraction that failed or timed out (`ServedWhole`); and every request for a subtitle is answered though ffmpeg hangs
(`EveryExtractionIsAnswered`). The exception in the third is the code's: `_produce` judges by what was written, so a run that was killed on its
timeout is published, although its docstring (`media/extract.py:452-454`) says that "a run that died halfway leaves no file for the
next request to trust".

**Fairness.** The loop runs what is ready and timers come (weak fairness of each handler); a lock that is released wakes its waiters in turn, so a
request that can take it again and again takes it (strong fairness of `TakeLock`). ffmpeg owes nothing.

**Bounds.** Three requests: one that extracts, one that waits and one that comes when the first leaves; or two remuxes of one file beside a stream.

**Proofs** (the first part of `Parts_proofs`), for any finite set of requests and any mix of kinds. The invariant has three parts. `Locking`: all who extract have
found one lock, the one in the table, and who is past it holds it while nothing is stored - hence `SubtitlesAreExtractedOnce`. `Counting`: the count
of a lock is the number of those who have found it and not left, so that the lock is forgotten by the last of them and not before; without it the
first part is not inductive, since a lock forgotten early would be made twice. `Encoding`: what a process has come to at each point of its
request, from which `NothingIsLeftBehind` and `WhatIsServedIsWhole` follow: who judges no longer has a process, and one that ended by itself has written
it all or nothing. Liveness is TLC's.

## 9. Playlists

**Correspondence.** `ordinal` is `playlist_entries` of one playlist, item to ordinal, where nothing makes ordinals unique; `owner`, `public`,
`share` its row and its shares; `gone` the items removed softly. Every request is one transaction without an await and so one action, with
its guards in the order of the code (`Editable`, then the index). `Moved` is `domain.playlists.moved`, `Appended` and `Renumbered` are the
repository's. The code works on lists and writes them down; the model says the same of the rows they are read from and written to: an
entry's index in a list is its `Place`, the number of entries of the list that come before it (`Precedes` is the `ORDER BY` of `_order`), and
an entry put into a list pushes those behind it up by one (`Inserted`).

**What holds** (in `parts`): ordinals are contiguous (`OrdinalsAreContiguous`), on which `append` counts; and `EntriesKeepTheirPlace`: an entry lands at the
index its caller asked for in the list that caller sees (`MoveLandsWhereAsked`), and no request turns two entries round but by moving one of them, so
what was hidden or gone comes back between its neighbours (`NeighboursStayInOrder`).

**Bounds.** Four items, of which one user may not open one and the other two: between any two visible entries there may be a hidden
one. A batch names an item twice.

**Proofs** (the second part of `Parts_proofs`), for any finite set of items, any users, whatever is closed to each of them, and requests in any
order. The invariant is the types and that the rows are contiguous (`Rows`), and it is inductive as it stands, because all a request needs to know of the
rows is that they are 0, 1, ... without a gap. The lemmas are about places: they are ordered as the entries are (`PlacesAreOrdered`), no two entries share
one, and so they leave no gap (`PlacesAreContiguous`, by counting: as many numbers as there are places, each below their number). From that
`RenumberingKeepsOrder`, `AppendingKeepsOrder` and `InsertingKeepsOthers` say what each request makes of the rows, and `OrdinalsStayContiguous` follows.
`MovingLands` is the argument behind the comment of `moved`: those its caller sees before the moved entry are those before the neighbour that
caller named, however many others lie in between. With the three lemmas before it gives `EntriesStayWhereTheyWere`. That the items are finitely many
is assumed; a playlist is a table.

## 10. ItemMetadata

**Correspondence.** `item` is the row of one film or series: a set of values for each field, where it is `locked` and in which fields (`names`),
`pending` and `resolved` for `refresh_pending` and `metadata_refreshed_at`. `Refreshed` is `_apply_one` with everything it calls;
`Merged` is `merge`, `Applied` the rule of each field, `Sources` the order of the chain; `Scanned` is what `scan` does to one item, the
scanner's write and the refresh behind it. One scan is one action, since it is one transaction; between scans sidecar, artwork, file and
provider change as they like.

**What holds** (in `parts`). `AnOutageLeavesNoTrace`: when a provider that was away answers later, the item ends where it would have ended at once.
`ALockKeepsItsValue`: neither the scanner nor a refresh in any mode writes over a locked field. `ARescanChangesNothing`: a second scan of what has
not changed moves no value and touches nothing. Two of them have exceptions which are the code's:

- A sidecar that sets or lifts a lock does so when it is read, but the merge of that same refresh still uses the stored locks: the lock
  binds from the next one. So an outage in the scan that first reads a locking sidecar does leave a trace.
- A series whose sidecar gives a runtime differs on every scan, because `_differs` compares the stored runtime with the `None` the scanner has for a
  container; every scan of an unchanged library updates and refreshes it, although `library/scan.py:620` says that a rescan "does no metadata
  work at all".

**Bounds.** Seven fields, at least one for each rule of combination (scalar kept, scalar of the scanner, union, enrich, accumulate, re-derived) and one that is
measured; three sidecars (none, open, locking); the two modes between which the rules differ. Only the default one has a caller in
`src/atrium`; `local-only` would add nothing to a provider that is never matched.

**Proofs** (`ItemMetadata_proofs`), for any sidecars, artworks, provider contents and modes. `LocksHold` is `ALockKeepsItsValue`. Both
halves of a scan are shown to keep a locked value (`UpdateKeepsLocks`, `RefreshKeepsLocks`). The scanner's own half writes a name without a look at the locks,
so the proof needs that a row no refresh has been at has no lock (`RowOK`), and that is what makes it safe. `OutagesLeaveNoTrace` and
`RescansChangeNothing` compare two refreshes of one row. `Combined` is what a refresh makes of a row once the name it may give back is set aside: local
sources first, then the provider. A value that was applied is not applied to any further effect (`AppliedTwice`), for every rule of combination, and a
row that was refreshed asks the provider for no more than before (`AsksNoMore`). `MetadataTypesHold` is the type invariant. The theorems assume that a source credits
everybody once (`ValuesAssumption`): `_enrich` (`metadata/merge.py:352-388`) matches a person who is credited twice by position in a list, which a
set of credits does not have.

## 11. MCParts

`Productions`, `Playlists`, `ItemMetadata` and `Scanner` have nothing to do with one another, and each is small; `MCParts` checks them in one run, `parts`
(78,093 states), where `part` says which of them a behaviour is about and the other three stand still. No state of one is combined with a
state of another, so the run is the union of four. `PartsByThemselves` (`Parts_proofs`) proves that much: a behaviour of the composition is one of each of the
four, so that their theorems hold in it, the types of all four (`PartsTypesHold`) among them.

## 12. DeviceProfiles, Ladder and Negotiation

**Correspondence.** A client posts its profile and is answered with the file or with an address (`TranscodingUrl`); it follows the address, and
the delivery decides once more, by the same ladder but from nothing but the address's parameters. `Decide` is `decide`, with one operator for each of its
helpers: `Failures`, `Ceiling` and `Clamped` in `DeviceProfiles`; the plans, the choice of a target and the subtitles in `Ladder`.
`AddressOf` is `transcoding_url`; `AskOf` reads an address back as `decide_delivery` does, into a profile with one target, no direct play and limits for
any codec; `AnswerTo` is what the routes make of it, in the order in which they refuse: no such route, parameters that do not bind (`Bindable`), nothing
stored or no runtime (`Deliverable`), no permission, no command (`Commanded`: no stream, no muxer, no encoder); otherwise an encoder is started. A file that
would not open is `Unopened`, the streamless record that stands in for it and is never stored: `Rescan` has nothing to renumber there. Nothing changes
when a profile is held against a track without sound (`Refusable`). `Ask` and `AskAgain` are two requests of `PlaybackInfo`, the second without direct play because the
player failed on the file; `Follow` is any request of the address. Between them `Rescan` finds or loses a subtitle file, which moves every index,
and `ChangePolicy` changes what the account may do. `seen` remembers what the negotiation saw.

**Abstractions.** A value is a small number, a stream has five or three of them, and one property (`IsAvc`) stands for the eight whose conditions fail
without a reason and so without effect. Width goes as height does. Left out: the languages of subtitle tracks, the switch that burns them in, raw
containers (wav), what ffmpeg makes of a command it was started with (a muxer that cannot hold a
codec, no ffmpeg on the machine), the wording of reasons, and whatever the code writes into an address and never reads. A rate is printed by `Printed`, which may
give a little less or more than is held, as the shortest decimal of a single does (`media/info.py:375`).

**What holds** (`negotiation`, 539,946 states). `TheDecisionsAgree` says how far the second decision is the first: the streams are those
negotiated (`TracksAreThoseNegotiated`, which needs the file to be unchanged, for a rescan does move the indexes); no limit the address carries is
forgotten, though the address does not say which codec it was for (`LostOnlyWhatIsNotCarried`), but one of the bitrate below the minimum and one of
the frame rate that is printed at or above the rate; what was to be copied is, but for the causes named in `CopiesSurvive`; and following an address
starts an encoder but in the cases of `AddressesAreServed` (a playlist of an audio item, names too long for their parameter, a film without streams, segments
of a film without a runtime or for an account without both permissions, a container without a muxer, a codec without an encoder), each of which occurs in the run. `LimitsAndCapHold`: what
is delivered is within the limits the address carries, and the two streams share the cap, or the video is at its minimum. `MoreIsNeverWorse`: one
more target, one more entry, one condition less or one permission more never costs an encode. `TranscodingClaimHolds`: `SupportsTranscoding`
beside a direct play is kept.

**Read off the model.** The exceptions in these properties are the code's, and each contradicts something the repository says of itself:

- *Limits.* The address names sizes, bitrates and rates. Bit depth, level and channels are not in it (`maxVideoBitDepth` is read by the route and never
  written), and no plan has a frame rate, so an encode keeps the source's. The specification has "Delivered output satisfies **every** condition of the
  profile it was negotiated against" (`specs/008-playback-negotiation-and-delivery/spec.md:1031`).
- *Waived limits.* An entry whose `apply_conditions` do not hold still gives the address its limits: `ceiling` (`media/decision.py:1003-1030`) looks at
  `conditions` alone, though the docstring of `CodecProfile` (`media/decision.py:722-724`) says that they "are not consulted at all" then. And a
  condition that is not required, of a value nobody knows, is required at delivery (`_conditions`, `api/delivery.py:796-807`, states no
  `is_required`). Either way a copy that was promised is an encode when it is delivered (`CarriedThoughWaived`).
- *Copies.* A video within its own codec's limits is encoded because another codec of the target has a lower one. The same happens under a cap, which
  the decision compares with the whole file and the delivery, less the sound, with the stream; and to a rate that is printed below itself.
  `api/delivery.py:160` calls the pair "a round trip".
- *Routes.* An audio item with an HLS target is sent to `/audio/{id}/master.m3u8`, where nothing is; `media/urls.py:139` refuses to "advertise a
  route that answers nothing".
- *Offers.* A target whose codec no encoder produces, or whose container no muxer writes (`media/ffmpeg.py:150-171`), is offered, and its production
  fails, against `media/decision.py:1801` ("Advertising it and failing at delivery turns ..."). So does any address of a film that would not open, which is
  negotiated over `unopened` (`api/media_info.py:653-656`) and has nothing stored to deliver from (`api/delivery.py:624-630`), and the playlist of a film
  without a runtime (`api/dynamic_hls.py:394-398`).
- *Lengths.* An address writes the codecs of its target whole (`media/urls.py:172-175`), and the routes bind forty characters (`api/delivery.py:120`,
  `198-199`): a target with a longer list is answered with an address that is a 400.
- *Cap.* The sound is copied whatever the cap, so an audio item over the cap is remuxed at full rate, against `media/decision.py:1414`.
- *Tracks.* A `mov,mp4` file is played as `mp4` with a track that was admitted under `mov` and is answered `Encode`, against `media/decision.py:1346`.

**Bounds.** Five files: ten-bit film, clip with two tracks of sound and a container of two names, film without sound or a runtime, album track with a
picture, and one that would not open, asked about as a film and as a track. Some 5,300 requests in three families: any two of fourteen codec entries with each target and cap - among their conditions some that depend on another, some that
are not required and one nothing can fail; all switches with no conditions or all, and up to two targets; any
two subtitle entries in either order with each track selected. No request mixes subtitles with conditions: they meet only in direct play, where
either alone refuses. Two codecs per target (three are longer than a parameter may be: `ShortEnough` stands for the
forty characters), a container without a muxer, two limits per codec and a cap are what every rule of the address is about.
Three policies: all, no video encodes, nothing. Deadlock is checked; nothing is assumed fair, since a client may stop.

**Proofs** (`Negotiation_proofs`). Every property of the run is a theorem, for any files, profiles, switches, codecs and permissions. The types are part of the
model for that: `Inspected` is what an inspection leaves, `WellFormed` what a request may hold. Assumed are these two of the files and the
requests (`SourcesAssumption`, `AsksAssumption`), that permissions are sets of the three there are (`PoliciesAssumption`), that what lies beside a file has
formats (`BesideAssumption`), that the minimum is a number (`MinimumAssumption`), that a frame rate that is met is printed as one (`PrintedAssumption`;
nothing about how it is rounded), and that `None` is none of the values it stands beside (`NoneAssumption`, `NothingAssumption`). `Inspected` has three facts
that the code provides and the proofs need: a rate that is known is not zero (`_bitrate`, `media/probe.py:476-530`), no two streams lie at one place, and a
record without a container is `unopened`'s (`library/inspection.py:48-53`).

The inductive invariant is `Settled`: the decision is what the ladder says to what was asked and `seen`; the address is what `AddressOf` says of it; and
the delivery, while there is one, is what the ladder says to the address and the file as it now is; and a track that was held against a profile has sound. It is inductive because every change of the file or the
account takes the delivery back. What remains is then about the pure operators:

- `NegotiationTypesHold` shows that the ladder answers with a decision (`Decided`) and that an address always leads to a production (`DeliveryProduces`): its one target can hold the
  streams of any file that has those of the first, because what it does not name is the source's own.
- `TheSecondDecisionIsTheFirst` and `WhatIsDeliveredFits` unfold the second decision into two plans, one of each kind of stream (`DeliveryIsRedelivery`,
  `VideoRedelivered`, `AudioRedelivered`). The limits an address
  carries are a minimum over codecs of minima over entries (`Ceiling`, `Tightest`), and all that is used of them is that they are below each of their
  members and are one of them. That the audio of a copy survives needs that its limit is its own rate; that the two streams keep to the cap needs the case
  in which a copy reports no rate and takes the file's.
- `NobodyGainsByLess` takes a target, an entry or a codec entry away. A request that `Offers` what another does encodes no
  more for any target (`FewerAreEncoded`) and plays whatever the other plays (`WhatPlaysStillPlays`), so that its least work is no more (`NoDearer`).
- `ThePromiseIsKept` rests on the target not depending on whether direct play is asked for.

## 13. What only TLC shows, and what nothing shows

- Liveness (`EveryRequestIsAnswered`, `AbandonedSessionsEnd`, `SilentSessionsEnd`, `StopReturns`, `EveryExtractionIsAnswered` and the fairness of
  `AnswersEveryRequest`) is model-checked on the instances above. It depends on fairness, which is out of the prover's reach.
- Every property of a passing run has a mutant in `PROJECT.json`, a plausible mistake in the code that the run catches.
- The silent session that reports between the reaper's listing and its stop is stopped all the same, and a commit that fails takes the remaining
  stops of its pass with it (`users/playing.py:227` says the next sweep retries them). The model of section 4 has both behaviours; no run states
  them.

**Not modelled.** The map covers a small part of the repository's lines, and will: of 85,000 lines more than a third are `tools/`, probes that measure a
reference server and print; of the rest most are tables (cultures, error shapes, codecs), SQL that only reads, request and response shapes, and
parsers of names, sidecars, tags and headers. They have no state, nothing interleaves with them, and restating a format or a query in
TLA+ would test the restatement. Of what has state: the first-time setup and the image cache have one step per request; renaming a playlist, capabilities and a user's configuration each write one row. `PROJECT.json` has the reason
beside each component.
