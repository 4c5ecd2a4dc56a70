# A specification of the OTT platform

TLA+ modules for the parts of this repository whose correctness depends on the
order in which things happen, the configurations that model-check them with
TLC, and proofs about them checked by TLAPS. Paths below are relative to the
repository.

## 1. The system and its parts

A viewer's browser (`frontend-ui`) and an administrator's (`admin-dashboard`)
talk to `api-gateway`, which checks a token and forwards to a dozen small
services in Go, each with tables in Postgres, and to `transcoding-service` in
Python. Videos live in one S3 bucket (or in local directories): raw files under
`Movies/`, `TvShows/`, `Anime/`, streams under `hls/<file_id>/`.

| part | state it keeps | operations | hard because |
|---|---|---|---|
| transcode queue (`transcoding-service/file_watcher.py`) | `pending`, `processing`, two histories, in memory | `add`, `add_s3`, `get_next`, `mark_completed`, `mark_failed`, worker loop | four kinds of producers and a worker on one lock; restarts lose everything |
| Kafka consumer (`kafka_consumer.py`) | position, back-off; committed offset in the broker | connect, deliver, auto-commit, back off | redelivery, lost connections, undecodable messages, commit before the work is done |
| HLS publishing (`transcoder.py`, `storage_manager.py`) | temporary files, objects in the bucket | download, existence check, three encodings, playlist, upload | check-then-act over minutes, partial uploads, several runs for one prefix |
| file watcher (`file_watcher.py`) | observer, scanned directories | scan, `on_created`, `on_moved`, start, stop | files that appear during start-up or are still being written |
| media library (`media-library-service`) | none (the bucket) | list, search, stream ranges, upload, serve HLS | reads of a bucket that changes; range and page arithmetic |
| metadata (`metadata-service`) | `media` rows | TMDB look-up with cache, update, bulk upsert | asynchronous cache writes, lost updates, ignored errors |
| payment, subscription (`payment-service`, `subscription-service`, `PlansPage.jsx`) | orders; one plan per user | create order, capture, notify, upgrade | two databases, failures between them, repeated captures, two writers of one plan |
| user data (`user-service`, `interaction-service`) | profiles, history, watchlist, likes, ratings | add, remove, upsert | check-then-act with and without a unique index; saves out of order |
| authentication (`auth-service`) | users | register, login | little: one insert under a unique index, one read |
| gateway (`api-gateway`) | none | authenticate, forward, `/system/health` | fan-out with a deadline |
| deployment dashboard (`devops-dashboard-service`) | rolling check histories | check list, bump an image tag in git | commits racing on one manifest |
| front ends (`frontend-ui`, `admin-dashboard`) | session, suggestions, player position, upload queue | search, play and save, upload | answers that overtake each other |

How they interact: the admin uploads a raw video through the gateway to
`media-library-service` (`PutObject`); an event on `video.uploaded`, a `POST
/transcode`, or the file watcher makes `transcoding-service` run
`transcode_to_hls`, which writes `hls/<file_id>/`; the library lists a video as
playable once `master.m3u8` is there; the player reads playlist and segments
and saves its position to `user-service`. Payment calls subscription over HTTP.

What makes each part correct, as far as it is stated here, is in section 3 for
the parts that are modelled and in section 6 for those that are not.

## 2. Modules

| module | models |
|---|---|
| `JobLifecycle` | what the queue promises: absent, queued, running, one running key |
| `TranscodeQueue` | class `TranscodeQueue` and the worker loop; refines `JobLifecycle` |
| `KafkaIngest` | the consumer thread and the broker's offset, extends `TranscodeQueue` |
| `HlsPublish` | runs of `transcode_to_hls` in S3 mode over the shared bucket |
| `FileWatcher` | local mode: start-up scan, observer, worker and its streams; extends `TranscodeQueue` |
| `ViewerData` | constants the parts of the viewer front end share |
| `Session` | who is signed in: both `AuthContext`s, one localStorage, sign-in pages, route guards |
| `Search` | `SearchBar` with its debounce timer, and `SearchResults` |
| `LibraryPage` | `Library.jsx`: category, order, pager, cancelled requests, the two rows |
| `Watchlist` | hearts of `MediaCard.jsx`, `MyList.jsx`, the watchlist handlers of `user-service` |
| `Viewer` | composes the four: the routes of `App.jsx` mount and unmount their components |
| `ResumePosition` | `VideoPlayer.jsx` and the watch history of `user-service` |
| `AdminPages` | `admin-dashboard`: upload loop, polling pages, content library |
| `DashboardData` | the constant the two views of the deployment dashboard share |
| `Checklist` | checklist of the deployment dashboard: page polls and the shared history |
| `ManifestDeploy` | deployments of the deployment dashboard: page, service, GitHub, other committers |
| `MC...` | small instances for TLC |
| `...Proofs` | theorems and their proofs; `ViewerProofs` is about the front end but for the player, `DashboardProofs` about `Checklist` and `ManifestDeploy` |

`TranscodeQueue`, `KafkaIngest` and `FileWatcher` share one queue by EXTENDS, as
their code shares one object; `Viewer` extends the four modules of the front end
and joins their steps, because a route change touches all of them at once. The
other modules stand alone: what connects them to the rest is a request, whose
service is part of the module (`user-service` in `ResumePosition` and
`Watchlist`, the dashboard's Go service in `Checklist` and `ManifestDeploy`).

**TranscodeQueue.** Every method body runs under `self.lock`, so each is one
action; `add` and `add_s3` are `Add` (appended) and `AddIgnored` (known key).
An entry is a path or an S3 record, and `KeyOf` gives what the code compares: the
path itself, or `storage_key` (two events may carry one `storage_key` and
different `file_id`s). `item` is the worker's local variable, so that the claim
`processing` and the entry actually being worked on are two things that could
differ. `Restart` empties everything; `Stop` lets the worker finish its item.

**KafkaIngest.** `topic` and `committed` survive a restart, the rest does not.
A new consumer starts at the committed offset, or at 0 (`earliest`). `Deliver` is
one iteration of `for message in consumer`, with `_handle_event` and the
`add_s3` it calls. Events come in batches: `Poll` fetches and decodes all of the next one, `polled` is
its end, and there is no other poll before the loop has been through it.
`AutoCommit` commits the position the iterator has reached; the client does that
inside a poll, when the handler has returned for every event of the batch.
`DecodingFails` is the `value_deserializer` raising inside the poll, which drops
the consumer before it has yielded anything of that batch, the events that precede
the bad one included. How large a batch is, is left open. `fed` and `settled` are
history variables.

**HlsPublish.** A run is one call of `transcode_to_hls`; `object[p][f]` names
the run that last wrote an object, which also tells which raw video and version
it was made from. A file is the master playlist, or the playlist or the segments
of one quality. `Begin` covers the two callers: background tasks are
unrestricted, runs in `Sequential` are the worker's, one at a time. Encoding
goes through `Ladder`; a failing GPU encode is retried on the CPU, a failing
quality is skipped and may leave unfinished files, which are uploaded with the
rest. `rglob("*")` yields the files of the output directory before those of its
subdirectories (Python 3.11, the version of the Dockerfile), so `NextFiles`
sends `master.m3u8` first and the others in any order. `Leave` is the `finally`
clause, reached with its flag set from the end of the download on; an unlink that
raises is only logged, and `refused` remembers it. `overlapped` remembers the runs
that encoded or uploaded while another one did for the same prefix. `Kill` is the
end of the pod, together with its disk. An upload that raises may or may not
have stored its object.

**FileWatcher.** `Visit` is `os.walk` reaching a video, `StartWatching` the
start of the observer and, in the same step, of the worker; `OnEvent` is
`on_created` or `on_moved`, `Trigger` is `POST /transcode`. All of them call
`queue.add`. A video appears by a copy (announced when it begins) or by a rename
(whole at once); `gap` records those that appear after their visit and before the
observer starts. The worker's job is `transcode_to_hls` on the media
directory: check, one `EncodeNext` or `SkipNext` per quality (attempt and CPU
retry are one step here; `HlsPublish` has them apart), the playlist, opened empty
(`OpenMaster`) and then written (`CompleteJob`), and the outcome reported to the
queue. A crash or an error between the two leaves what `TornMaster` says: some of
the qualities, or none, in a file that is not `whole` and that the next check takes
for an existing stream. Files and streams outlive `ProcessRestarts`, everything
else is lost. `OutDirOf` is the code's replacement of `/` and `.` by `_` and
need not be injective. Left out: videos that are removed, paths outside the
media directory, and `stop`. Every video is taken to be in a directory of
its own, so that the scan can stop between any two of them.

**The front ends in general.** A component that is not mounted is `None`. A React
handler is one action with all the state it sets; an effect that runs because of
that state is part of the same action. A request in flight is an element of a
set: answers come in any order, and one to a component that is gone changes
nothing. A handler in Go that looks up a row and then writes it is two actions,
since neither a transaction nor a lock joins them. `inputs` counts what the
person at the screen does, which nothing in the code bounds.

**Session.** `storage` is the localStorage that the viewer and the admin
dashboard share on one origin; `auth` and `admin` are what each tab's React state
made of it when the tab was loaded. `Landing` is the two `ProtectedRoute`s. A
tab's copy may be stale: `Reload` reads storage again, `SelectProfile` writes it.
`orderly` remembers whether every session but the last was signed out of.

**Search.** `WithText` is `setQuery` with the effect it triggers: clear the timer,
then either clear the suggestions or start a timer of 300 ms. `Debounce` is the
timer. `last` and `seen` number requests and answers and `overtaken` records that
an older answer came after a newer one, which nothing in the component prevents.
`index` may point behind the end of a list that has become shorter.

**LibraryPage.** The effect's `cancelled` flag is the number `last`: an answer to
another request is dropped. `PreviousPage`, `NextPage`, `SetSort` and
`SetCategory` change one of the three things asked for and keep the others, the
page number included. Rows are fetched once for each mount and user.

**Watchlist.** `cards` are the mounted `MediaCard`s, several for one title.
`ClickHeart` disables a heart until its answer; `FindListed` and `StoreListed` are
the two statements of the service's add, so two adds can both find no row. `StoredUnder` is profile 0,
under which the card's requests without a `profileId` are stored.

**Viewer.** `Follow` gives what a route change does to each component: the search
bar lives as long as a main page is shown, the library stays mounted across
its categories, results and My List come and go. `SyncCards` mounts and unmounts
cards as rows and grids change.

**ResumePosition.** Positions are units of five seconds plus `whole`, whether the
number is an integer: `user-service` decodes the two numbers into Go integers and
refuses any other. `Open` mounts a player that asks for the history and tries to
play; `HandleEvent` is `onPlay` or `onPause`, later than the play or pause it
announces. Rows are numbered by their id and are never deleted. `FindRow` and
`WriteRow` are the two statements of `SaveHistory`; a row that is created bears the
time the request began with, one that is updated that of its update (`watched`).
`AnswerLoad` is `GetHistory`, of which the player takes the row of its title that was
watched last (`Match`). `Close` saves nothing, because `saveProgress` returns when
the element is gone.

**AdminPages.** A loop is a call of `processQueue` with the items it has captured
(`items`) and the one it is at, so that an edit made later is `late`; `ToSend` is
what it has left to send, without what was done when it started. `UploadStep` is one request or its
answer. A loop survives leaving its page through a link (it is no longer `mine`)
and dies when an address is loaded; its requests, a re-transcode among them, become
strays, whose 401 still leads to the login page. `PollStep` is one request of the
interval's chain; polls overlap. The service behind them lists category by category
(`ListCategory`), skips one whose listing fails, and keeps only the objects it takes
for videos (`Shown`; `Listable` are the files that pass its filter of extensions and
of words such as "trailer"). The page `blank` is one that has thrown.

**Checklist.** A poll is sent, its checks run (`health` may have changed between
two of them), outcomes are stamped into `history` under the mutex, and the answer
arrives. `Expire` is the time limit, or a page
that is gone: what has not run counts as failed and the request goes on. `justChanged` compares with the
statuses of the previous answer to this view.

**ManifestDeploy.** A deployment reads content and SHA, then writes with that SHA;
GitHub refuses if the manifest has changed. `waits` tells whether the view still
waits for it, was unmounted, or has been told that the time was up, in which case
GitHub may yet commit.

Definitions whose comment begins with "Faulty" are altered actions. No
specification uses them; they show that a property notices when the code they
stand for is wrong ("mutants" in `PROJECT.json`).

## 3. What the runs check

Passing runs (TLC explores the instance completely):

- `queue` (4 entries, 3 keys, two entries sharing a key, histories capped at 1):
  `OneJobPerKey`, no key waits twice or waits while processed; `ProcessingIsItem`,
  the published claim is the entry in the worker's hands, so `add` neither
  refuses a key for ever nor takes it twice; `ImplementsLifecycle`, refinement;
  `NoStarvation`, a waiting key is reached.
- `kafka` (3 messages, each well-formed, malformed or undecodable, one lost
  connection, one restart): `AtLeastOnce`, the group never commits past an event
  that nobody handled, in whatever batches events come; `EveryEventFed`, every
  published event reaches `_handle_event` as long as every message of the topic can
  be decoded; `HandledUnlessRestarted`, on the same condition, the worker finishes a
  job for every announced key unless a restart emptied the queue.
- `hls_worker` (2 sequential runs, 2 raw keys with one `file_id`, 2 qualities):
  `OneOrigin`, no stream mixes two runs; `OkMeansPlayable`, what is reported done
  plays and goes on playing; `SegmentsImmutable`, no object is replaced.
- `hls_tasks` (2 concurrent runs of one video): `ListedArePresent`, when the run
  whose playlist is stored has returned nothing it lists is missing;
  `TempReleased`, the copies of inputs that stay on disk are those of failed downloads
  and failed unlinks, no more and no fewer; `AloneMeansPlayable`, a run that did not
  overlap another one's encoding or upload leaves a stream that plays and goes on
  playing, although nothing serialises the tasks and any of them may look up the
  playlist in between.
- `watcher` (2 videos that share an output directory, 2 qualities, one restart):
  `MissedOnlyInGap`, scan and observer together miss only what appears between
  them; `PublishedIsComplete`, what a master playlist lists is on disk and from one
  video, across crashes; `CompletedHasStream`, a video reported as completed has a
  playlist under its unique ID, which lists something unless its writing was cut
  short; `FoundIsHandled`, a video is transcoded or reported as failed, unless it
  fell into the gap. (With a directory for each video the instance has 5.4 million
  states; it was checked once, without an error.)
- `viewer` (2 users with a profile each, 1 title, 3 queries, 2 categories, 3
  inputs): `ProfileOfUser`, profile and user agree in tab and storage;
  `SuggestionsMatch` and `ResultsMatch`, what is shown when nothing is awaited
  belongs to the text, or to address and filter; `LibraryShowsWhatIsAsked` and
  `LibraryLoads`; `HeartTellsTruth`, a heart agrees with the table.
- `player` (3 units of five seconds, 2 titles, 2 players, 2 saves, one fault):
  `SerialSavesKept`, one row per profile and title, holding the last save, unless
  saves overlapped or failed; `ResumesOwnProgress`; `ButtonTellsTruth`.
- `admin` (2 files, one of which the library does not list, 2 categories, 2 polls in
  flight, 7 inputs, 2 faults):
  `UploadingHasLoop`, flag, item and loop agree; `SuccessIsStored`; `DoneOnce`;
  `UploadEnds`; `DashboardCatchesUp`, the total becomes that of the listable objects
  and stays it, although polls overlap, uploads fall between two listings, and a
  listing that fails makes an answer too small.
- `checklist` (1 row that may go missing, 2 outcomes kept, 2 polls in flight, 2
  changes of tab, one flip, one fault): `NoFalseAlarm`, a mark means that this view
  has seen both states; `SparklineAgrees`; `ChecklistCatchesUp`.
- `deploy` (1 service, 2 tags, 2 overlapping requests, one commit of somebody else):
  `OkMeansCommitted`; `NoLostEdit`, the SHA does what `github.go:42` says it is for.

Runs that show a disagreement between the code and what it says of itself
(each with an entry in `PROJECT.json`, "findings"):

- `kafka_crash`: with a restart, a job whose offset is already committed is gone.
- `heart`: a title added with its heart never appears in My List, which tells the
  viewer to add titles by "the heart icon"; it is stored under profile 0.

**Bounds.** Two runs, two entries for one key and three offsets are where the
interactions of the transcoder are: an overtaking needs two runs, refusal of a
duplicate needs two entries with one key, redelivery needs a committed offset, a
position beyond it and an event beyond that. `HistoryCap` is 1 (2 in `watcher`)
instead of 50 so that trimming happens; `Ladder` has two qualities so that a
partial ladder exists. In the front ends an overtaking needs two requests of one
kind: three inputs type two texts and add a change of route or user; two polls
overlap; two players and two saves let an old answer meet a new player. Three
inputs also reach a sign-in after a sign-out, and `viewer` without its liveness
property was checked once with four inputs (3.4 million states, no error). Seven
inputs and two faults are what choosing two files, changing a category, starting,
retrying and leaving takes. One flip, one fault and one foreign commit are enough
for a stale read to become visible, and a second one meets the same code. Every bound
is a constant: `MaxUploads`, `MaxEvents`, `MaxFaults`, `MaxRestarts`, `MaxInputs`,
`MaxRows`, `MaxVisits`, `MaxSaves`, `MaxTabs`, `MaxFlips`, `MaxLoads`, `MaxEdits`,
and the sizes of `Run`, `Slot`, `Poll` and `Request`.

`player`, `hls_worker` and `hls_tasks` use symmetry, of profiles and of runs; none of
them checks liveness. Deadlock checking is off where the system may come to rest or use up
its bounds: calls that all return (`HlsPublish`), people who stop clicking.

**Type definitions.** A run checks one where a bound of the code is at stake: the
histories of the queue, the back-off and offsets, the claim that nothing is encoded
before a download, the forty outcomes of a check. The others describe the state;
`WatcherTypeOK`, `DeployTypeOK` and `ResumeTypeOK` are theorems.

**Fairness.** The worker thread and the Kafka thread keep executing while the
process lives: weak fairness on their steps. A poll with a batch to fetch ends,
with the events or with the exception (`Poll \/ DecodingFails`); which of the two
is left open, because that depends on how much of the topic a batch holds.
`Connect` is fair because the thread retries for ever and Kafka is assumed not to
refuse for ever. In `FileWatcher` start-up, observer and worker are three threads,
each fair; a started job ends, as ffmpeg does. In the front ends a request is
answered or fails, so `LibraryEvent`, `UploadStep` and `PollStep` are fair, and
the intervals of mounted pages fire (`Tick`). Nobody has to publish, upload,
copy, click, stop or restart anything, and nothing is assumed of which answer
comes first. `QueueSpec`, `HlsSpec`, `ResumeSpec` and `DeploySpec` have no fairness:
only safety is checked of them.

**Disagreements without a run.** Met while modelling, in the code the modules
describe; the models follow the code.

- One undecodable message blocks the topic, and with it the events before it that
  share its batch (`kafka_consumer.py:74` raises inside the poll, before any of the
  batch is yielded and before the offset moves; `Poisoned`).
- Two `POST /transcode` for a video rewrite segments that
  `eks-migration-runbook.md:75` takes for immutable (`transcoder.py:151` checks long
  before it uploads).
- After a partial upload, later runs find `master.m3u8`, say that HLS exists and
  leave a stream that cannot be played; a failed download or a failed unlink leaves the
  copy of the input, and no code removes output directories.
- In local mode a crash or a full disk while `master.m3u8` is being written leaves an
  empty or partial one (`transcoder.py:87`). Every later run takes it for an existing
  stream and reports the video as completed; `file_watcher.py:103` relies on "the
  worker to check existence to be safe and simple".
- `a.b.mp4` and `a_b.mp4` share an output directory, and the second is reported as
  completed without having been transcoded (`file_watcher.py:208`).
- The player sends fractional seconds, which `user-service` refuses; its "Save on
  unmount" never saves; any database error while looking up a row is taken for
  "no row" and makes a second one; the hls.js branch cannot be reached.
- Selecting a suggestion starts another debounced search, which reopens the list;
  an answer after the field was cleared reopens it too; `/search` without a query
  says "Searching…" for ever; a category change keeps the page number.
- Sign-in does not clear the profile a former session left; 401 in the admin
  dashboard removes the token only; sign-in and registration wait for messages
  auth-service never sends; the profile form can be submitted twice.
- The check a card makes when mounted is always refused; `handleRemove` of My List,
  which its cards call as `onRemove` (`MediaCard.jsx:72`), is unreachable, because
  the list is always empty; the plans page posts an order payment-service refuses.
- `/queue/status` answers `{storage_type, queue}` while the admin pages read one
  level higher, so transcoding always looks idle; `force: true` is ignored
  (`Transcoding.jsx:89`); "Uploaded & Transcoding Started" (`Upload.jsx:70`) follows
  an upload that publishes no event; edits of a waiting item are not sent; an item
  that failed is retried only together with a waiting one; the content library
  reads a field its items lack and throws. `Upload` accepts any file of type `video/*`,
  the library shows only some extensions and no name with "trailer", "sample" or the
  like, and a listing that fails is an answer 200 with fewer items (`scanner.go:84`).
- An expired or abandoned checklist request stamps failures into everyone's
  history; the history spans less than ten minutes when several pages are open; an
  empty log says "Loading…" for ever; a deployment that was reported as failed may
  still be committed, and an older one may win over a newer one.

## 4. What is proved

For every value of the constants, from the named assumptions of each module:

- `TranscodeQueueProofs`: `QueueSafety`, with the inductive invariant
  `QueueInv == QueueTypeOK /\ OneJobPerKey /\ ProcessingIsItem`. `OneJobPerKey` is
  not inductive alone: that `get_next` moves a key from the queue to the claim
  without leaving it in both needs that it was there once, and that the claim is
  free when the worker comes back needs `ProcessingIsItem`. `AtMostOneJobPerKey`,
  `HistoriesBounded`, `ClaimIsExact` and `QueueImplementsLifecycle` (each step is one
  step of one key, or a stutter) follow.
- `KafkaIngestProofs`: `IngestTypes`, `CommittedWasFed` (`AtLeastOnce`) and
  `IngestKeepsOneJob`, `IngestImplementsLifecycle`. A commit is safe because everything below the position of the
  connected consumer was fed: `ReadIsFed` is the strengthening. Each
  step is a step of the queue or leaves it alone (`StepOfQueue`), so that the queue's
  invariant and its refinement hold of the composition too.
- `FileWatcherProofs`: `WatcherTypes`, `MissedIsInGap`, `PublishedStaysComplete`,
  `WatcherImplementsLifecycle` (by `StepOfQueue`, as above), `CompletedHaveStreams`
  (`CompletedHasStream`) and `CompletedIsOwn`.
  `SeenOrToCome`: a video is announced, offered to the queue, still
  ahead of the scan, or in the gap. `EncodedIsThere` and `Ahead`: what the present job has
  encoded is on disk, and what it has not reached is not in its list; hence a
  playlist lists only what is there, though two videos may share a directory and a
  crash may cut it short (`TornEffect`). Masters are never removed and never pass to
  another unique ID (`MastersStay`), and a job is completed only behind one
  (`CompletedByJob`; together `StreamInv`). `CompletedIsOwn` says more of a video whose directory no other
  video maps to: its playlist was made from itself. It assumes that of the one video
  only, and is false without it. `Ladder` must have no quality twice, as in the code.
- `HlsPublishProofs`: `HlsTypes`; `NothingListedIsMissing` (`ListedArePresent` for
  any number of concurrent runs) from `UploadInv`: what a run encoded is in its
  directory or in the bucket, objects never disappear, and a run writes only under
  its own prefix. For the queue worker alone (`Sequential = Run`),
  `WorkerNeverRewrites`, `StreamsHaveOneOrigin` and `CompletedIsPlayable` from
  `SoleRunInv`: one active run, which has found its prefix empty, because the
  master is uploaded first and so an empty place of the master means an empty
  prefix. For tasks that nothing serialises, `AloneIsPlayable` from `AloneInv`: what a run that
  met no other one has encoded is in its own directory or in the bucket, and nobody
  rewrites it, since a run that looks up the playlist later finds it and one that
  looked it up earlier would have been met. `TempIsReleased` needs that an active run
  still has its copy and no failed unlink, and no version of the raw video before its
  download has ended. The order of `rglob` thus protects the worker's streams from being mixed
  and is at the same time what leaves a partial upload unrepaired.
- `ViewerProofs`: `ProfilesKept` from `SessionInv` (types, `OneUser`: while sessions
  are orderly one user owns everything in tab and storage, `TokenHasUser`), any
  number of users and tab loads; the other components do not touch the session
  (`SessionApart`). `SuggestionsAgree` from `BarInv`: numbers of requests are distinct
  and none in flight is the one shown (`LookupsNumbered`), and the latest request is
  in flight or shown (`LatestSuggested`), for any number of requests and answers in
  any order.
  `ResultsAgree` from `ResultsInv` is the same argument for the results page, where a
  search also follows every change of address or filter; `Results` must not contain
  `None`. `LibraryAgrees` from `LibInv`: a request that is not cancelled is for the view asked
  for now, the answers of the others are dropped, and a page at rest shows what it
  names (`AtRest`). `HeartsAgree` from `HeartInv`: of a title one of whose cards is in
  `solo`, at most one request is under way, it is that card's, a row its check found is
  still there, and when no request is under way heart and rows agree.
- `DashboardProofs`: `DeployTypes`; `OkIsCommitted` from `DeployInv`, where
  `CommittedIsRecorded` says that the write of a request about to answer is in
  `commits`; `EditsSurvive`, because a write happens only on the content that was
  read. `ChecklistTypes`, `MarksAreTrue` and `SparklinesAgree` from `ChecklistInv`: what
  a poll of the mounted view has stamped, and what the view shows, are rows whose
  history ends with their status, and the statuses shown were seen by this view,
  so that a difference means both were. `None` is assumed not to be a record.
- `AdminPagesProofs`: `UploadsHaveLoops`, `SuccessesAreStored` and the action property
  `DoneIsNotRedone` from `UploadInv`, for any number of files, pages left behind and
  failures. The page's own loop works on the queue as it was when it started, and
  what makes this safe is `Follows`: the queue has only grown since, its items are
  still at their places (none can be removed while an upload runs), the one being
  uploaded is where the loop is, nothing the loop has to send is done, and what it
  has yet to store has the category shown or was edited late. `StoredIsKnown` covers
  what a loop has stored and not yet reported.
- `ResumePositionProofs`: `PlayerTypes`; `ButtonIsTrue`, because the last event still
  to be handled tells the state of the video (`LastEventTrue`); `ResumesOwn`, because
  whatever is in flight or stored was posted for its profile and title
  (`OnlyPosted`), and a load that carries the number of the open player is that
  player's (`OwnLoad`); `SerialHistory` from `Serial`: where no saves overlapped, at most
  one save has looked up its row, and it is about to write the only one there is or
  to create the first. `Serial` says nothing of a profile and title in `raced`; what
  holds of them is `FoundOwnRow`, a save only ever overwrites a row of its own.

Neither `PrefixOf` nor `OutDirOf` is assumed injective.

Every safety and action property of the passing runs is thus a theorem. Only
model-checked is liveness (`NoStarvation`, `EveryEventFed`, `HandledUnlessRestarted`,
`FoundIsHandled`, `LibraryLoads`, `UploadEnds`, `DashboardCatchesUp`,
`ChecklistCatchesUp`), which needs ENABLED and fairness and is out of the prover's
reach. `ImplementsLifecycle` is a property of the run `queue` only; for the two
compositions the theorem is all there is, and TLC found no counterexample to it on
their instances either. The inductive invariants of `AdminPages` and
`ResumePosition`, the two with most cases, were first checked by TLC on the
instances of the runs.

## 5. Plan

1. Proofs: the types of the front end and of the admin pages as theorems
   (`SearchTypeOK`, `LibraryTypeOK`, `WatchlistTypeOK`, `AdminTypeOK`); the safety half of
   the liveness properties, such as that an upload that has not ended has a step to
   take.
2. `MediaLibrary`: listing and `hls_url` over `HlsPublish`'s bucket; range and page
   arithmetic against a reference definition.
3. `Subscriptions`: orders, capture, notification and upgrade, once a page sends an
   order the service accepts; then the `SystemHealth` fan-out of the gateway.

## 6. Not modelled

Listed with reasons in `PROJECT.json`, "components". The services that only the
hazards name: payment and subscription (no page reaches a captured order),
metadata (one caller at a time), likes, ratings, watch events, recommendation
and analytics (single statements or append-only tables), authentication (one
insert, one read), the gateway (forwards). In the media library, search, the
arithmetic of ranges and pages and the look-up of `hls_url`. Of the modelled parts: creating a profile, removal of videos and
`stop` in local mode, the unreachable branches named above, volume, speed,
quality and full screen of the player, and the filters of the admin content library,
which throws before they matter. Left out for good: logging, metrics and
tracing, Kubernetes manifests, page layout, password hashing and token signing,
ffmpeg itself, the unused `transcoder_s3.py`, and rebalancing among several
consumers of the Kafka group (the manifests run the service without
`KAFKA_BROKERS`).
