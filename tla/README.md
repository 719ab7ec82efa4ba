# MEDDOWBOT in TLA+

MEDDOWBOT is a Telegram bot that downloads media. A bot process answers the
users' messages, taskiq workers fetch and upload the files, PostgreSQL holds the
rows, Redis holds the work list, the dialogues, the rate counters and the progress
messages. These modules describe what the bot process and the workers do, TLC
checks small instances of them, and TLAPS proves the safety properties for all
sizes. All paths below are relative to `src/`.

## 1. Inventory

| Component | State | Operations | Hard behaviour | What makes it correct | Module |
|---|---|---|---|---|---|
| Download handlers, `handlers/download.py` | a new row, a reply, a task message | `handle_download`, `handle_quality_selection` | commit, reply and enqueue are three steps that can be cut short; a menu can be pressed twice | a committed job has a message or has ended; a pressed button is answered | `JobPipeline` |
| Cancel handler, `handlers/cancel.py` | the job it has read | `cancel_command` | the job goes on between read and UPDATE, and after it | only an active job is cancelled; a cancelled job stays so (it does not) | `JobPipeline` |
| History handler, `handlers/history.py` | page number | list, clear | rows deleted under running tasks | a deleted row never comes back | `JobPipeline` |
| Reddit handler, `handlers/reddit.py` | dialogue, uncommitted rows | four steps of a dialogue, `process_sort` | two presses of a button; tasks queued before the commit of their rows | a question has the answers before it; posts are queued once | `Dialogues`, `JobPipeline` |
| Job rows, `database/` | `download_jobs` | `crud.py` | many writers, no row locks | the life of a status | `JobPipeline`, `JobContract` |
| Task queue, `task_queue/broker.py` | a Redis list | LPUSH, BRPOP | a message taken is lost with its worker | a job is in at most one pair of hands | `JobPipeline` |
| Preflight task, `workers/preflight.py` | the row's `status`, `url_hash` | cache lookup, metadata, menu, prompt, chain | crash, exception or timeout between any two transactions | every exit ends the job, asks or chains | `JobPipeline` |
| Download task, `workers/download.py` | the row, the directory `data/downloads/<job>` | download, compress, split, upload, record, clean up | CancelledError passes `except`; two attempts share the directory | the file is of the job's URL; DONE means the whole file was sent | `JobPipeline`, `Delivery` |
| Stale job sweep, `bot/main.py` | `retries`, `heartbeat_at` | `_recover_stale_jobs` every 300 s | messages leave inside a transaction that may roll back | bounded recovery, and recovery at all | `JobPipeline` |
| yt-dlp wrapper, `utils/ytdlp.py` | a call with its proxy and cookies | metadata, `select_best_format`, selectors, download | a second attempt without cookies, records that raise, empty format lists, a thread that outlives its task | a stale cookie fails no call; the format obeys the quality | `Fetching`, `Formats`, `Delivery` |
| Proxy pool, `utils/proxy.py` | status, strikes, `last_used_at` | select, mark, record, check | read, change and commit by many tasks; selection and mark in two sessions | status and strikes agree; a working proxy comes back; no proxy starves | `ProxyPool` |
| Progress relay, `cache/progress.py` | one subscription per task | publish, listen, edit | events late, reordered, lost; an edit under way when the listener is cancelled | bounded edits; silence after a compression; listeners stop | `Delivery` |
| ffmpeg and archive, `utils/ffmpeg.py`, `utils/archiver.py` | files, the log of the two passes | detect, encode, split | the log has one name per worker; the encoder misses its target; the glob finds no part | statistics are of the same file; no part is too large | `Delivery` |
| Upload and notification, `utils/upload.py`, `utils/notify.py` | the chat | send, edit | one part refused after others were sent | whole or FAILED | `Delivery` |
| Authentication middleware, `middleware/auth.py` | the user's row | `upsert_user`, `is_banned` | a ban between read and write; two first messages | a ban holds | `FrontDoor` |
| Rate limiter, `cache/rate_limiter.py`, `middleware/rate_limit.py` | a counter with a TTL | `check_rate_limit` | never reached | at most N requests (they are not limited) | `FrontDoor` |
| Settings handlers, `handlers/settings.py` | switches, the panel | `handle_toggle` | stale copies, an edit inside the transaction | the panel shows the row | `FrontDoor` |
| Admin panel, `handlers/admin.py` | dialogues | ban, proxies, cookies, broadcast | as for the Reddit dialogue | as for the Reddit dialogue | `Dialogues`, `FrontDoor`, `ProxyPool` |
| Cookie store, `utils/cookies.py` | files, rows | `save_cookie_file`, `discover_local_cookies`, `get_cookie_file` | two uploads at once, or in one second; the bot dies between file and row | rows have files, some row is active, the bot starts | `CookieStore`, `Fetching` |

Not modelled, with reasons, are the components of section 6.

The components meet in five places. The handlers and the sweep put messages on
the Redis list, the workers take them. Everybody writes the job rows. Workers put
menus into the chat, whose buttons come back to the handlers. Attempts of the
same job meet in its directory. The task that handles an update goes through the
middlewares, then the dialogue, then the cookie store.

## 2. Modules

The models are four systems, each of the components whose hard behaviour lies
between them.

| System | Modules | Composition |
|---|---|---|
| the life of a job | `JobPipeline`, `JobContract`, `JobProperties` | one module; `JobProperties` maps it to the abstract `JobContract` |
| fetching | `ProxyPool`, `Fetching`, `Formats` | `Fetching` extends the pool with the calls that use it |
| one delivery | `Delivery` | task, listener, encoder, archive and uploads |
| the bot process | `FrontDoor`, `Dialogues`, `CookieStore`, `Desk` | `Desk` composes the other three: one task per update |

A few operators are commented as a "mistake". No action uses them. Each is a
plausible slip in the definition that follows it (a dropped guard, a key that
leaves out a column, a missing reset); `PROJECT.json` pairs each with the
property that catches it.

### The life of a job

| In the model | In the code |
|---|---|
| `db` | the committed rows of `download_jobs`: owner, URL, status, `format_requested`, `url_hash`, `telegram_file_id`, the age of `heartbeat_at`, `retries` |
| `intake` | messages of handlers that have committed and not yet called `kiq` |
| `draft` | rows `/reddit` has flushed in an open transaction |
| `menu`, `picks`, `clicks` | the keyboard under a job's message, pressed buttons whose callback has not run, presses so far |
| `cancelling` | the job `/cancel` holds between its read and its UPDATE |
| `sweep` | the open session of `_recover_stale_jobs`: rows read, rows changed, rows to be FAILED |
| `queue` | the Redis list |
| `attempt[w]` | what task slot `w` runs, where it stands, and the file it holds |
| `tmp[j]` | the media file in `data/downloads/<j>` |
| `sent`, `requeued`, `aborted`, `faults` | histories for the properties and bounds |

A step is one transaction, one call of the broker, one file operation or one
message that the properties can tell from its neighbours. The actions follow the
order of the handlers and tasks: `Submit`, `Enqueue` for `handle_download`;
`Click`, `QualityPick`, `Enqueue` for the menu, or `PickSwallowed`; `CancelRead`,
`CancelCommit` or `CancelFails`;
`RedditQueue`, `RedditCommit` or `RedditRollback`; `RecoverBegin`, one
`RecoverJob` per row, `RecoverCommit`, `RecoverLost` or `RecoverAbort`; for a
worker `Receive`, then `CacheHit`/`CacheMiss`, `SendCached`, `RecordCached`,
`Fetched`/`FetchFails`, and one of `AskQuality`, `SelectFails`, `WarnLarge`,
`Chain`; then `Claim`, `Download`, `Compress`, `Upload`, `RecordDone`,
`Announce`, `RecordFailed`, `Cleanup`. `Raises`, `TimesOut` and `WorkerCrash`
may end a task between any two of these; what differs is what runs afterwards:
an exception inside the `try` reaches `except` and `finally`, the
`CancelledError` of a timeout only `finally`, and a dead process nothing.
`PickSwallowed` is the press that the router of `/reddit`, registered first, takes
and drops while its dialogue waits for a sort (`handlers/reddit.py:108-111`);
`CancelFails` the answer that raises inside the session and takes the
cancellation back (`handlers/cancel.py:26-31`).

`JobContract.tla` is the abstract specification: a job's status goes from
PENDING to RUNNING to one of DONE, FAILED and CANCELLED, and a deleted row stays
away. An end is left only by a pair in `Overturned`, or once the job is in `again`:
its work was handed out (`HandOut`) to a further attempt, and two attempts may store
two ends. Even then no job becomes PENDING, or CANCELLED after its end.

Abstractions:

- Users and URLs are model values. A quality is a video height, "best" or one of
  a few others; a file is the URL and quality it shows. `url_hash` is the pair
  it digests.
- A job's number is its place in the order of creation, which `/cancel` uses.
  Chat and message ids, titles, sizes and texts are left out. Whether a file is
  large, has to be split, or has no format to select is a constant set of
  pairs; whether it is compressed is a free choice.
- A heartbeat is absent, fresh, or stale (older than five minutes).
- The cached row is any of the matching ones: `completed_at` is written by the
  clocks of different hosts.
- A second attempt in a job's directory finds the first one's file and keeps it,
  as yt-dlp does when the name is the same. With heights as qualities the name
  does not depend on the quality.
- `handle_quality_selection` edits the message, looks up the row and commits in
  one step. Nothing else reads the fields it changes in between, except that
  presses already made stay in `picks`. The same button is not pressed again
  while its first press is waiting.
- The sweep's fallback `format_requested or "720"` is left out: every handler
  stores a quality.
- There is one bot process.
- Two tests decide what is YouTube's: the handler looks at the text of the URL
  (`handlers/download.py:26`, `YouTubeLinks`), the preflight at the extractor
  (`workers/preflight.py:103`, `YouTube`). The two sets need not agree; in `answered`
  they do not.
- `WorkerCrash` ends one slot. A worker process takes several slots with it when it
  dies; that is one `WorkerCrash` for each, with no step in between, which
  `MaxFaults` allows from as many on. The theorems hold for every `MaxFaults`.

### Fetching

| In the model | In the code |
|---|---|
| `proxy[p]` | status and `consecutive_failures` of a row of `proxies`; status "none" is no row |
| `later[p]` | `last_used_at` of `p`, as an order: the proxies used since `p` was, and `p` itself if it ever was used |
| `up[p]` | the world: does the endpoint work? |
| `check[p]` | `_health_check_single` of `p` in the round under way |
| `call[c]` | one run of `fetch_metadata` or `download_media`: its site, proxy, cookie file, the record it is making and why its attempt failed |
| `raced` | history: proxies two of whose records overlapped |

`Select` and `Mark` are the two sessions of `get_proxy_for_url`, `RecordRead`
and `RecordCommit` (`CheckRead`, `CheckCommit` for the loop) the read and the
commit of `record_proxy_success` and `record_proxy_failure`. `Recorded(row, seen,
kind)` is what a commit leaves: SQLAlchemy writes only the columns whose value
changed since it read them, so a record that overlapped another one mixes the
two. `RecordFails` and `CheckCommitFails` have the success whose record raises,
and is recorded as a failure by the `except` around it. `RetryWithoutCookie` is
the second attempt. `ExtractRaises` is every exception that is neither a
`DownloadError` nor a `YtDlpAuthError`: the code has one branch for all of them.

A URL is one of four sites, which differ in what the three tests of the code say
about them: the network location contains `youtube.com` (proxies), is it
(cookies), or the URL contains it anywhere (options of yt-dlp). So
`m.youtube.com` gets a proxy and the options but no cookies of YouTube, although
`tests/utils/test_cookies.py:102` expects the platform `youtube` for it.

`Formats` has `select_best_format`, which the preflight names, and
`get_format_selector`, which the download asks yt-dlp for, as operators over a
list of formats. Its properties compare them with what a user means by a
quality, with every height of the settings menu (`handlers/settings.py:16`). The
evaluation of a selector by yt-dlp is external.

### One delivery

| In the model | In the code |
|---|---|
| `task` | pc and locals of `download_task`: the file to upload, whether the encoder made it, the parts, the next part |
| `dir` | names in `data/downloads/<job>` |
| `sent`, `words` | files sent to the chat; the status text written last |
| `pubs`, `listener` | progress events on their way, `start_progress_listener` |
| `passlog` | `x265_2pass.log`: whose statistics are in it |
| `orphan` | whose thread goes on after its task: yt-dlp's ("download"), py7zr's ("split"), or none |
| `overlap` | history: another task of the worker encoded during the two passes |

The order of actions is that of `download_task`: `Start`, `Download`,
`ReadSettings`, `AnnounceCompression`, `StopListening`, `DetectEncoder`,
`HwEncode` or `Pass1` and `Pass2`, `CheckSize`, `Split`, `AnnounceUpload`,
`UploadPart`, `RecordDone`, `AnnounceDone`, `Finally`, with `RecordFailed` and
`AnnounceFailed` for the `except`. `Raises`, `UploadFails`, `Abandon` (a timeout,
or an exception in `except` itself) and `OtherEncode` may come in between.
The listener takes its own steps: `Subscribe`, `Listen`, `EditLands`, `EditFails`,
`WakeUp`. `Publish` and `Deliver` reorder the events and lose those sent before
the subscription: each is published by a task of its own.

The size the encoder leaves is free, so the bitrate it is asked for does not matter.
`py7zr` is external: it makes as many full parts as needed, or fewer; should it
refuse the limit it is given, that is `Raises`. After a timeout its thread may open
one more part while `rmtree` works, which then gives up (`Finally`). `show_progress`
of the settings is not read by the download task and not in the model. Without a
compression the listener is cancelled only in the `finally`, after the last text; an
edit then under way overwrites the "uploaded". `CompressionSilences` is stated for
the other case.

### The bot process

| In the model | In the code |
|---|---|
| `user`, `lock` | the rows of one account in `users` and `user_settings`, and the transaction that has updated the second |
| `handler[h]` | the task that handles an update: where it stands, and `db_user` as `AuthMiddleware` loaded it |
| `panel` | the switches as the settings message shows them |
| `counter` | the key of the rate limiter |
| `fsm`, `todo[t]` | state and data of the dialogue in Redis, and the operations on it each handler has left |
| `clock`, `files`, `rows`, `upload[u]`, `bot` | one platform's cookie files and rows, `save_cookie_file` under way, and the bot: up, starting, or raised at the start |
| `ruling`, `barred`, `served`, `torn`, `asked`, `queued`, `crossed`, `cut`, `alone`, `met`, `twin` | histories for the properties |

`FrontDoor` takes an update through `Read`, `Insert` or `Write` (`upsert_user`; the
UPDATE has the columns that changed, `Touched`), the look at `is_banned`,
`LimitRequests`, and the switches: `ToggleUpdate` locks the row, `ToggleEdit` edits
the panel inside the transaction, `ToggleCommit` ends it. `ToggleEditFails` rolls it
back, with the panel as it was or, if only the reply of `edit_text` was lost, as
edited; `ToggleCommitFails` is the commit that raises (`database/session.py:49`),
after the edit. `torn` remembers that the panel was edited by a transaction that did
not commit, until one commits. `Dialogues` writes every handler as the list of its
operations: `Set` a state, `Put` a key, `Need` keys (and raise without them),
`Queue`, `Save`, `Clear`. A handler stops where a call raises (`Abort`), except that
`process_sort` clears the state in a `finally`. In the states `proxy` and
`broadcast` the admin's router, asked first, takes even "/reddit" for the answer.
`CookieStore` has the upload (`TakeName`, `WriteFile`, `Begin`, `Commit`) and the
`Discover` of the start. `WriteFails` may leave part of a file, which the next start
registers; `SessionFails` leaves the file without its row, and the handler ends
before it clears the dialogue. `Desk` routes an update to a dialogue by the state
its filters read, and lets all of it die at once in `Crash`.

Abstractions: one account, of an admin in `desk`, whose private chat has one
dialogue; one platform; a file is named by the second of its upload. The proxy a
dialogue adds is `ProxyPool`'s `AddProxy`. The text of a broadcast is not in the
model: "Confirm Send" sends the text stored last, which may be newer than the one
above the button. The dialogue for cookies sets its state before it stores the
platform (`handlers/admin.py:255`), which `QuestionsHaveAnswers` therefore does not
promise. The discovery runs before `create_all` in `main.py`; the tables are
assumed to exist. The check of the cookies at start (`validate_on_startup`) is
off by default and left out.


## 3. Runs

Bounds are constants, each commented where it is declared. `Events` chooses the
commands and faults of a pipeline instance; `MaxJobs`, `MaxClicks`, `MaxFaults`,
`MaxRecoveries` (3 in the code), `MaxTrouble`, `MaxErrors`, `MaxFailures`,
`MaxRulings`, `MaxClock` and the `Mixes` of updates bound the rest. Two of a kind
(slots, jobs, proxies, handlers) are the least at which two can overlap; a bound
of one recovery or two strikes shows the counter at, below and above its limit.

| Run | Instance | Shows |
|---|---|---|
| `recovery` | 1 job, 2 slots; crash, timeout, error, aborted sweep, restart of the bot, work over five minutes, bulk rows | `TypeOK`; `RecoveryBounded`: the sweep enqueues a job at most `MaxRecoveries` times, plus once per sweep rolled back; `DeliveryBounded`: files sent are paid for by messages from outside the workers; `AloneUntilHandedOutAgain`: one holder per job, whose file stays, until the sweep or a second press hands the job out again; `StartedJobsEnd`: a job that is RUNNING with a heartbeat leaves RUNNING; `ContractHolds`: the pipeline implements `JobContract` |
| `custody` | 2 jobs, 2 slots, 2 URLs, 1 quality; cancel, clear, reddit, crash, timeout, error | `SingleHolder`: one handler, message or attempt per job, recovered jobs included; `CancelsOnlyActive`; `NoRebirth` |
| `cache` | 3 jobs, 2 URLs, 3 qualities, a file that is split; no faults | `FileIsOfUrl`: a stored file is of the job's URL, also down chains of cached deliveries; `DirectKeyIsHonest`: outside YouTube its quality is that of its key |
| `answered` | 1 job, 3 qualities, a menu pressed twice, a large file; no faults | `NoneStranded`, `RequestsAnswered`, `PicksAnswered`: every request and press leads to an end or a question |
| `fetching` | 2 proxies, 2 strikes, 1 trouble; 1 call and the health loop, or 2 calls; lists of up to 2 formats with 3 heights and 3 sizes | `TypeOK`; `StatusAgrees`: DEAD exactly from the last strike on, unless records overlapped; `ExpiredCookieHarmless`; `WorkingProxyReturns` and `RotationReachesAll`: no working proxy is lost or starved; `CallsEnd`; `ChoiceIsBestFit` and `DownloadKeepsToHeight`: the format is what the quality asks for |
| `delivery` | file sizes 1 to 3, a limit of 2, 3 events, 2 troubles anywhere | `TypeOK`; `DeliveredWhole`: DONE means the whole file, parts in order; `UploadsFit`; `CompressionSilences`: no late progress over a later text; `EditsBounded`; `CleanUnlessOrphaned`; `StatisticsAreOwn`: the second pass reads its own first pass; `ListenersStop` |
| `desk` | 2 updates at a time, six mixes of 4 or 5 updates, 2 bans or unbans, 2 seconds, 1 error, 2 failures | `TypeOK`; `BannedIsNotServed`; `PanelMatchesRow`; `SomeCookieActive`, `OneActiveUnlessMet`, `RowsHaveFiles`, `StartsAgain`: the cookie store; `QuestionsHaveAnswers`, `QueuedOncePerDialogue`: the dialogues; `UpdatesEnd` |

Why the instances are large enough:

- Three jobs in `cache` are a source, a cached copy, and a copy of the copy.
- One fault with `slow` already makes every pair of overlapping attempts.
- `MCFetching` has behaviours of three kinds, since their product is too large. In
  the first a call to any site and the health loop overlap in their records. In the
  second two calls to a proxied site overlap: both may select the same proxy before
  either marks it, a call may die between the two (`utils/proxy.py:72`), and the
  records of both meet. There the proxies stay up or down between two health rounds,
  and a call succeeds if its proxy works; two proxies are enough for one to be passed
  over. The third has the formats, which share no state with the pool.
- A file of size 3 over a limit of 2 has two parts, and a compressed one may be
  larger or smaller than any limit. Two troubles are one that starts the `except`
  and one that breaks it.
- The mixes of `desk` pair the updates that touch the same state: switches with
  bans, a dialogue with the messages that answer it, uploads with uploads. Four
  or five updates open a dialogue, answer it and open it again beside it.

`cache` uses the symmetry of the slots and of two qualities, `custody` that of the
slots; neither has a liveness property. Deadlock is checked in `fetching`, whose
health loop never stops. The other instances may end: all their jobs or updates
are done and the bounds are used up.

`ContractHolds` allows in `Overturned` what the code does after a final status: a
task stores RUNNING, DONE or FAILED over CANCELLED (see `v_cancelled`), and the
`except` of a download stores FAILED over DONE when the success message raises. Every
other end is overturned only in `again`, which `JobProperties` maps to
`HandedOutAgain`: the sweep has enqueued the job, or its menu was pressed twice.

Work over five minutes writes no heartbeat, so the sweep hands out jobs that are
running (`slow`), and the two attempts meet in one directory.
`AloneUntilHandedOutAgain` and `ContractHolds` are stated for these cases and have no
condition on the faults. `SingleHolder` says more of a part: recovery
itself leaves one holder, where heartbeats do not age under live work, no
sweep is rolled back and no menu is pressed twice, with deletions and crashes. Its
mutant is a sweep that takes a missing heartbeat for an old one. `NoneStranded` holds
until the first fault, without bulk downloads and formats that cannot be selected.

### Where the code departs from its documentation

| Run | Documented | Found |
|---|---|---|
| `v_cancelled` | a job "has been cancelled" (`handlers/cancel.py:29`, `database/models.py:43`) | the tasks never look at the status; the job is downloaded, sent and DONE |
| `v_survive` | "jobs survive bot crashes or system restarts" (`README.md:31`) | a bot that dies after the commit and before `kiq` leaves a PENDING row that no sweep looks for |
| `v_cache_key` | who asks for the same URL and quality gets the cached result (`database/models.py:199`) | a job filed under "best" before its menu keeps that key when the picked quality comes from the cache; the next user gets that file and no menu |
| `v_prompt` | "Proceed?" with two buttons (`workers/preflight.py:152`) | no handler answers either button |
| `v_limit` | "Middleware to enforce rate limits on download requests" (`middleware/rate_limit.py:21`), `README.md:33` | it is registered for updates (`bot/main.py:146`) and lets through whatever is no `Message` (`rate_limit.py:31`), so the limiter is never asked |

Behaviours of the same kind that have no run of their own. Those of the first
group can be seen by changing a run as stated:

- The heartbeat is documented as updated every 30 s (`database/models.py:220`) but
  written only at the start and before a compression. `SingleHolder` fails with
  `slow`: the job is swept while it runs. `ContractHolds` without `again` fails too:
  one attempt stores RUNNING or DONE over the FAILED of the other.
- `NoneStranded` fails with `reddit`: a task that ends before the bulk transaction
  commits updates no row, and the row then stays PENDING. It fails with a
  non-empty `Unselectable`: `select_best_format` indexes an empty list, nothing
  catches it, and the job stays RUNNING without a heartbeat.
- `DeliveredWhole` without its exception fails: an archive whose glob finds no
  part counts as delivered.
- `CompressionSilences` without `task.encoded` fails: an edit under way when the
  listener is cancelled lands after the last text.
- `OneActiveUnlessMet` without `~met` fails: two overlapping uploads leave two
  active rows. `StartsAgain` without `twin` fails: two uploads in one second give
  two rows of one name, and the next start raises.
- `PanelMatchesRow` without `torn` fails: after a lost reply or a failing commit the
  panel shows a switch the row does not have. The next press of that switch would
  draw the same panel, which Telegram refuses as not modified, and so is rolled back
  as well, until a press of another switch commits.
- `CleanUnlessOrphaned` without `orphan` fails: the thread of yt-dlp or py7zr writes
  into the directory its task has removed.
- `QuestionsHaveAnswers` does not speak of cookies: that dialogue sets its state
  before it stores the platform (`handlers/admin.py:255`).

Found while reading:

- Two buttons of one menu start two attempts in one directory, and the file of the
  first is stored under the key of the second. That is why `DirectKeyIsHonest`
  speaks only of URLs without a menu.
- `tests/utils/test_ytdlp.py` expects another `utils/ytdlp.py` than there is. Lines
  27-30 want a YouTube selector whose second alternative, `best[ext=mp4]`, has no
  limit, and 31-32 `best[ext=mp4]/best`; the code limits all alternatives but the
  last, and says `best`. `DownloadKeepsToHeight` follows the code; the selector of
  the test is the mutant that breaks it. Lines 59-61 want the format of resolution
  `1280x720` at 720 where no height is given; the code looks at heights only, counts
  the unknown as 0 and takes the largest file. Lines 64-65 want None for a word that
  is no quality; the code takes it for 720. `ChoiceIsBestFit` follows the code in
  both.
- A press of a quality button while the chat is asked how to sort a bulk request is
  dropped without an answer; the menu stays.
- "Confirm Send" of a broadcast sends the newest text stored
  (`handlers/admin.py:353`).
- `tests/utils/test_cookies.py:102` expects `youtube` for `m.youtube.com`;
  `_normalize_domain` gives `generic`.
- `validate_on_startup`, False by default, would call `validate_all_active_cookies`,
  which does not exist.

### Fairness

Weak fairness is assumed of steps that an event loop, a worker or a timer takes
when it can, and of nothing users, other processes or faults do. A failing
alternative of a step is always allowed in place of its success.

| Specification | Weak fairness of | Because |
|---|---|---|
| `JobPipeline` | each slot's step, the handlers after their commit or read, the sweep and its rows, the ageing of heartbeats | event loops of workers and bot; a loop with a 300 s sleep; time passes |
| `Fetching` | each call's step, each check's step, the next round (the run asks for less: some check's step, and each actor in its kind of behaviour) | event loops; the health loop sleeps and starts again |
| `Delivery` | the task's step, the listener's step | the worker's event loop; no event has to arrive |
| `Desk` | each handler's step | the bot's event loop, and a database that grants a free lock |

`StartedJobsEnd` needs the sweep, since a crashed attempt is ended by it alone.
`RequestsAnswered` and `PicksAnswered` are stated without faults, because with
them they are false in the way `v_survive` shows. `WorkingProxyReturns` and
`RotationReachesAll` have their conditions in their premises: a proxy that works
from some point on, calls that keep being made. `ListenersStop` does not rest on
the event of 100 %, which may be lost: the `finally` of the task cancels the
listener. `UpdatesEnd` would fail if a handler kept the lock of a row.

## 4. Proofs

The theorems hold for every value of the constants that satisfies the assumptions of
the modules. None needs a bound on users, URLs, workers, proxies, handlers, updates,
files or sizes. The named assumptions say that bounds are numbers, that `None` is
not one of the things it stands beside (`NoneAssumption`: a cache key, a file, a
row; `NoneIsNoProxy`, `NoneIsNoCookie`, `NoneIsNoOther`), for the pipeline
(`ConstantAssumption`) that "best" is a quality, that there is at least one recovery
(3 in the code) and that a file too large to send unasked has a format, and for the
bot process (`DeskAssumption`) that one task handles an update through all parts.

**`JobPipelineProofs`, `JobRecoveryProofs`, `JobCacheProofs`, `JobCustodyProofs`**

- `TypeCorrect`: `TypeOK` is inductive as it stands. There is a lemma for each
  group of actions; those of the workers rest on `RowStepTypes` and
  `AttemptUpdates`, so that each action only has to show that the row it writes
  is a row and the place it goes to a place.
- `CancelIsGuarded` and `RowsAreNotReborn`: the action properties
  `CancelsOnlyActive` and `NoRebirth`. `RowEffects` lists what a step can do to a
  row: nothing, delete it, create it under the next number, commit its draft, or
  rewrite it in a way that keeps URL and owner, never makes it PENDING, and
  cancels it only if active. `DraftInv` (a draft is PENDING, has a number already
  handed out and no committed row) makes the fourth case harmless.
- `RecoveryIsBounded`: the bound alone is not inductive, since messages are
  counted when they are sent and `retries` when the transaction commits.
  `RetryInv` says what the counter still owes: the messages sent for a job are at
  most its `retries`, plus one if the open sweep has handled it, plus the sweeps
  rolled back; the copy of a row the sweep has not handled yet owes nothing for
  the open sweep; a number not handed out or still a draft has no messages.
- `FilesAreOfTheirUrl` and `DirectKeysAreHonest`, of every instance with every
  fault and command. The file a task stores was put into its hands earlier, by an
  upload, another attempt or a cache lookup, when the row may already be gone.
  `MediaInv` therefore says of everything that travels with a job's number
  (messages, copies of the sweep, files on disk and in the hands of attempts)
  that it `Fits` the job's row if there is one: same URL, and outside YouTube same
  quality. `Fits` lasts because no row is reborn (`RowEffects`) and only a row
  with a menu changes its format (`MenusFit`). `RowIsHonest` adds that a row's key
  begins with its URL, which is what makes a cache hit fit.

- `DeliveriesAreBounded`, of every instance: each file sent used up a message that
  came from a handler, a press or the sweep. `Tokens(j)` is the set of places from
  which a file of `j` may still be sent: messages on their way, waiting presses,
  places in the queue, and attempts that have not sent. `DeliveryInv` says that it
  is finite and that what was sent and its size together are at most `Due(j)`, what
  came in. A step either makes no new token, or exchanges one for another
  (`Receive`, `Enqueue`, `Chain`, `QualityPick`), or spends one (`Upload`,
  `SendCached`), or makes one and raises `Due`; `NoGain`, `OneReplaced`, `OneSpent`
  and `OneGained` are these four kinds of step.
- `NobodyIsStranded`: `StrandInv` says that until the first fault an active job has
  a menu, a message, a press or an attempt that has not stored its outcome. Its
  assumptions are the two gaps of section 3 that are no faults: `reddit`, whose
  tasks may end before their rows are committed, and pairs without a format.
- `AloneUntilAgain`, of every instance and every event. One holder at a time is far
  from inductive, because three things hand out a job without looking who has it:
  the sweep, a menu, and a preflight that asks for the quality. `Custody` says what
  makes each hand-over exclusive as long as the sweep has not handed the job out and
  its menu was pressed at most once. `One`: the holder is one message, press, place
  or attempt. `MenuPart`: nobody holds a job whose menu is there and not pressed.
  `SweepPart`: the sweep may have read the row, whose retries are 0, but has done
  nothing with it. `HandsPart`: the file lasts from the download to the upload, and
  the row has not ended under an attempt that will store something; `WaitPart` says
  the same of messages and presses. `MaxRecoveries > 0` is needed: the sweep's first
  act on a job is then to hand it out, never to call it FAILED. A step either leaves
  a job alone (`LeftAlone`), works on one that an attempt has (`WorkOn`), or is one
  of the few hand-overs, each with a lemma.
- `ContractIsKept`, from the same invariant, of every instance and every event: a
  row is written by the sweep, by a deletion, or by an attempt; if the job was not
  handed out again the attempt is its one holder and the row has not ended, but for
  the pairs of `NotFinal`; if it was, the contract allows every end but CANCELLED
  (`CancelIsGuarded`). So ageing heartbeats and double presses can store a second
  outcome over the first, and nothing worse.

**`FetchingProofs`**

- `TypesHold`, and `StaleCookiesHarmless`: by `NoneBlamed` no outcome is ever laid
  to the cookies, because an attempt that has them is made again.
- `StrikesAndStatusAgree`: a record in flight carries the row it has read.
  `StrikesInv` says that unless two records of the proxy overlapped, the row in
  flight is still the row of the table, so that committing the changed columns is
  committing all of them; and that a proxy in use has a row.
- `ChoiceIsBest` and `DownloadsKeepToHeight`, of lists of any length with any heights
  and sizes (`FormatAssumption`: they are natural numbers): the requests of `Formats`
  as a specification of their own, `RequestSpec`. Both are about operators; what they
  need is that a finite list has a first entry in each of the two orders.
  `FirstOfFinite` shows that for any strict order of a finite set, from the
  well-foundedness of inclusion. `LargestIsOne` and `TallestExists` apply it,
  `OneIsChosen` combines them, and `SelectorParts` says that only the last alternative
  of a selector has no limit. What yt-dlp makes of a selector is as `Downloaded`
  assumes.

**`DeliveryProofs`**

- `TypesHold`, `StatisticsAreOwnHolds` and `NothingLeft`, the last two inductive
  with the types.
- `EveryUploadFits` and `DoneIsDelivered` share `SendInv`: while the task uploads,
  what was sent is the beginning of the file or of its parts in their order, each
  within the limit, and it is all of them when the task goes on.
- `CompressionIsQuiet`: `QuietInv` says where the listener can be once the task has
  silenced it: stopped, so that no edit lands any more.
- `EditsAreBounded`: `EditInv` counts the edit under way.

**`DialogueProofs`, `DeskProofs`**

- What a handler has left of a dialogue is a remainder of one of a few lists
  (`Remainders`), a finite set. `AnswersPrecedeQuestions` follows from `AnswerInv`
  (before a handler sets a state, the data has what the question needs),
  `PostsAreQueuedOnce` from `QueueInv` (the queueing of a dialogue is paid for by
  the answer that opened its last question). Both first show what each step of
  `Desk` does to the dialogues (`NextDialogueEffect`); `NextDoorEffect` does the
  same for the front door.
- `BansHold`: `BanInv` says that an update that came after a ban has read a banned
  row, or will. `PanelAgrees`: `PanelInv` says that panel and row differ in one
  switch at most (`OffByOne`), and not at all while nobody has edited the panel
  since the last commit and `torn` is FALSE; `PressAt` that a handler at its commit
  has drawn the row with its one change. So a transaction that fails leaves one
  difference, and the next edit starts from the row again.
- The cookie store needs `DownInv`: nobody works while the bot is down. On it rest
  `FileInv` (a row in the making has its file), `AloneInv` (a transaction that met
  no other has seen all rows) and `NameInv` (names are taken once unless `twin`),
  which give `EveryRowHasItsFile`, `OneActiveAlone` and `BotStartsAgain`.
  `ActiveCookiesRemain` is inductive alone, `TypesHold` collects the types.

Only model-checked are the liveness properties, which are outside the prover's
reach, and `SingleHolder`. All other safety properties that hold are proved;
`NoneStranded` under the conditions given above, and the rest without any on the
constants or events.

## 5. What remains

1. A proof of `SingleHolder`: a rolled-back sweep does harm only if a row it had
   handled is still there, which the count of rolled-back sweeps does not tell.
2. The composition of `Fetching` and `Delivery` with `JobPipeline`, which today
   meets them as the choice between a file, an exception and a timeout.
3. The window of the rate limiter, once it is reached.

## 6. Not modelled

| Part | Why |
|---|---|
| Quota helpers, `utils/quota.py` | nothing in the repository calls them |
| SSRF and logging middleware | no state: one resolves a name and passes or drops the update, the other logs |
| Start and help, `handlers/start.py` | two fixed texts |
| Redis client, `cache/client.py` | creates and closes one connection pool |
| Configuration and observability, `config/`, `observability/` | constants, logging, metrics; what the models need is a CONSTANT of theirs |
| Migrations and deployment | schema history and containers, no behaviour at run time |
| Scratch scripts and smoke test | one-off scripts beside the program |

Partly modelled are the rate limiter (the end of a window, and the limiter letting
everything through without Redis, lie behind a middleware that never asks it) and
the job rows (`delete_proxy` and `log_rate_limit` have no reachable caller).
