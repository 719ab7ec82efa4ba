---------------------------- MODULE JobPipeline ----------------------------
(***************************************************************************)
(* The life of a download job in MEDDOWBOT: the bot process that creates   *)
(* the row and enqueues work (handlers/), the row itself (database/), the  *)
(* Redis list that holds the work (task_queue/), the preflight and         *)
(* download tasks the workers run (workers/), and the sweep that looks for *)
(* stale jobs (bot/main.py).                                               *)
(*                                                                         *)
(* Every database transaction, every call to the broker and every message  *)
(* sent to the user is a step of its own, so other actors may act between  *)
(* any two of them.  A job is known by its number in creation order.       *)
(***************************************************************************)
EXTENDS Naturals, Sequences, FiniteSets

CONSTANTS
  Users,         \* the people who send commands
  Urls,          \* the media they ask for
  Qualities,     \* values of format_requested / format_quality
  Best,          \* the quality "best", which makes YouTube show a menu
  YouTubeLinks,  \* the URLs the handler takes for YouTube's, by their text
  YouTube,       \* the URLs the extractor finds to be YouTube's
  Large,         \* <<url, quality>> above the large-file warning
  Unselectable,  \* <<url, quality>> no format can be selected for
  Oversize,      \* <<url, quality>> whose file is split before the upload
  Workers,       \* task slots of the taskiq workers
  MaxRecoveries, \* 3 in _recover_stale_jobs
  Events,        \* which optional commands and faults this instance has
  MaxJobs,       \* bound: rows ever created
  MaxClicks,     \* bound: presses on one job's quality menu
  MaxFaults,     \* bound: faults in a behaviour
  None           \* SQL NULL, a missing row, nothing held

EventKinds == {"cancel", "clear", "reddit",              \* commands
               "error", "timeout", "crash",              \* worker faults
               "restart", "abort",                       \* bot faults
               "slow"}                                   \* work over 5 minutes

ASSUME ConstantAssumption ==
  /\ Best \in Qualities
  /\ YouTubeLinks \subseteq Urls
  /\ YouTube \subseteq Urls
  /\ Large \subseteq Urls \X Qualities
  /\ Unselectable \subseteq Urls \X Qualities
  /\ Large \cap Unselectable = {}
  /\ Oversize \subseteq Urls \X Qualities
  /\ Events \subseteq EventKinds
  /\ MaxRecoveries \in Nat \ {0}
  /\ MaxJobs \in Nat
  /\ MaxClicks \in Nat
  /\ MaxFaults \in Nat

VARIABLES
  created,     \* number of job ids handed out
  db,          \* the table download_jobs, as committed
  intake,      \* messages a handler will enqueue after replying
  draft,       \* rows a /reddit handler has flushed and not committed
  menu,        \* the last keyboard sent for the job, until it is used
  picks,       \* quality buttons pressed whose handler has not run yet
  clicks,      \* presses so far, for MaxClicks and DeliveryBounded
  cancelling,  \* the job a /cancel handler has read, per user
  sweep,       \* the stale-job sweep in progress
  queue,       \* the Redis list of task messages
  attempt,     \* what each worker slot is running
  tmp,         \* the media file in data/downloads/<job id>
  sent,        \* history: files sent to the chat, per job
  requeued,    \* history: messages the sweep enqueued, per job
  aborted,     \* history: sweeps rolled back
  faults       \* faults so far, for MaxFaults

botVars    == <<created, intake, draft, picks, clicks, cancelling, sweep,
                requeued, aborted>>
workerVars == <<attempt, tmp, sent>>
vars == <<created, db, intake, draft, menu, picks, clicks, cancelling, sweep,
          queue, attempt, tmp, sent, requeued, aborted, faults>>

-----------------------------------------------------------------------------
(* Types *)

Jobs     == 1 .. MaxJobs
Active   == {"PENDING", "RUNNING"}
Statuses == Active \cup {"DONE", "FAILED", "CANCELLED"}

\* A file, on disk or behind a telegram_file_id, by what it shows.
File == [url : Urls, q : Qualities]

\* The columns of a row the properties can tell apart; url_hash is the pair
\* it digests.
Row == [owner   : Users,
        url     : Urls,
        status  : Statuses,
        fmt     : Qualities,
        hash    : (Urls \X Qualities) \cup {None},
        file    : File \cup {None},
        hb      : {"none", "fresh", "stale"},
        retries : Nat]

\* NULL is neither a cache key, nor a file, nor a row.
ASSUME NoneAssumption ==
  /\ None \notin Urls \X Qualities
  /\ None \notin File
  /\ None \notin Row

Message == [task : {"preflight", "download"}, job : Jobs,
            url : Urls, q : Qualities]

PreflightPC == {"cache", "send", "record", "fetch", "route"}
DownloadPC  == {"download", "downloaded", "compressing", "uploaded", "announce"}
PC == {"idle", "claim", "failing", "cleanup"} \cup PreflightPC \cup DownloadPC

Attempt == [pc : PC, msg : Message \cup {None}, file : File \cup {None}]
Sweep   == [on : BOOLEAN, rows : [Jobs -> Row \cup {None}],
            dirty : SUBSET Jobs, dead : SUBSET Jobs]

Idle       == [pc |-> "idle", msg |-> None, file |-> None]
EmptySweep == [on |-> FALSE, rows |-> [j \in Jobs |-> None],
               dirty |-> {}, dead |-> {}]

TypeOK ==
  /\ created \in 0 .. MaxJobs
  /\ db \in [Jobs -> Row \cup {None}]
  /\ intake \in SUBSET Message
  /\ draft \in [Jobs -> Row \cup {None}]
  /\ menu \in [Jobs -> {"none", "quality", "confirm"}]
  /\ picks \in SUBSET (Jobs \X Qualities)
  /\ clicks \in [Jobs -> Nat]
  /\ cancelling \in [Users -> Jobs \cup {None}]
  /\ sweep \in Sweep
  /\ queue \in Seq(Message)
  /\ attempt \in [Workers -> Attempt]
  /\ \A w \in Workers : attempt[w].pc # "idle" => attempt[w].msg \in Message
  /\ tmp \in [Jobs -> File \cup {None}]
  /\ sent \in [Jobs -> Nat]
  /\ requeued \in [Jobs -> Nat]
  /\ aborted \in Nat
  /\ faults \in Nat

-----------------------------------------------------------------------------
(* Helpers *)

\* Mistake: the request's quality is not stored.
NewRowWithoutFormat(u, url, q) ==
  [owner |-> u, url |-> url, status |-> "PENDING", fmt |-> None, hash |-> None,
   file |-> None, hb |-> "none", retries |-> 0]

NewRow(u, url, q) ==
  [owner |-> u, url |-> url, status |-> "PENDING", fmt |-> q, hash |-> None,
   file |-> None, hb |-> "none", retries |-> 0]

\* Mistake: an upsert, which brings a deleted row back.
UpsertRow(j, row) ==
  \E u \in Users, url \in Urls :
    db' = [db EXCEPT ![j] = IF db[j] = None THEN NewRow(u, url, Best) ELSE row]

\* An UPDATE ... WHERE id = j: it changes the committed row or no row at all.
UpdateRow(j, row) ==
  db' = IF db[j] = None THEN db ELSE [db EXCEPT ![j] = row]

Preflight(j, url, q) ==
  [task |-> "preflight", job |-> j, url |-> url, q |-> q]

IsActive(j) == db[j] # None /\ db[j].status \in Active

\* Mistakes: take a missing heartbeat for an old one; pass over the jobs whose
\* retries are spent.
IsStaleOrSilent(j) ==
  db[j] # None /\ db[j].status = "RUNNING" /\ db[j].hb # "fresh"
IsStaleWithRetries(j) ==
  /\ db[j] # None /\ db[j].status = "RUNNING" /\ db[j].hb = "stale"
  /\ db[j].retries < MaxRecoveries

IsStale(j) == db[j] # None /\ db[j].status = "RUNNING" /\ db[j].hb = "stale"

\* Somebody still has the job's work in hand.
Working(j) == \/ \E w \in Workers : attempt[w] # Idle /\ attempt[w].msg.job = j
              \/ \E i \in DOMAIN queue : queue[i].job = j

Fault(kind) == kind \in Events /\ faults < MaxFaults /\ faults' = faults + 1

-----------------------------------------------------------------------------
Init ==
  /\ created = 0
  /\ db = [j \in Jobs |-> None]
  /\ intake = {}
  /\ draft = [j \in Jobs |-> None]
  /\ menu = [j \in Jobs |-> "none"]
  /\ picks = {}
  /\ clicks = [j \in Jobs |-> 0]
  /\ cancelling = [u \in Users |-> None]
  /\ sweep = EmptySweep
  /\ queue = << >>
  /\ attempt = [w \in Workers |-> Idle]
  /\ tmp = [j \in Jobs |-> None]
  /\ sent = [j \in Jobs |-> 0]
  /\ requeued = [j \in Jobs |-> 0]
  /\ aborted = 0
  /\ faults = 0

-----------------------------------------------------------------------------
(* The bot process: handlers *)

\* handle_download, up to the commit of the new row.
Submit(u, url, pref) ==
  LET j == created + 1
      q == IF url \in YouTubeLinks THEN Best ELSE pref
  IN  /\ created < MaxJobs
      /\ created' = j
      /\ db' = [db EXCEPT ![j] = NewRow(u, url, q)]
      /\ intake' = intake \cup {Preflight(j, url, q)}
      /\ UNCHANGED <<draft, menu, picks, clicks, cancelling, sweep, queue,
                     workerVars, requeued, aborted, faults>>

\* The handler, its row committed and its reply out, enqueues the preflight.
Enqueue(m) ==
  /\ intake' = intake \ {m}
  /\ queue' = Append(queue, m)
  /\ UNCHANGED <<created, db, draft, menu, picks, clicks, cancelling, sweep,
                 workerVars, requeued, aborted, faults>>

\* The reply or the broker raised: the row stays, nothing is enqueued.
EnqueueFails(m) ==
  /\ Fault("error")
  /\ intake' = intake \ {m}
  /\ UNCHANGED <<created, db, draft, menu, picks, clicks, cancelling, sweep,
                 queue, workerVars, requeued, aborted>>

\* process_sort: one post of a bulk request.  The row is flushed in the
\* handler's transaction; its task is already in the queue.
RedditQueue(u, url, q) ==
  LET j == created + 1
  IN  /\ "reddit" \in Events
      /\ created < MaxJobs
      /\ created' = j
      /\ draft' = [draft EXCEPT ![j] = NewRow(u, url, q)]
      /\ queue' = Append(queue, Preflight(j, url, q))
      /\ UNCHANGED <<db, intake, menu, picks, clicks, cancelling, sweep,
                     workerVars, requeued, aborted, faults>>

Drafts(u) == {j \in Jobs : draft[j] # None /\ draft[j].owner = u}

RedditCommit(u) ==
  /\ Drafts(u) # {}
  /\ db' = [j \in Jobs |-> IF j \in Drafts(u) THEN draft[j] ELSE db[j]]
  /\ draft' = [j \in Jobs |-> IF j \in Drafts(u) THEN None ELSE draft[j]]
  /\ UNCHANGED <<created, intake, menu, picks, clicks, cancelling, sweep,
                 queue, workerVars, requeued, aborted, faults>>

\* A later post failed: every row of the request goes, the tasks stay.
RedditRollback(u) ==
  /\ Fault("error")
  /\ Drafts(u) # {}
  /\ draft' = [j \in Jobs |-> IF j \in Drafts(u) THEN None ELSE draft[j]]
  /\ UNCHANGED <<created, db, intake, menu, picks, clicks, cancelling, sweep,
                 queue, workerVars, requeued, aborted>>

\* The user presses a button of the quality menu; until a handler edits the
\* message the keyboard stays and can be pressed again.
Click(j, q) ==
  /\ menu[j] = "quality"
  /\ clicks[j] < MaxClicks
  /\ <<j, q>> \notin picks
  /\ picks' = picks \cup {<<j, q>>}
  /\ clicks' = [clicks EXCEPT ![j] = @ + 1]
  /\ UNCHANGED <<created, db, intake, draft, menu, cancelling, sweep, queue,
                 workerVars, requeued, aborted, faults>>

\* handle_quality_selection: remove the keyboard and store the choice; a
\* second preflight will be enqueued.  The job's status is not looked at.
QualityPick(j, q) ==
  /\ picks' = picks \ {<<j, q>>}
  /\ menu' = [menu EXCEPT ![j] = "none"]
  /\ IF db[j] = None
       THEN UNCHANGED <<db, intake>>
       ELSE /\ db' = [db EXCEPT ![j].fmt = q]
            /\ intake' = intake \cup {Preflight(j, db[j].url, q)}
  /\ UNCHANGED <<created, draft, clicks, cancelling, sweep, queue,
                 workerVars, requeued, aborted, faults>>

\* The edit of the message or the transaction raised.
QualityPickFails(j, q) ==
  /\ Fault("error")
  /\ picks' = picks \ {<<j, q>>}
  /\ menu' \in {menu, [menu EXCEPT ![j] = "none"]}
  /\ UNCHANGED <<created, db, intake, draft, clicks, cancelling, sweep, queue,
                 workerVars, requeued, aborted>>

\* While the chat is asked how to sort a bulk request, the router of /reddit
\* takes every press of a button and drops those that are not its own.
PickSwallowed(j, q) ==
  /\ "reddit" \in Events
  /\ picks' = picks \ {<<j, q>>}
  /\ UNCHANGED <<created, db, intake, draft, menu, clicks, cancelling, sweep,
                 queue, workerVars, requeued, aborted, faults>>

\* cancel_command: read the user's newest active job ...
CancelRead(u) ==
  LET mine == {j \in Jobs : IsActive(j) /\ db[j].owner = u}
  IN  /\ "cancel" \in Events
      /\ cancelling[u] = None
      /\ \E j \in mine : /\ \A k \in mine : k <= j
                         /\ cancelling' = [cancelling EXCEPT ![u] = j]
      /\ UNCHANGED <<created, db, intake, draft, menu, picks, clicks, sweep,
                     queue, workerVars, requeued, aborted, faults>>

\* Mistake: cancel whatever the row says by now.
CancelRowAlways(j) ==
  IF db[j] # None THEN [db EXCEPT ![j].status = "CANCELLED"] ELSE db

\* cancel_job: UPDATE ... WHERE status IN (PENDING, RUNNING).
CancelRow(j) ==
  IF IsActive(j) THEN [db EXCEPT ![j].status = "CANCELLED"] ELSE db

\* ... and cancel it unless it has ended in between.
CancelCommit(u) ==
  LET j == cancelling[u]
  IN  /\ j # None
      /\ db' = CancelRow(j)
      /\ cancelling' = [cancelling EXCEPT ![u] = None]
      /\ UNCHANGED <<created, intake, draft, menu, picks, clicks, sweep,
                     queue, workerVars, requeued, aborted, faults>>

\* The answer to the user is sent before the commit and raised.
CancelFails(u) ==
  /\ Fault("error")
  /\ cancelling[u] # None
  /\ cancelling' = [cancelling EXCEPT ![u] = None]
  /\ UNCHANGED <<created, db, intake, draft, menu, picks, clicks, sweep,
                 queue, workerVars, requeued, aborted>>

\* handle_clear_history_exec: DELETE every row of the user.
ClearHistory(u) ==
  LET mine == {j \in Jobs : db[j] # None /\ db[j].owner = u}
  IN  /\ "clear" \in Events
      /\ mine # {}
      /\ db' = [j \in Jobs |-> IF j \in mine THEN None ELSE db[j]]
      /\ UNCHANGED <<created, intake, draft, menu, picks, clicks, cancelling,
                     sweep, queue, workerVars, requeued, aborted, faults>>

-----------------------------------------------------------------------------
(* The bot process: the stale-job sweep, one transaction *)

RecoverBegin ==
  /\ ~sweep.on
  /\ \E j \in Jobs : IsStale(j)
  /\ sweep' = [EmptySweep EXCEPT
                 !.on   = TRUE,
                 !.rows = [j \in Jobs |-> IF IsStale(j) THEN db[j] ELSE None]]
  /\ UNCHANGED <<created, db, intake, draft, menu, picks, clicks, cancelling,
                 queue, workerVars, requeued, aborted, faults>>

\* One iteration: the row object is changed in memory; the message, if the
\* job has retries left, is enqueued at once.
RecoverJob(j) ==
  LET row == sweep.rows[j]
      spent == row.retries + 1 > MaxRecoveries
  IN  /\ row # None
      /\ sweep' = [sweep EXCEPT !.rows[j] = None,
                                !.dirty = @ \cup {j},
                                !.dead = IF spent THEN @ \cup {j} ELSE @]
      /\ IF spent
           THEN UNCHANGED <<queue, requeued>>
           ELSE /\ queue' = Append(queue, Preflight(j, row.url, row.fmt))
                /\ requeued' = [requeued EXCEPT ![j] = @ + 1]
      /\ UNCHANGED <<created, db, intake, draft, menu, picks, clicks,
                     cancelling, workerVars, aborted, faults>>

SweepLooped == sweep.on /\ \A j \in Jobs : sweep.rows[j] = None
SweepLost   == {j \in sweep.dirty : db[j] = None}

\* Mistake: the retry is not counted.
RecoveredForFree(j) ==
  [db[j] EXCEPT !.hb = "fresh",
                !.status = IF j \in sweep.dead THEN "FAILED" ELSE @]

\* The flush writes only the columns the loop assigned.
Recovered(j) ==
  [db[j] EXCEPT !.hb = "fresh", !.retries = @ + 1,
                !.status = IF j \in sweep.dead THEN "FAILED" ELSE @]

\* A lone UPDATE that matches no row makes the ORM raise (RecoverLost); a
\* batch of several is not counted row by row.
RecoverCommit ==
  /\ SweepLooped
  /\ SweepLost = {} \/ Cardinality(sweep.dirty) > 1
  /\ db' = [j \in Jobs |-> IF j \in sweep.dirty \ SweepLost
                             THEN Recovered(j) ELSE db[j]]
  /\ sweep' = EmptySweep
  /\ UNCHANGED <<created, intake, draft, menu, picks, clicks, cancelling,
                 queue, workerVars, requeued, aborted, faults>>

RollBackSweep ==
  /\ sweep' = EmptySweep
  /\ aborted' = aborted + 1

RecoverLost ==
  /\ SweepLooped
  /\ SweepLost # {}
  /\ RollBackSweep
  /\ UNCHANGED <<created, db, intake, draft, menu, picks, clicks, cancelling,
                 queue, workerVars, requeued, faults>>

\* The broker or the database raised inside the loop.
RecoverAbort ==
  /\ Fault("abort")
  /\ sweep.on
  /\ RollBackSweep
  /\ UNCHANGED <<created, db, intake, draft, menu, picks, clicks, cancelling,
                 queue, workerVars, requeued>>

\* Five minutes go by since heartbeat_at was written.  With "slow" this may
\* happen while a task of the job is queued or running.
HeartbeatAges(j) ==
  /\ db[j] # None /\ db[j].hb = "fresh"
  /\ Working(j) => "slow" \in Events
  /\ db' = [db EXCEPT ![j].hb = "stale"]
  /\ UNCHANGED <<botVars, menu, queue, workerVars, faults>>

\* The bot process dies: handlers and sweep end, their transactions roll back.
BotRestart ==
  /\ Fault("restart")
  /\ intake' = {}
  /\ draft' = [j \in Jobs |-> None]
  /\ picks' = {}
  /\ cancelling' = [u \in Users |-> None]
  /\ IF sweep.on THEN RollBackSweep ELSE UNCHANGED <<sweep, aborted>>
  /\ UNCHANGED <<created, db, menu, clicks, queue, workerVars, requeued>>

-----------------------------------------------------------------------------
(* The workers: preflight_task *)

At(w, pc)   == attempt[w].pc = pc
Goto(w, pc) == attempt' = [attempt EXCEPT ![w].pc = pc]
Ends(w)     == attempt' = [attempt EXCEPT ![w] = Idle]
Key(m)      == <<m.url, m.q>>

\* Mistake: read the message and leave it on the list until the task ends.
ReceiveAndLeave(w) ==
  /\ At(w, "idle")
  /\ queue # << >>
  /\ attempt' = [attempt EXCEPT ![w] =
       [pc   |-> IF Head(queue).task = "preflight" THEN "cache" ELSE "claim",
        msg  |-> Head(queue),
        file |-> None]]
  /\ UNCHANGED <<botVars, db, menu, queue, tmp, sent, faults>>

\* BRPOP takes the message off the list; nothing acknowledges it later.
Receive(w) ==
  /\ At(w, "idle")
  /\ queue # << >>
  /\ queue' = Tail(queue)
  /\ attempt' = [attempt EXCEPT ![w] =
       [pc   |-> IF Head(queue).task = "preflight" THEN "cache" ELSE "claim",
        msg  |-> Head(queue),
        file |-> None]]
  /\ UNCHANGED <<botVars, db, menu, tmp, sent, faults>>

\* Mistakes: the key leaves out the URL, or the quality.
CacheHitsOfQuality(m) ==
  {k \in Jobs : /\ db[k] # None /\ db[k].status = "DONE" /\ db[k].file # None
                /\ db[k].hash # None /\ db[k].hash[2] = m.q}
CacheHitsOfUrl(m) ==
  {k \in Jobs : /\ db[k] # None /\ db[k].status = "DONE" /\ db[k].file # None
                /\ db[k].hash # None /\ db[k].hash[1] = m.url}

CacheHits(m) ==
  {k \in Jobs : /\ db[k] # None
                /\ db[k].hash = Key(m)
                /\ db[k].status = "DONE"
                /\ db[k].file # None}

\* completed_at is written by whichever host ran the task, so any of the
\* matching rows may be the newest.
CacheHit(w) ==
  /\ At(w, "cache")
  /\ \E k \in CacheHits(attempt[w].msg) :
       attempt' = [attempt EXCEPT ![w].pc = "send", ![w].file = db[k].file]
  /\ UNCHANGED <<botVars, db, menu, queue, tmp, sent, faults>>

CacheMiss(w) ==
  /\ At(w, "cache")
  /\ CacheHits(attempt[w].msg) = {}
  /\ Goto(w, "fetch")
  /\ UNCHANGED <<botVars, db, menu, queue, tmp, sent, faults>>

\* _deliver_cached_result: send the document, then store DONE.
SendCached(w) ==
  /\ At(w, "send")
  /\ Goto(w, "record")
  /\ sent' = [sent EXCEPT ![attempt[w].msg.job] = @ + 1]
  /\ UNCHANGED <<botVars, db, menu, queue, tmp, faults>>

\* Mistake: go on with the preflight after the delivery.
RecordCachedAndGoOn(w) ==
  LET j == attempt[w].msg.job
  IN  /\ At(w, "record")
      /\ UpdateRow(j, [db[j] EXCEPT !.status = "DONE", !.file = attempt[w].file])
      /\ Goto(w, "fetch")
      /\ UNCHANGED <<botVars, menu, queue, tmp, sent, faults>>

RecordCached(w) ==
  LET j == attempt[w].msg.job
  IN  /\ At(w, "record")
      /\ UpdateRow(j, [db[j] EXCEPT !.status = "DONE", !.file = attempt[w].file])
      /\ Ends(w)
      /\ UNCHANGED <<botVars, menu, queue, tmp, sent, faults>>

\* fetch_metadata answered: the job is RUNNING under this cache key.
Fetched(w) ==
  LET j == attempt[w].msg.job
  IN  /\ At(w, "fetch")
      /\ UpdateRow(j, [db[j] EXCEPT !.status = "RUNNING",
                                    !.hash = Key(attempt[w].msg)])
      /\ Goto(w, "route")
      /\ UNCHANGED <<botVars, menu, queue, tmp, sent, faults>>

MarkFailed(j) == UpdateRow(j, [db[j] EXCEPT !.status = "FAILED"])

FetchFails(w) ==
  /\ At(w, "fetch")
  /\ MarkFailed(attempt[w].msg.job)
  /\ Ends(w)
  /\ UNCHANGED <<botVars, menu, queue, tmp, sent, faults>>

\* Mistake: a menu for every quality.
WantsMenuAlways(m) == m.url \in YouTube

WantsMenu(m) == m.url \in YouTube /\ m.q = Best

AskQuality(w) ==
  LET m == attempt[w].msg
  IN  /\ At(w, "route")
      /\ WantsMenu(m)
      /\ menu' = [menu EXCEPT ![m.job] = "quality"]
      /\ Ends(w)
      /\ UNCHANGED <<botVars, db, queue, tmp, sent, faults>>

\* select_best_format indexes an empty list; nothing catches it.
SelectFails(w) ==
  /\ At(w, "route")
  /\ ~WantsMenu(attempt[w].msg)
  /\ Key(attempt[w].msg) \in Unselectable
  /\ Ends(w)
  /\ UNCHANGED <<botVars, db, menu, queue, tmp, sent, faults>>

WarnLarge(w) ==
  LET m == attempt[w].msg
  IN  /\ At(w, "route")
      /\ ~WantsMenu(m)
      /\ Key(m) \in Large
      /\ menu' = [menu EXCEPT ![m.job] = "confirm"]
      /\ Ends(w)
      /\ UNCHANGED <<botVars, db, queue, tmp, sent, faults>>

\* Mistakes: the download task is never enqueued, or twice; the preflight
\* itself is.
ChainedNowhere(m) == queue
ChainedTwice(m) == queue \o <<[m EXCEPT !.task = "download"], [m EXCEPT !.task = "download"]>>
ChainedToItself(m) == Append(queue, m)

Chained(m) == Append(queue, [m EXCEPT !.task = "download"])

Chain(w) ==
  LET m == attempt[w].msg
  IN  /\ At(w, "route")
      /\ ~WantsMenu(m)
      /\ Key(m) \notin Large \cup Unselectable
      /\ queue' = Chained(m)
      /\ Ends(w)
      /\ UNCHANGED <<botVars, db, menu, tmp, sent, faults>>

-----------------------------------------------------------------------------
(* The workers: download_task *)

\* The disk check before this only logs and tells the admins.
Claim(w) ==
  LET j == attempt[w].msg.job
  IN  /\ At(w, "claim")
      /\ UpdateRow(j, [db[j] EXCEPT !.status = "RUNNING", !.hb = "fresh"])
      /\ Goto(w, "download")
      /\ UNCHANGED <<botVars, menu, queue, tmp, sent, faults>>

\* The directory belongs to the job, not to the attempt: yt-dlp keeps a file
\* another attempt has already put there.
Download(w) ==
  LET m == attempt[w].msg
  IN  /\ At(w, "download")
      /\ tmp' = [tmp EXCEPT ![m.job] =
                   IF @ = None THEN [url |-> m.url, q |-> m.q] ELSE @]
      /\ Goto(w, "downloaded")
      /\ UNCHANGED <<botVars, db, menu, queue, sent, faults>>

DownloadFails(w) ==
  /\ At(w, "download")
  /\ Goto(w, "failing")
  /\ UNCHANGED <<botVars, db, menu, queue, tmp, sent, faults>>

\* The file is above the user's limit: write a heartbeat and compress.
Compress(w) ==
  LET j == attempt[w].msg.job
  IN  /\ At(w, "downloaded")
      /\ tmp[j] # None
      /\ UpdateRow(j, [db[j] EXCEPT !.status = "RUNNING", !.hb = "fresh"])
      /\ Goto(w, "compressing")
      /\ UNCHANGED <<botVars, menu, queue, tmp, sent, faults>>

\* upload_file, of the file or of its parts; the last file_id is kept.
Upload(w) ==
  LET j == attempt[w].msg.job
  IN  /\ At(w, "downloaded") \/ At(w, "compressing")
      /\ tmp[j] # None
      /\ sent' = [sent EXCEPT ![j] = @ + 1]
      /\ attempt' = [attempt EXCEPT ![w].pc = "uploaded", ![w].file = tmp[j]]
      /\ UNCHANGED <<botVars, db, menu, queue, tmp, faults>>

\* The parts are looked up with a glob pattern made of the title, which need
\* not match them: then the loop uploads nothing.
UploadNothing(w) ==
  LET j == attempt[w].msg.job
  IN  /\ At(w, "downloaded") \/ At(w, "compressing")
      /\ tmp[j] # None
      /\ <<tmp[j].url, tmp[j].q>> \in Oversize
      /\ Goto(w, "uploaded")
      /\ UNCHANGED <<botVars, db, menu, queue, tmp, sent, faults>>

\* Another attempt has removed the directory.
FileGone(w) ==
  /\ At(w, "downloaded") \/ At(w, "compressing")
  /\ tmp[attempt[w].msg.job] = None
  /\ Goto(w, "failing")
  /\ UNCHANGED <<botVars, db, menu, queue, tmp, sent, faults>>

RecordDone(w) ==
  LET j == attempt[w].msg.job
  IN  /\ At(w, "uploaded")
      /\ UpdateRow(j, [db[j] EXCEPT !.status = "DONE", !.file = attempt[w].file])
      /\ Goto(w, "announce")
      /\ UNCHANGED <<botVars, menu, queue, tmp, sent, faults>>

Announce(w) ==
  /\ At(w, "announce")
  /\ Goto(w, "cleanup")
  /\ UNCHANGED <<botVars, db, menu, queue, tmp, sent, faults>>

\* The except branch.
RecordFailed(w) ==
  /\ At(w, "failing")
  /\ MarkFailed(attempt[w].msg.job)
  /\ Goto(w, "cleanup")
  /\ UNCHANGED <<botVars, menu, queue, tmp, sent, faults>>

\* The finally branch.
Cleanup(w) ==
  /\ At(w, "cleanup")
  /\ tmp' = [tmp EXCEPT ![attempt[w].msg.job] = None]
  /\ Ends(w)
  /\ UNCHANGED <<botVars, db, menu, queue, sent, faults>>

-----------------------------------------------------------------------------
(* The workers: faults *)

\* A Telegram, Redis or database call raises.  Preflight and the start of
\* the download have no handler for it; the try block of the download has.
Raises(w) ==
  /\ Fault("error")
  /\ \/ /\ attempt[w].pc \in PreflightPC \cup {"claim"}
        /\ Ends(w)
     \/ /\ attempt[w].pc \in DownloadPC
        /\ Goto(w, "failing")
     \/ /\ At(w, "failing")
        /\ Goto(w, "cleanup")
  /\ UNCHANGED <<botVars, db, menu, queue, tmp, sent>>

\* taskiq cancels the task at its timeout: no except branch catches that,
\* only the finally branch runs.
TimesOut(w) ==
  /\ Fault("timeout")
  /\ \/ /\ attempt[w].pc \in PreflightPC \cup {"claim"}
        /\ Ends(w)
     \/ /\ attempt[w].pc \in DownloadPC \cup {"failing"}
        /\ Goto(w, "cleanup")
  /\ UNCHANGED <<botVars, db, menu, queue, tmp, sent>>

\* The worker process dies with the message it had taken.
WorkerCrash(w) ==
  /\ Fault("crash")
  /\ ~At(w, "idle")
  /\ Ends(w)
  /\ UNCHANGED <<botVars, db, menu, queue, tmp, sent>>

-----------------------------------------------------------------------------
PreflightStep(w) ==
  \/ CacheHit(w) \/ CacheMiss(w) \/ SendCached(w) \/ RecordCached(w)
  \/ Fetched(w) \/ FetchFails(w)
  \/ AskQuality(w) \/ SelectFails(w) \/ WarnLarge(w) \/ Chain(w)

DownloadStep(w) ==
  \/ Claim(w) \/ Download(w) \/ DownloadFails(w) \/ Compress(w) \/ Upload(w)
  \/ UploadNothing(w) \/ FileGone(w) \/ RecordDone(w) \/ Announce(w)
  \/ RecordFailed(w) \/ Cleanup(w)

WorkerStep(w) == Receive(w) \/ PreflightStep(w) \/ DownloadStep(w)

WorkerFault(w) == Raises(w) \/ TimesOut(w) \/ WorkerCrash(w)

UserStep(u) ==
  \/ \E url \in Urls, q \in Qualities : Submit(u, url, q) \/ RedditQueue(u, url, q)
  \/ RedditCommit(u) \/ RedditRollback(u)
  \/ CancelRead(u) \/ CancelCommit(u) \/ CancelFails(u)
  \/ ClearHistory(u)

IntakeStep == \E m \in intake : Enqueue(m) \/ EnqueueFails(m)

MenuStep == \/ \E j \in Jobs, q \in Qualities \ {Best} : Click(j, q)
            \/ \E p \in picks : \/ QualityPick(p[1], p[2])
                              \/ QualityPickFails(p[1], p[2])
                              \/ PickSwallowed(p[1], p[2])

SweepStep == \/ RecoverBegin \/ RecoverCommit \/ RecoverLost \/ RecoverAbort
             \/ \E j \in Jobs : RecoverJob(j)

Next ==
  \/ \E w \in Workers : WorkerStep(w) \/ WorkerFault(w)
  \/ \E u \in Users : UserStep(u)
  \/ IntakeStep
  \/ MenuStep
  \/ SweepStep
  \/ \E j \in Jobs : HeartbeatAges(j)
  \/ BotRestart

Spec == Init /\ [][Next]_vars

(* What the event loops, the workers, the 300-second sweep and the clock    *)
(* keep doing.  Nothing is assumed of the users or of the faults.           *)
Fairness ==
  /\ \A w \in Workers : WF_vars(WorkerStep(w))
  /\ WF_vars(\E m \in intake : Enqueue(m))
  /\ WF_vars(\E p \in picks : QualityPick(p[1], p[2]))
  /\ \A u \in Users : WF_vars(RedditCommit(u)) /\ WF_vars(CancelCommit(u))
  /\ WF_vars(RecoverBegin \/ RecoverCommit \/ RecoverLost)
  /\ \A j \in Jobs : WF_vars(RecoverJob(j)) /\ WF_vars(HeartbeatAges(j))

FairSpec == Spec /\ Fairness
=============================================================================
