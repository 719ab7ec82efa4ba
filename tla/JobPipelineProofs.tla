------------------------- MODULE JobPipelineProofs -------------------------
(* Theorems about the job pipeline, for every value of its constants.       *)
EXTENDS JobProperties, TLAPS

USE ConstantAssumption

-----------------------------------------------------------------------------
(* Type correctness *)

LEMMA InitTypes == Init => TypeOK
  BY DEF Init, TypeOK, Jobs, Idle, EmptySweep, PC, Attempt, Sweep

\* The updates the pipeline makes to a row give a row.
LEMMA RowStatus ==
  ASSUME NEW r \in Row, NEW s \in {"PENDING", "RUNNING", "DONE", "FAILED", "CANCELLED"}
  PROVE  [r EXCEPT !.status = s] \in Row
  BY DEF Row, Statuses, Active

LEMMA RowFormat ==
  ASSUME NEW r \in Row, NEW q \in Qualities
  PROVE  [r EXCEPT !.fmt = q] \in Row
  BY DEF Row

LEMMA RowHeartbeat ==
  ASSUME NEW r \in Row, NEW h \in {"none", "fresh", "stale"}
  PROVE  [r EXCEPT !.hb = h] \in Row
  BY DEF Row

LEMMA RowRunning ==
  ASSUME NEW r \in Row
  PROVE  [r EXCEPT !.status = "RUNNING", !.hb = "fresh"] \in Row
  BY DEF Row, Statuses, Active

LEMMA RowKeyed ==
  ASSUME NEW r \in Row, NEW k \in Urls \X Qualities
  PROVE  [r EXCEPT !.status = "RUNNING", !.hash = k] \in Row
  BY DEF Row, Statuses, Active

LEMMA RowDone ==
  ASSUME NEW r \in Row, NEW f \in File \cup {None}
  PROVE  [r EXCEPT !.status = "DONE", !.file = f] \in Row
  BY DEF Row, Statuses, Active

LEMMA RowRecovered ==
  ASSUME NEW r \in Row, NEW s \in Statuses
  PROVE  [r EXCEPT !.hb = "fresh", !.retries = @ + 1, !.status = s] \in Row
<1>1. r.retries + 1 \in Nat
      BY DEF Row
<1> QED BY <1>1 DEF Row

LEMMA AttemptUpdates ==
  ASSUME NEW a \in Attempt, NEW pc \in PC, NEW f \in File \cup {None}
  PROVE  /\ [a EXCEPT !.pc = pc] \in Attempt
         /\ [a EXCEPT !.pc = pc, !.file = f] \in Attempt
         /\ Idle \in Attempt
  BY DEF Attempt, Idle, PC

\* An UPDATE by id with a well-typed row keeps the table well typed.
LEMMA UpdateTypes ==
  ASSUME TypeOK, NEW j \in Jobs, NEW row,
         db[j] # None => row \in Row,
         UpdateRow(j, row)
  PROVE  db' \in [Jobs -> Row \cup {None}]
  BY DEF TypeOK, UpdateRow

LEMMA NewRowTypes ==
  ASSUME NEW u \in Users, NEW url \in Urls, NEW q \in Qualities
  PROVE  NewRow(u, url, q) \in Row
  BY DEF NewRow, Row, Statuses, Active

LEMMA HandlerTypes ==
  ASSUME TypeOK, NEW u \in Users, UserStep(u)
  PROVE  TypeOK'
<1> USE DEF TypeOK, botVars, workerVars
<1>1. CASE \E url \in Urls, q \in Qualities : Submit(u, url, q)
  <2> PICK url \in Urls, q \in Qualities : Submit(u, url, q)
      BY <1>1
  <2> DEFINE j == created + 1
             k == IF url \in YouTubeLinks THEN Best ELSE q
  <2>1. j \in Jobs /\ created' \in 0 .. MaxJobs
        BY DEF Submit, Jobs
  <2>2. NewRow(u, url, k) \in Row
        BY NewRowTypes
  <2>3. Preflight(j, url, k) \in Message
        BY <2>1 DEF Preflight, Message
  <2> QED BY <2>1, <2>2, <2>3 DEF Submit
<1>2. CASE \E url \in Urls, q \in Qualities : RedditQueue(u, url, q)
  <2> PICK url \in Urls, q \in Qualities : RedditQueue(u, url, q)
      BY <1>2
  <2>1. created + 1 \in Jobs /\ created' \in 0 .. MaxJobs
        BY DEF RedditQueue, Jobs
  <2>2. NewRow(u, url, q) \in Row
        BY NewRowTypes
  <2>3. Preflight(created + 1, url, q) \in Message
        BY <2>1 DEF Preflight, Message
  <2> QED BY <2>1, <2>2, <2>3 DEF RedditQueue
<1>3. CASE RedditCommit(u)
      BY <1>3 DEF RedditCommit
<1>4. CASE RedditRollback(u)
      BY <1>4 DEF RedditRollback, Fault
<1>5. CASE CancelRead(u) \/ CancelFails(u)
  <2>1. CASE CancelRead(u)
        BY <2>1 DEF CancelRead
  <2>2. CASE CancelFails(u)
        BY <2>2 DEF CancelFails, Fault
  <2> QED BY <1>5, <2>1, <2>2
<1>6. CASE CancelCommit(u)
  <2> DEFINE j == cancelling[u]
  <2>1. j \in Jobs
        BY <1>6 DEF CancelCommit
  <2>2. db[j] # None => [db[j] EXCEPT !.status = "CANCELLED"] \in Row
    <3>1. db[j] # None => db[j] \in Row
          BY <2>1
    <3> QED BY <3>1, RowStatus
  <2>3. CancelRow(j) \in [Jobs -> Row \cup {None}]
        BY <2>1, <2>2 DEF CancelRow, IsActive
  <2> QED BY <1>6, <2>3 DEF CancelCommit
<1>7. CASE ClearHistory(u)
      BY <1>7 DEF ClearHistory
<1> QED BY <1>1, <1>2, <1>3, <1>4, <1>5, <1>6, <1>7 DEF UserStep

LEMMA IntakeTypes ==
  ASSUME TypeOK, IntakeStep
  PROVE  TypeOK'
<1> USE DEF TypeOK, workerVars
<1>1. PICK m \in intake : Enqueue(m) \/ EnqueueFails(m)
      BY DEF IntakeStep
<1>2. m \in Message
      OBVIOUS
<1>3. CASE Enqueue(m)
  <2>1. queue' \in Seq(Message)
        BY <1>2, <1>3 DEF Enqueue
  <2> QED BY <1>3, <2>1 DEF Enqueue
<1>4. CASE EnqueueFails(m)
      BY <1>4 DEF EnqueueFails, Fault
<1> QED BY <1>1, <1>3, <1>4

LEMMA MenuTypes ==
  ASSUME TypeOK, MenuStep
  PROVE  TypeOK'
<1> USE DEF TypeOK, workerVars
<1>1. CASE \E j \in Jobs, q \in Qualities \ {Best} : Click(j, q)
      BY <1>1 DEF Click
<1>2. ASSUME NEW j \in Jobs, NEW q \in Qualities, QualityPick(j, q)
      PROVE  TypeOK'
  <2>1. CASE db[j] = None
        BY <1>2, <2>1 DEF QualityPick
  <2>2. CASE db[j] # None
    <3>1. db[j] \in Row
          BY <2>2
    <3>2. [db[j] EXCEPT !.fmt = q] \in Row
          BY <3>1, RowFormat
    <3>3. Preflight(j, db[j].url, q) \in Message
          BY <3>1 DEF Row, Preflight, Message
    <3>4. db' \in [Jobs -> Row \cup {None}]
          BY <1>2, <2>2, <3>2 DEF QualityPick
    <3>5. intake' = intake \cup {Preflight(j, db[j].url, q)}
          BY <1>2, <2>2 DEF QualityPick
    <3>6. intake' \in SUBSET Message
          BY <3>3, <3>5
    <3> QED BY <1>2, <3>4, <3>6 DEF QualityPick
  <2> QED BY <2>1, <2>2
<1>3. ASSUME NEW j \in Jobs, NEW q \in Qualities, QualityPickFails(j, q) \/ PickSwallowed(j, q)
      PROVE  TypeOK'
  <2>1. menu' \in [Jobs -> {"none", "quality", "confirm"}]
        BY <1>3 DEF QualityPickFails, PickSwallowed
  <2>2. picks' \in SUBSET (Jobs \X Qualities) /\ faults' \in Nat
        BY <1>3 DEF QualityPickFails, PickSwallowed, Fault
  <2>3. UNCHANGED <<created, db, intake, draft, clicks, cancelling, sweep,
                    queue, workerVars, requeued, aborted>>
        BY <1>3 DEF QualityPickFails, PickSwallowed
  <2> QED BY <2>1, <2>2, <2>3
<1>4. \A p \in picks : p[1] \in Jobs /\ p[2] \in Qualities
      OBVIOUS
<1> QED BY <1>1, <1>2, <1>3, <1>4 DEF MenuStep

LEMMA EmptySweepTypes == EmptySweep \in Sweep
  BY DEF EmptySweep, Sweep

LEMMA SweepTypes ==
  ASSUME TypeOK, SweepStep
  PROVE  TypeOK'
<1> USE DEF TypeOK, workerVars
<1>1. CASE RecoverBegin
      BY <1>1 DEF RecoverBegin, EmptySweep, Sweep
<1>2. CASE RecoverCommit
  <2>1. ASSUME NEW j \in Jobs, db[j] # None
        PROVE  Recovered(j) \in Row
    <3> DEFINE s == IF j \in sweep.dead THEN "FAILED" ELSE db[j].status
    <3>1. db[j] \in Row
          BY <2>1
    <3>2. s \in Statuses
          BY <3>1 DEF Row, Statuses, Active
    <3>3. [db[j] EXCEPT !.hb = "fresh", !.retries = @ + 1, !.status = s] \in Row
          BY <3>1, <3>2, RowRecovered
    <3>4. Recovered(j) = [db[j] EXCEPT !.hb = "fresh", !.retries = @ + 1, !.status = s]
          BY <3>1 DEF Recovered, Row
    <3> QED BY <3>3, <3>4
  <2>2. \A j \in sweep.dirty \ SweepLost : db[j] # None
        BY DEF SweepLost
  <2> QED BY <1>2, <2>1, <2>2, EmptySweepTypes DEF RecoverCommit, Sweep
<1>3. CASE RecoverLost
      BY <1>3, EmptySweepTypes DEF RecoverLost, RollBackSweep
<1>4. CASE RecoverAbort
      BY <1>4, EmptySweepTypes DEF RecoverAbort, RollBackSweep, Fault
<1>5. ASSUME NEW j \in Jobs, RecoverJob(j)
      PROVE  TypeOK'
  <2> DEFINE row == sweep.rows[j]
  <2>1. row \in Row
        BY <1>5 DEF RecoverJob, Sweep
  <2>2. Preflight(j, row.url, row.fmt) \in Message
        BY <2>1 DEF Row, Preflight, Message
  <2>3. sweep' \in Sweep
        BY <1>5 DEF RecoverJob, Sweep
  <2>4. queue' \in {queue, Append(queue, Preflight(j, row.url, row.fmt))}
        BY <1>5 DEF RecoverJob
  <2>5. queue' \in Seq(Message)
    <3>1. Append(queue, Preflight(j, row.url, row.fmt)) \in Seq(Message)
          BY <2>2
    <3> QED BY <2>4, <3>1
  <2>6. requeued' \in [Jobs -> Nat]
    <3>1. requeued[j] + 1 \in Nat
          OBVIOUS
    <3>2. [requeued EXCEPT ![j] = requeued[j] + 1] \in [Jobs -> Nat]
          BY <3>1
    <3> QED BY <1>5, <3>2 DEF RecoverJob
  <2> QED BY <1>5, <2>3, <2>5, <2>6 DEF RecoverJob
<1> QED BY <1>1, <1>2, <1>3, <1>4, <1>5 DEF SweepStep

LEMMA ClockTypes ==
  ASSUME TypeOK, NEW j \in Jobs, HeartbeatAges(j)
  PROVE  TypeOK'
<1>1. [db[j] EXCEPT !.hb = "stale"] \in Row
  <2>1. db[j] \in Row
        BY DEF TypeOK, HeartbeatAges
  <2> QED BY <2>1, RowHeartbeat
<1> QED BY <1>1 DEF TypeOK, HeartbeatAges, botVars, workerVars

LEMMA RestartTypes ==
  ASSUME TypeOK, BotRestart
  PROVE  TypeOK'
<1>1. sweep' \in Sweep /\ aborted' \in Nat
      BY EmptySweepTypes DEF TypeOK, BotRestart, RollBackSweep
<1> QED BY <1>1 DEF TypeOK, BotRestart, Fault, workerVars

(* The workers change only the attempt, the job's row, its menu, its file,  *)
(* the queue and the counters; most steps just move the attempt on.         *)
AttemptsTyped ==
  /\ attempt \in [Workers -> Attempt]
  /\ \A w \in Workers : attempt[w].pc # "idle" => attempt[w].msg \in Message

LEMMA GotoTypes ==
  ASSUME TypeOK, NEW w \in Workers, NEW pc \in PC, ~At(w, "idle"), Goto(w, pc)
  PROVE  AttemptsTyped'
<1>1. [attempt[w] EXCEPT !.pc = pc] \in Attempt
      BY AttemptUpdates DEF TypeOK
<1>2. attempt' = [attempt EXCEPT ![w] = [attempt[w] EXCEPT !.pc = pc]]
      BY DEF Goto, TypeOK
<1>3. [attempt[w] EXCEPT !.pc = pc].msg \in Message
      BY DEF TypeOK, At, Attempt
<1> QED BY <1>1, <1>2, <1>3 DEF TypeOK, AttemptsTyped

LEMMA EndsTypes ==
  ASSUME TypeOK, NEW w \in Workers, Ends(w)
  PROVE  AttemptsTyped'
<1>1. Idle \in Attempt /\ Idle.pc = "idle"
      BY DEF Attempt, Idle, PC
<1> QED BY <1>1 DEF TypeOK, AttemptsTyped, Ends

LEMMA ReceiveTypes ==
  ASSUME TypeOK, NEW w \in Workers, Receive(w)
  PROVE  TypeOK'
<1> USE DEF TypeOK, botVars
<1> DEFINE pc == IF Head(queue).task = "preflight" THEN "cache" ELSE "claim"
           a  == [pc |-> pc, msg |-> Head(queue), file |-> None]
<1>1. Head(queue) \in Message /\ Tail(queue) \in Seq(Message)
      BY DEF Receive
<1>2. a \in Attempt
      BY <1>1 DEF Attempt, PC, PreflightPC
<1>3. AttemptsTyped'
      BY <1>1, <1>2 DEF Receive, AttemptsTyped
<1> QED BY <1>1, <1>3 DEF Receive, AttemptsTyped

\* What the message in hand is made of.
LEMMA InHand ==
  ASSUME TypeOK, NEW w \in Workers, ~At(w, "idle")
  PROVE  /\ attempt[w].msg \in Message
         /\ attempt[w].msg.job \in Jobs
         /\ db[attempt[w].msg.job] # None => db[attempt[w].msg.job] \in Row
         /\ Key(attempt[w].msg) \in Urls \X Qualities
         /\ attempt[w].file \in File \cup {None}
  BY DEF TypeOK, At, Message, Key, Attempt

\* A step that changes the attempt, the job's row and nothing else.
LEMMA RowStepTypes ==
  ASSUME TypeOK, AttemptsTyped', db' \in [Jobs -> Row \cup {None}],
         UNCHANGED <<botVars, menu, queue, tmp, sent>>, faults' \in Nat
  PROVE  TypeOK'
  BY DEF TypeOK, AttemptsTyped, botVars

LEMMA CountedOn ==
  ASSUME NEW count \in [Jobs -> Nat], NEW k \in Jobs
  PROVE  [count EXCEPT ![k] = @ + 1] \in [Jobs -> Nat]
<1>1. count[k] + 1 \in Nat
      OBVIOUS
<1> QED BY <1>1

LEMMA SentStepTypes ==
  ASSUME TypeOK, AttemptsTyped', sent' \in [Jobs -> Nat],
         UNCHANGED <<botVars, db, menu, queue, tmp, faults>>
  PROVE  TypeOK'
  BY DEF TypeOK, AttemptsTyped, botVars

LEMMA PreflightTypes ==
  ASSUME TypeOK, NEW w \in Workers, PreflightStep(w)
  PROVE  TypeOK'
<1> DEFINE m == attempt[w].msg
           j == m.job
<1>a. {"idle", "cache", "send", "record", "fetch", "route"} \subseteq PC
      BY DEF PC, PreflightPC
<1>1. CASE CacheHit(w)
  <2>1. ~At(w, "idle")
        BY <1>1 DEF CacheHit, At
  <2>2. PICK k \in Jobs : /\ db[k] # None
                          /\ attempt' = [attempt EXCEPT ![w].pc = "send",
                                                        ![w].file = db[k].file]
        BY <1>1 DEF CacheHit, CacheHits
  <2>3. db[k].file \in File \cup {None}
        BY <2>2 DEF TypeOK, Row
  <2>4. [attempt[w] EXCEPT !.pc = "send", !.file = db[k].file] \in Attempt
    <3>1. attempt[w] \in Attempt
          BY DEF TypeOK
    <3> QED BY <1>a, <2>3, <3>1, AttemptUpdates
  <2>5. attempt' = [attempt EXCEPT ![w] =
                      [attempt[w] EXCEPT !.pc = "send", !.file = db[k].file]]
    <3>1. attempt \in [Workers -> Attempt]
          BY DEF TypeOK
    <3> QED BY <2>2, <3>1
  <2>6. [attempt[w] EXCEPT !.pc = "send", !.file = db[k].file].msg \in Message
    <3>1. attempt[w] \in Attempt
          BY DEF TypeOK
    <3>2. attempt[w].msg \in Message
          BY <2>1, InHand
    <3> QED BY <3>1, <3>2 DEF Attempt
  <2>7. AttemptsTyped'
        BY <2>4, <2>5, <2>6 DEF TypeOK, AttemptsTyped
  <2> QED BY <1>1, <2>7, RowStepTypes DEF CacheHit, TypeOK
<1>2. CASE CacheMiss(w)
  <2>1. AttemptsTyped'
        BY <1>2, <1>a, GotoTypes DEF CacheMiss, At
  <2> QED BY <1>2, <2>1, RowStepTypes DEF CacheMiss, TypeOK
<1>3. CASE SendCached(w)
  <2>1. AttemptsTyped'
        BY <1>3, <1>a, GotoTypes DEF SendCached, At
  <2>2. j \in Jobs
        BY <1>3, InHand DEF SendCached, At
  <2>3. sent' \in [Jobs -> Nat]
    <3>1. sent' = [sent EXCEPT ![j] = @ + 1]
          BY <1>3 DEF SendCached
    <3>2. sent \in [Jobs -> Nat]
          BY DEF TypeOK
    <3> QED BY <2>2, <3>1, <3>2, CountedOn
  <2>4. UNCHANGED <<botVars, db, menu, queue, tmp, faults>>
        BY <1>3 DEF SendCached
  <2> QED BY <2>1, <2>3, <2>4, SentStepTypes
<1>4. CASE RecordCached(w)
  <2>1. AttemptsTyped'
        BY <1>4, EndsTypes DEF RecordCached
  <2>2. /\ j \in Jobs
        /\ db[j] # None => [db[j] EXCEPT !.status = "DONE", !.file = attempt[w].file] \in Row
        BY <1>4, InHand, RowDone DEF RecordCached, At
  <2>3. db' \in [Jobs -> Row \cup {None}]
        BY <1>4, <2>2, UpdateTypes DEF RecordCached
  <2> QED BY <1>4, <2>1, <2>3, RowStepTypes DEF RecordCached, TypeOK
<1>5. CASE Fetched(w)
  <2>1. AttemptsTyped'
        BY <1>5, <1>a, GotoTypes DEF Fetched, At
  <2>2. /\ j \in Jobs
        /\ db[j] # None => [db[j] EXCEPT !.status = "RUNNING", !.hash = Key(m)] \in Row
        BY <1>5, InHand, RowKeyed DEF Fetched, At
  <2>3. db' \in [Jobs -> Row \cup {None}]
        BY <1>5, <2>2, UpdateTypes DEF Fetched
  <2> QED BY <1>5, <2>1, <2>3, RowStepTypes DEF Fetched, TypeOK
<1>6. CASE FetchFails(w)
  <2>1. AttemptsTyped'
        BY <1>6, EndsTypes DEF FetchFails
  <2>2. j \in Jobs /\ (db[j] # None => [db[j] EXCEPT !.status = "FAILED"] \in Row)
        BY <1>6, InHand, RowStatus DEF FetchFails, At
  <2>3. db' \in [Jobs -> Row \cup {None}]
        BY <1>6, <2>2, UpdateTypes DEF FetchFails, MarkFailed
  <2> QED BY <1>6, <2>1, <2>3, RowStepTypes DEF FetchFails, TypeOK
<1>7. CASE AskQuality(w)
  <2>1. AttemptsTyped'
        BY <1>7, EndsTypes DEF AskQuality
  <2> QED BY <1>7, <2>1 DEF AskQuality, TypeOK, AttemptsTyped, botVars
<1>7a. CASE SelectFails(w)
  <2>1. AttemptsTyped'
        BY <1>7a, EndsTypes DEF SelectFails
  <2> QED BY <1>7a, <2>1 DEF SelectFails, TypeOK, AttemptsTyped, botVars
<1>8. CASE WarnLarge(w)
  <2>1. AttemptsTyped'
        BY <1>8, EndsTypes DEF WarnLarge
  <2> QED BY <1>8, <2>1 DEF WarnLarge, TypeOK, AttemptsTyped, botVars
<1>9. CASE Chain(w)
  <2>1. AttemptsTyped'
        BY <1>9, EndsTypes DEF Chain
  <2>2. m \in Message
        BY <1>9, InHand DEF Chain, At
  <2>3. [m EXCEPT !.task = "download"] \in Message
        BY <2>2 DEF Message
  <2>4. queue' \in Seq(Message)
        BY <1>9, <2>3 DEF Chain, Chained, TypeOK
  <2> QED BY <1>9, <2>1, <2>4 DEF Chain, TypeOK, AttemptsTyped, botVars
<1> QED BY <1>1, <1>2, <1>3, <1>4, <1>5, <1>6, <1>7, <1>7a, <1>8, <1>9 DEF PreflightStep

LEMMA DownloadTypes ==
  ASSUME TypeOK, NEW w \in Workers, DownloadStep(w)
  PROVE  TypeOK'
<1> DEFINE m == attempt[w].msg
           j == m.job
<1>a. {"idle", "claim", "failing", "cleanup", "download", "downloaded",
       "compressing", "uploaded", "announce"} \subseteq PC
      BY DEF PC, DownloadPC
<1>1. CASE Claim(w)
  <2>1. AttemptsTyped'
        BY <1>1, <1>a, GotoTypes DEF Claim, At
  <2>2. /\ j \in Jobs
        /\ db[j] # None => [db[j] EXCEPT !.status = "RUNNING", !.hb = "fresh"] \in Row
        BY <1>1, InHand, RowRunning DEF Claim, At
  <2>3. db' \in [Jobs -> Row \cup {None}]
        BY <1>1, <2>2, UpdateTypes DEF Claim
  <2> QED BY <1>1, <2>1, <2>3, RowStepTypes DEF Claim, TypeOK
<1>2. CASE Download(w)
  <2>1. AttemptsTyped'
        BY <1>2, <1>a, GotoTypes DEF Download, At
  <2>2. m \in Message /\ j \in Jobs
        BY <1>2, InHand DEF Download, At
  <2>3. [url |-> m.url, q |-> m.q] \in File
        BY <2>2 DEF Message, File
  <2>4. tmp' \in [Jobs -> File \cup {None}]
        BY <1>2, <2>2, <2>3 DEF Download, TypeOK
  <2> QED BY <1>2, <2>1, <2>4 DEF Download, TypeOK, AttemptsTyped, botVars
<1>3. CASE DownloadFails(w)
  <2>1. AttemptsTyped'
        BY <1>3, <1>a, GotoTypes DEF DownloadFails, At
  <2> QED BY <1>3, <2>1, RowStepTypes DEF DownloadFails, TypeOK
<1>4. CASE Compress(w)
  <2>1. AttemptsTyped'
        BY <1>4, <1>a, GotoTypes DEF Compress, At
  <2>2. /\ j \in Jobs
        /\ db[j] # None => [db[j] EXCEPT !.status = "RUNNING", !.hb = "fresh"] \in Row
        BY <1>4, InHand, RowRunning DEF Compress, At
  <2>3. db' \in [Jobs -> Row \cup {None}]
        BY <1>4, <2>2, UpdateTypes DEF Compress
  <2> QED BY <1>4, <2>1, <2>3, RowStepTypes DEF Compress, TypeOK
<1>5. CASE Upload(w)
  <2>1. j \in Jobs /\ m \in Message
        BY <1>5, InHand DEF Upload, At
  <2>2. tmp[j] \in File \cup {None}
        BY <2>1 DEF TypeOK
  <2>3. [attempt[w] EXCEPT !.pc = "uploaded", !.file = tmp[j]] \in Attempt
        BY <1>a, <2>2, AttemptUpdates DEF TypeOK
  <2>4. attempt' = [attempt EXCEPT ![w] =
                      [attempt[w] EXCEPT !.pc = "uploaded", !.file = tmp[j]]]
        BY <1>5 DEF Upload, TypeOK
  <2>5. [attempt[w] EXCEPT !.pc = "uploaded", !.file = tmp[j]].msg \in Message
        BY <2>1 DEF TypeOK, Attempt
  <2>6. AttemptsTyped'
        BY <2>3, <2>4, <2>5 DEF TypeOK, AttemptsTyped
  <2>7. sent' \in [Jobs -> Nat]
    <3>1. sent' = [sent EXCEPT ![j] = @ + 1]
          BY <1>5 DEF Upload
    <3>2. sent \in [Jobs -> Nat]
          BY DEF TypeOK
    <3> QED BY <2>1, <3>1, <3>2, CountedOn
  <2>8. UNCHANGED <<botVars, db, menu, queue, tmp, faults>>
        BY <1>5 DEF Upload
  <2> QED BY <2>6, <2>7, <2>8, SentStepTypes
<1>6. CASE UploadNothing(w)
  <2>1. AttemptsTyped'
        BY <1>6, <1>a, GotoTypes DEF UploadNothing, At
  <2> QED BY <1>6, <2>1, RowStepTypes DEF UploadNothing, TypeOK
<1>7. CASE FileGone(w)
  <2>1. AttemptsTyped'
        BY <1>7, <1>a, GotoTypes DEF FileGone, At
  <2> QED BY <1>7, <2>1, RowStepTypes DEF FileGone, TypeOK
<1>8. CASE RecordDone(w)
  <2>1. AttemptsTyped'
        BY <1>8, <1>a, GotoTypes DEF RecordDone, At
  <2>2. /\ j \in Jobs
        /\ db[j] # None => [db[j] EXCEPT !.status = "DONE", !.file = attempt[w].file] \in Row
        BY <1>8, InHand, RowDone DEF RecordDone, At
  <2>3. db' \in [Jobs -> Row \cup {None}]
        BY <1>8, <2>2, UpdateTypes DEF RecordDone
  <2> QED BY <1>8, <2>1, <2>3, RowStepTypes DEF RecordDone, TypeOK
<1>9. CASE Announce(w)
  <2>1. AttemptsTyped'
        BY <1>9, <1>a, GotoTypes DEF Announce, At
  <2> QED BY <1>9, <2>1, RowStepTypes DEF Announce, TypeOK
<1>10. CASE RecordFailed(w)
  <2>1. AttemptsTyped'
        BY <1>10, <1>a, GotoTypes DEF RecordFailed, At
  <2>2. j \in Jobs /\ (db[j] # None => [db[j] EXCEPT !.status = "FAILED"] \in Row)
        BY <1>10, InHand, RowStatus DEF RecordFailed, At
  <2>3. db' \in [Jobs -> Row \cup {None}]
        BY <1>10, <2>2, UpdateTypes DEF RecordFailed, MarkFailed
  <2> QED BY <1>10, <2>1, <2>3, RowStepTypes DEF RecordFailed, TypeOK
<1>11. CASE Cleanup(w)
  <2>1. AttemptsTyped'
        BY <1>11, EndsTypes DEF Cleanup
  <2> QED BY <1>11, <2>1 DEF Cleanup, TypeOK, AttemptsTyped, botVars
<1> QED BY <1>1, <1>2, <1>3, <1>4, <1>5, <1>6, <1>7, <1>8, <1>9, <1>10, <1>11
        DEF DownloadStep

LEMMA WorkerFaultTypes ==
  ASSUME TypeOK, NEW w \in Workers, WorkerFault(w)
  PROVE  TypeOK'
<1>a. {"idle", "failing", "cleanup"} \subseteq PC
      BY DEF PC
<1>b. "idle" \notin PreflightPC \cup DownloadPC \cup {"claim", "failing"}
      BY DEF PreflightPC, DownloadPC
<1>c. faults' \in Nat
      BY DEF WorkerFault, Raises, TimesOut, WorkerCrash, Fault, TypeOK
<1>1. CASE Raises(w)
  <2>1. AttemptsTyped'
        BY <1>1, <1>a, <1>b, GotoTypes, EndsTypes DEF Raises, At
  <2> QED BY <1>1, <1>c, <2>1, RowStepTypes DEF Raises, TypeOK
<1>2. CASE TimesOut(w)
  <2>1. AttemptsTyped'
        BY <1>2, <1>a, <1>b, GotoTypes, EndsTypes DEF TimesOut, At
  <2> QED BY <1>2, <1>c, <2>1, RowStepTypes DEF TimesOut, TypeOK
<1>3. CASE WorkerCrash(w)
  <2>1. AttemptsTyped'
        BY <1>3, EndsTypes DEF WorkerCrash
  <2> QED BY <1>3, <1>c, <2>1, RowStepTypes DEF WorkerCrash, TypeOK
<1> QED BY <1>1, <1>2, <1>3 DEF WorkerFault

(* Every variable keeps its type, for every number of users, jobs, workers  *)
(* and faults.                                                              *)
THEOREM TypeCorrect == Spec => []TypeOK
<1>1. TypeOK /\ [Next]_vars => TypeOK'
  <2> SUFFICES ASSUME TypeOK, [Next]_vars
               PROVE  TypeOK'
      OBVIOUS
  <2>1. CASE Next
    <3>1. ASSUME NEW w \in Workers, WorkerStep(w) \/ WorkerFault(w)
          PROVE  TypeOK'
          BY <3>1, ReceiveTypes, PreflightTypes, DownloadTypes, WorkerFaultTypes
             DEF WorkerStep
    <3> QED BY <2>1, <3>1, HandlerTypes, IntakeTypes, MenuTypes, SweepTypes,
               ClockTypes, RestartTypes DEF Next
  <2>2. CASE UNCHANGED vars
        BY <2>2 DEF TypeOK, vars, botVars, workerVars
  <2> QED BY <2>1, <2>2
<1> QED BY <1>1, InitTypes, PTL DEF Spec

-----------------------------------------------------------------------------
(* What a step can do to a row, and the properties that follow from it.     *)
(* A row that stays: its URL, owner and format are fixed, its retries only  *)
(* grow, it is never PENDING again, and only an active job is cancelled.    *)
Rewritten(old, new) ==
  /\ new.url = old.url
  /\ new.fmt = old.fmt
  /\ new.owner = old.owner
  /\ new.retries >= old.retries
  /\ new.status = "PENDING" => old.status = "PENDING"
  /\ new.status = "CANCELLED" => old.status \in Active \cup {"CANCELLED"}

(* The one way to another format: a button of the menu was pressed.         *)
Picked(j) ==
  \E q \in Qualities : <<j, q>> \in picks /\ db'[j] = [db[j] EXCEPT !.fmt = q]

RowEffect(j) ==
  \/ db'[j] = db[j]
  \/ db'[j] = None
  \/ j = created + 1 /\ created' = j /\ db'[j].status = "PENDING"
  \/ draft[j] # None /\ db'[j] = draft[j] /\ draft'[j] = None
  \/ db[j] # None /\ (Rewritten(db[j], db'[j]) \/ Picked(j))

(* In both cases:                                                           *)
LEMMA RewrittenOrPicked ==
  ASSUME TypeOK, NEW j \in Jobs, db[j] # None,
         Rewritten(db[j], db'[j]) \/ Picked(j)
  PROVE  /\ db'[j].url = db[j].url
         /\ db'[j].retries >= db[j].retries
         /\ db'[j].status = "PENDING" => db[j].status = "PENDING"
         /\ db'[j].status = "CANCELLED" => db[j].status \in Active \cup {"CANCELLED"}
         /\ db'[j].fmt = db[j].fmt \/ \E q \in Qualities : <<j, q>> \in picks
<1>1. db[j] \in Row
      BY DEF TypeOK
<1>2. CASE Rewritten(db[j], db'[j])
      BY <1>2 DEF Rewritten
<1>3. CASE Picked(j)
  <2>1. PICK q \in Qualities : <<j, q>> \in picks /\ db'[j] = [db[j] EXCEPT !.fmt = q]
        BY <1>3 DEF Picked
  <2>2. /\ db'[j].url = db[j].url
        /\ db'[j].retries = db[j].retries /\ db[j].retries \in Nat
        /\ db'[j].status = db[j].status
        /\ db[j].status \in Statuses
        BY <1>1, <2>1 DEF Row
  <2>3. db[j].status = "CANCELLED" => db[j].status \in Active \cup {"CANCELLED"}
        OBVIOUS
  <2> QED BY <2>1, <2>2, <2>3
<1> QED BY <1>2, <1>3

LEMMA UpdateEffect ==
  ASSUME TypeOK, NEW j \in Jobs, NEW row, UpdateRow(j, row),
         db[j] # None => Rewritten(db[j], row)
  PROVE  \A k \in Jobs : RowEffect(k)
  BY DEF TypeOK, UpdateRow, RowEffect

LEMMA NoRowEffect ==
  ASSUME UNCHANGED db
  PROVE  \A j \in Jobs : RowEffect(j)
  BY DEF RowEffect

LEMMA UserEffect ==
  ASSUME TypeOK, NEW u \in Users, UserStep(u)
  PROVE  \A j \in Jobs : RowEffect(j)
<1>1. CASE \E url \in Urls, q \in Qualities : Submit(u, url, q)
      BY <1>1 DEF Submit, NewRow, RowEffect, TypeOK
<1>2. CASE \E url \in Urls, q \in Qualities : RedditQueue(u, url, q)
      BY <1>2, NoRowEffect DEF RedditQueue
<1>3. CASE RedditCommit(u)
      BY <1>3 DEF RedditCommit, Drafts, RowEffect
<1>4. CASE RedditRollback(u) \/ CancelRead(u) \/ CancelFails(u)
      BY <1>4, NoRowEffect DEF RedditRollback, CancelRead, CancelFails
<1>5. CASE CancelCommit(u)
  <2> DEFINE k == cancelling[u]
  <2>1. k \in Jobs
        BY <1>5 DEF CancelCommit, TypeOK
  <2>2. CASE IsActive(k)
    <3>1. db[k] \in Row /\ db[k] # None
          BY <2>1, <2>2 DEF TypeOK, IsActive
    <3>2. Rewritten(db[k], [db[k] EXCEPT !.status = "CANCELLED"])
          BY <3>1, <2>2 DEF Rewritten, IsActive, Row
    <3>3. db' = [db EXCEPT ![k] = [db[k] EXCEPT !.status = "CANCELLED"]]
          BY <1>5, <2>2 DEF CancelCommit, CancelRow
    <3> QED BY <2>1, <3>1, <3>2, <3>3 DEF RowEffect, TypeOK
  <2>3. CASE ~IsActive(k)
        BY <1>5, <2>3, NoRowEffect DEF CancelCommit, CancelRow
  <2> QED BY <2>2, <2>3
<1>6. CASE ClearHistory(u)
      BY <1>6 DEF ClearHistory, RowEffect
<1> QED BY <1>1, <1>2, <1>3, <1>4, <1>5, <1>6 DEF UserStep

LEMMA BotEffect ==
  ASSUME TypeOK,
         \/ IntakeStep
         \/ MenuStep
         \/ SweepStep
         \/ \E j \in Jobs : HeartbeatAges(j)
         \/ BotRestart
  PROVE  \A j \in Jobs : RowEffect(j)
<1>1. CASE IntakeStep \/ BotRestart
      BY <1>1, NoRowEffect DEF IntakeStep, Enqueue, EnqueueFails, BotRestart
<1>2. ASSUME NEW j \in Jobs, NEW q \in Qualities, <<j, q>> \in picks,
             QualityPick(j, q) \/ QualityPickFails(j, q) \/ PickSwallowed(j, q)
      PROVE  \A k \in Jobs : RowEffect(k)
  <2>1. \/ db' = db
        \/ db[j] # None /\ db' = [db EXCEPT ![j] = [db[j] EXCEPT !.fmt = q]]
        BY <1>2 DEF QualityPick, QualityPickFails, PickSwallowed
  <2>2. CASE db[j] # None /\ db' = [db EXCEPT ![j] = [db[j] EXCEPT !.fmt = q]]
        BY <1>2, <2>2 DEF RowEffect, Picked, TypeOK
  <2> QED BY <2>1, <2>2, NoRowEffect
<1>3. CASE MenuStep
  <2>0. \A p \in Jobs \X Qualities :
          p[1] \in Jobs /\ p[2] \in Qualities /\ p = <<p[1], p[2]>>
        OBVIOUS
  <2>1. \A p \in picks : p[1] \in Jobs /\ p[2] \in Qualities /\ <<p[1], p[2]>> \in picks
        BY <2>0 DEF TypeOK
  <2>2. CASE \E j \in Jobs, q \in Qualities \ {Best} : Click(j, q)
        BY <2>2, NoRowEffect DEF Click
  <2> QED BY <1>2, <1>3, <2>1, <2>2 DEF MenuStep
<1>4. CASE SweepStep
  <2>1. CASE RecoverCommit
    <3>1. ASSUME NEW j \in Jobs, j \in sweep.dirty \ SweepLost
          PROVE  db[j] # None /\ Rewritten(db[j], Recovered(j))
      <4>1. db[j] # None /\ db[j] \in Row
            BY <3>1 DEF SweepLost, TypeOK
      <4> QED BY <4>1 DEF Recovered, Rewritten, Row
    <3>2. \A j \in Jobs : db'[j] = IF j \in sweep.dirty \ SweepLost
                                    THEN Recovered(j) ELSE db[j]
          BY <2>1 DEF RecoverCommit
    <3> QED BY <3>1, <3>2 DEF RowEffect
  <2>2. CASE ~RecoverCommit
        BY <1>4, <2>2, NoRowEffect
           DEF SweepStep, RecoverBegin, RecoverLost, RecoverAbort, RecoverJob
  <2> QED BY <2>1, <2>2
<1>5. ASSUME NEW j \in Jobs, HeartbeatAges(j)
      PROVE  \A k \in Jobs : RowEffect(k)
  <2>1. db[j] # None /\ db[j] \in Row
        BY <1>5 DEF HeartbeatAges, TypeOK
  <2>2. Rewritten(db[j], [db[j] EXCEPT !.hb = "stale"])
        BY <2>1 DEF Rewritten, Row
  <2>3. db' = [db EXCEPT ![j] = [db[j] EXCEPT !.hb = "stale"]]
        BY <1>5 DEF HeartbeatAges
  <2> QED BY <2>1, <2>2, <2>3 DEF RowEffect, TypeOK
<1> QED BY <1>1, <1>3, <1>4, <1>5

LEMMA WorkerEffect ==
  ASSUME TypeOK, NEW w \in Workers, WorkerStep(w) \/ WorkerFault(w)
  PROVE  \A j \in Jobs : RowEffect(j)
<1> DEFINE m == attempt[w].msg
           j == m.job
<1>1. CASE Receive(w) \/ CacheHit(w) \/ CacheMiss(w) \/ SendCached(w)
           \/ AskQuality(w) \/ SelectFails(w) \/ WarnLarge(w) \/ Chain(w)
      BY <1>1, NoRowEffect DEF Receive, CacheHit, CacheMiss, SendCached,
                               AskQuality, SelectFails, WarnLarge, Chain
<1>2. CASE Download(w) \/ DownloadFails(w) \/ Upload(w) \/ UploadNothing(w)
           \/ FileGone(w) \/ Announce(w) \/ Cleanup(w)
      BY <1>2, NoRowEffect DEF Download, DownloadFails, Upload, UploadNothing,
                               FileGone, Announce, Cleanup
<1>3. CASE WorkerFault(w)
      BY <1>3, NoRowEffect DEF WorkerFault, Raises, TimesOut, WorkerCrash
<1>4. CASE RecordCached(w) \/ RecordDone(w)
  <2>1. j \in Jobs /\ (db[j] # None => db[j] \in Row) /\ attempt[w].file \in File \cup {None}
        BY <1>4, InHand DEF RecordCached, RecordDone, At
  <2>2. db[j] # None =>
          Rewritten(db[j], [db[j] EXCEPT !.status = "DONE", !.file = attempt[w].file])
        BY <2>1 DEF Rewritten, Row
  <2> QED BY <1>4, <2>1, <2>2, UpdateEffect DEF RecordCached, RecordDone
<1>5. CASE Fetched(w)
  <2>1. j \in Jobs /\ (db[j] # None => db[j] \in Row)
        BY <1>5, InHand DEF Fetched, At
  <2>2. db[j] # None =>
          Rewritten(db[j], [db[j] EXCEPT !.status = "RUNNING", !.hash = Key(m)])
        BY <2>1 DEF Rewritten, Row
  <2> QED BY <1>5, <2>1, <2>2, UpdateEffect DEF Fetched
<1>6. CASE FetchFails(w) \/ RecordFailed(w)
  <2>1. j \in Jobs /\ (db[j] # None => db[j] \in Row)
        BY <1>6, InHand DEF FetchFails, RecordFailed, At
  <2>2. db[j] # None => Rewritten(db[j], [db[j] EXCEPT !.status = "FAILED"])
        BY <2>1 DEF Rewritten, Row
  <2> QED BY <1>6, <2>1, <2>2, UpdateEffect DEF FetchFails, RecordFailed, MarkFailed
<1>7. CASE Claim(w) \/ Compress(w)
  <2>1. j \in Jobs /\ (db[j] # None => db[j] \in Row)
        BY <1>7, InHand DEF Claim, Compress, At
  <2>2. db[j] # None =>
          Rewritten(db[j], [db[j] EXCEPT !.status = "RUNNING", !.hb = "fresh"])
        BY <2>1 DEF Rewritten, Row
  <2> QED BY <1>7, <2>1, <2>2, UpdateEffect DEF Claim, Compress
<1> QED BY <1>1, <1>2, <1>3, <1>4, <1>5, <1>6, <1>7
        DEF WorkerStep, PreflightStep, DownloadStep

LEMMA RowEffects ==
  ASSUME TypeOK, [Next]_vars
  PROVE  \A j \in Jobs : RowEffect(j)
<1>1. CASE Next
      BY <1>1, UserEffect, BotEffect, WorkerEffect DEF Next
<1>2. CASE UNCHANGED vars
      BY <1>2, NoRowEffect DEF vars
<1> QED BY <1>1, <1>2

-----------------------------------------------------------------------------
(* Drafts: a row is a draft or committed, never both; a draft is as it was  *)
(* created; numbers not handed out have neither.                            *)
DraftInv ==
  \A j \in Jobs :
    /\ draft[j] # None => db[j] = None /\ draft[j].status = "PENDING" /\ j <= created
    /\ db[j] # None => j <= created

(* The workers touch nothing of the bot process.                            *)
LEMMA WorkersKeepBot ==
  ASSUME NEW w \in Workers, WorkerStep(w) \/ WorkerFault(w)
  PROVE  UNCHANGED botVars
<1>1. CASE Receive(w) \/ PreflightStep(w)
      BY <1>1 DEF Receive, PreflightStep, CacheHit, CacheMiss, SendCached,
           RecordCached, Fetched, FetchFails, AskQuality, SelectFails, WarnLarge, Chain
<1>2. CASE DownloadStep(w)
      BY <1>2 DEF DownloadStep, Claim, Download, DownloadFails, Compress,
           Upload, UploadNothing, FileGone, RecordDone, Announce,
           RecordFailed, Cleanup
<1>3. CASE WorkerFault(w)
      BY <1>3 DEF WorkerFault, Raises, TimesOut, WorkerCrash
<1> QED BY <1>1, <1>2, <1>3 DEF WorkerStep

LEMMA DraftInvInit == Init => DraftInv
  BY DEF Init, DraftInv

LEMMA DraftInvStep ==
  ASSUME TypeOK, DraftInv, [Next]_vars
  PROVE  DraftInv'
<1>1. \A j \in Jobs : RowEffect(j)
      BY RowEffects
<1>2. CASE UNCHANGED <<created, draft>>
      BY <1>1, <1>2 DEF DraftInv, RowEffect, TypeOK, Jobs
<1>3. ASSUME NEW u \in Users, NEW url \in Urls, NEW q \in Qualities, Submit(u, url, q)
      PROVE  DraftInv'
  <2>1. created \in Nat /\ created' = created + 1 /\ created' \in Jobs
        BY <1>3 DEF Submit, TypeOK, Jobs
  <2>2. draft' = draft /\ \A j \in Jobs : j # created' => db'[j] = db[j]
        BY <1>3 DEF Submit, TypeOK
  <2>3. SUFFICES ASSUME NEW j \in Jobs
                 PROVE  /\ draft'[j] # None => /\ db'[j] = None
                                              /\ draft'[j].status = "PENDING"
                                              /\ j <= created'
                        /\ db'[j] # None => j <= created'
        BY DEF DraftInv
  <2>4. j \in Nat
        BY DEF Jobs
  <2>5. CASE j = created'
        BY <2>1, <2>2, <2>5 DEF DraftInv
  <2>6. CASE j # created'
        BY <2>1, <2>2, <2>4, <2>6 DEF DraftInv
  <2> QED BY <2>5, <2>6
<1>4. ASSUME NEW u \in Users, NEW url \in Urls, NEW q \in Qualities, RedditQueue(u, url, q)
      PROVE  DraftInv'
      BY <1>4 DEF RedditQueue, NewRow, DraftInv, TypeOK, Jobs
<1>5. ASSUME NEW u \in Users, RedditCommit(u) \/ RedditRollback(u)
      PROVE  DraftInv'
      BY <1>5 DEF RedditCommit, RedditRollback, Drafts, DraftInv
<1>6. CASE BotRestart
      BY <1>6 DEF BotRestart, DraftInv
<1>7. ASSUME NEW u \in Users, CancelRead(u) \/ CancelFails(u) \/ CancelCommit(u) \/ ClearHistory(u)
      PROVE  UNCHANGED <<created, draft>>
      BY <1>7 DEF CancelRead, CancelFails, CancelCommit, ClearHistory
<1>8. ASSUME NEW w \in Workers, WorkerStep(w) \/ WorkerFault(w)
      PROVE  UNCHANGED botVars
      BY <1>8, WorkersKeepBot
<1>9. CASE IntakeStep \/ MenuStep \/ SweepStep \/ \E j \in Jobs : HeartbeatAges(j)
      BY <1>2, <1>9 DEF IntakeStep, Enqueue, EnqueueFails, MenuStep, Click,
           QualityPick, QualityPickFails, PickSwallowed,
           SweepStep, RecoverBegin, RecoverCommit,
           RecoverLost, RecoverAbort, RecoverJob, HeartbeatAges, botVars
<1>10. CASE UNCHANGED vars
      BY <1>2, <1>10 DEF vars
<1> QED BY <1>2, <1>3, <1>4, <1>5, <1>6, <1>7, <1>8, <1>9, <1>10
        DEF Next, UserStep, botVars

LEMMA DraftInvariant == Spec => [](TypeOK /\ DraftInv)
<1>1. TypeOK /\ DraftInv /\ TypeOK' /\ [Next]_vars => DraftInv'
      BY DraftInvStep
<1> QED BY <1>1, TypeCorrect, DraftInvInit, PTL DEF Spec

(* A step cancels only a job that is PENDING or RUNNING at that step, for   *)
(* every interleaving of /cancel with the workers and the sweep.            *)
THEOREM CancelIsGuarded == Spec => CancelsOnlyActive
<1> DEFINE A == \A j \in Jobs :
       db'[j] # None /\ db'[j].status = "CANCELLED" =>
         db[j] # None /\ (db[j].status \in Active \/ db[j].status = "CANCELLED")
<1>1. TypeOK /\ DraftInv /\ [Next]_vars => A
  <2> SUFFICES ASSUME TypeOK, DraftInv, [Next]_vars, NEW j \in Jobs,
                      db'[j] # None, db'[j].status = "CANCELLED"
               PROVE  db[j] # None /\ (db[j].status \in Active \/ db[j].status = "CANCELLED")
      OBVIOUS
  <2>1. RowEffect(j)
        BY RowEffects
  <2> QED BY <2>1, RewrittenOrPicked DEF RowEffect, DraftInv
<1>2. TypeOK /\ DraftInv /\ [Next]_vars => [A]_vars
      BY <1>1
<1> HIDE DEF A
<1>3. Spec => [][A]_vars
      BY <1>2, DraftInvariant, PTL DEF Spec
<1> QED BY <1>3 DEF CancelsOnlyActive, A

(* No deleted, rolled-back or never-created row appears, and none becomes   *)
(* PENDING again, whatever stale tasks the workers still run.               *)
THEOREM RowsAreNotReborn == Spec => NoRebirth
<1> DEFINE A == \A j \in Jobs :
       /\ db[j] = None /\ db'[j] # None => j > created \/ draft[j] # None
       /\ db[j] # None /\ db'[j] # None /\ db'[j].status = "PENDING" =>
            db[j].status = "PENDING"
<1>1. TypeOK /\ DraftInv /\ [Next]_vars => A
  <2> SUFFICES ASSUME TypeOK, DraftInv, [Next]_vars, NEW j \in Jobs
               PROVE  /\ db[j] = None /\ db'[j] # None => j > created \/ draft[j] # None
                      /\ db[j] # None /\ db'[j] # None /\ db'[j].status = "PENDING" =>
                           db[j].status = "PENDING"
      OBVIOUS
  <2>1. RowEffect(j) /\ created \in Nat
        BY RowEffects DEF TypeOK
  <2> QED BY <2>1, RewrittenOrPicked DEF RowEffect, DraftInv
<1>2. TypeOK /\ DraftInv /\ [Next]_vars => [A]_vars
      BY <1>1
<1> HIDE DEF A
<1>3. Spec => [][A]_vars
      BY <1>2, DraftInvariant, PTL DEF Spec
<1> QED BY <1>3 DEF NoRebirth, A
=============================================================================
