--------------------------- MODULE JobCacheProofs ---------------------------
(* What is stored with a job shows the job's own URL and, outside YouTube,  *)
(* has the job's own quality.                                               *)
EXTENDS JobPipelineProofs

USE ConstantAssumption

(* What j's row, committed or draft, says of its media is q of url; the     *)
(* quality of a YouTube row may change.  True for ever once there is a row, *)
(* since a row that goes does not come back.                                *)
Fits(j, url, q) ==
  /\ j <= created
  /\ \A row \in {db[j], draft[j]} \ {None} :
       row.url = url /\ (url \notin YouTube => row.fmt = q)

\* Only YouTube's rows have a menu.
MayAsk(j) ==
  /\ j <= created
  /\ \A row \in {db[j], draft[j]} \ {None} : row.url \in YouTube

RowIsHonest(row) ==
  /\ row.file # None =>
       row.file.url = row.url /\ (row.url \notin YouTube => row.file.q = row.fmt)
  /\ row.hash # None =>
       row.hash[1] = row.url /\ (row.url \notin YouTube => row.hash[2] = row.fmt)

RowsFit    == \A j \in Jobs : db[j] # None => RowIsHonest(db[j])
DraftsFit  == \A j \in Jobs : draft[j] # None => RowIsHonest(draft[j])
IntakeFits == \A m \in intake : Fits(m.job, m.url, m.q)
MenusFit   == /\ \A j \in Jobs : menu[j] = "quality" => MayAsk(j)
              /\ \A j \in Jobs, q \in Qualities : <<j, q>> \in picks => MayAsk(j)
SweepFits  == \A j \in Jobs : sweep.rows[j] # None =>
                Fits(j, sweep.rows[j].url, sweep.rows[j].fmt)
QueueFits  == \A i \in DOMAIN queue : Fits(queue[i].job, queue[i].url, queue[i].q)
TmpFits    == \A j \in Jobs : tmp[j] # None => Fits(j, tmp[j].url, tmp[j].q)

HandFits(w) ==
  LET m == attempt[w].msg
      f == attempt[w].file
  IN  attempt[w].pc # "idle" =>
        Fits(m.job, m.url, m.q) /\ (f # None => Fits(m.job, f.url, f.q))
HandsFit == \A w \in Workers : HandFits(w)

(* Everything that travels with a job's number fits the job's row.          *)
MediaInv ==
  /\ RowsFit /\ DraftsFit
  /\ IntakeFits /\ MenusFit /\ SweepFits /\ QueueFits /\ TmpFits /\ HandsFit

-----------------------------------------------------------------------------
(* A row keeps what fits it.                                                *)
LEMMA DraftsStay ==
  ASSUME TypeOK, [Next]_vars
  PROVE  /\ created' \in Nat /\ created' >= created
         /\ \A j \in Jobs : j <= created => draft'[j] \in {draft[j], None}
<1> DEFINE Goal == /\ created' \in Nat /\ created' >= created
                   /\ \A j \in Jobs : j <= created => draft'[j] \in {draft[j], None}
<1>1. created \in Nat
      BY DEF TypeOK
<1>2. CASE UNCHANGED <<created, draft>>
      BY <1>1, <1>2
<1>3. ASSUME NEW u \in Users, NEW url \in Urls, NEW q \in Qualities, Submit(u, url, q)
      PROVE  Goal
      BY <1>1, <1>3 DEF Submit
<1>4. ASSUME NEW u \in Users, NEW url \in Urls, NEW q \in Qualities, RedditQueue(u, url, q)
      PROVE  Goal
  <2>1. draft \in [Jobs -> Row \cup {None}]
        BY DEF TypeOK
  <2>2. draft' = [draft EXCEPT ![created + 1] = NewRow(u, url, q)] /\ created' = created + 1
        BY <1>4 DEF RedditQueue
  <2> QED BY <1>1, <2>1, <2>2 DEF Jobs
<1>5. ASSUME NEW u \in Users, RedditCommit(u) \/ RedditRollback(u)
      PROVE  Goal
      BY <1>1, <1>5 DEF RedditCommit, RedditRollback
<1>6. CASE BotRestart
      BY <1>1, <1>6 DEF BotRestart
<1>7. ASSUME NEW u \in Users, CancelRead(u) \/ CancelFails(u) \/ CancelCommit(u) \/ ClearHistory(u)
      PROVE  UNCHANGED <<created, draft>>
      BY <1>7 DEF CancelRead, CancelFails, CancelCommit, ClearHistory
<1>8. ASSUME NEW w \in Workers, WorkerStep(w) \/ WorkerFault(w)
      PROVE  UNCHANGED <<created, draft>>
      BY <1>8, WorkersKeepBot DEF botVars
<1>9. ASSUME IntakeStep \/ MenuStep \/ SweepStep \/ \E j \in Jobs : HeartbeatAges(j)
      PROVE  UNCHANGED <<created, draft>>
      BY <1>9 DEF IntakeStep, Enqueue, EnqueueFails, MenuStep, Click,
           QualityPick, QualityPickFails, PickSwallowed,
           SweepStep, RecoverBegin, RecoverCommit,
           RecoverLost, RecoverAbort, RecoverJob, HeartbeatAges, botVars
<1>10. CASE UNCHANGED vars
      BY <1>2, <1>10 DEF vars
<1> QED BY <1>2, <1>3, <1>4, <1>5, <1>6, <1>7, <1>8, <1>9, <1>10 DEF Next, UserStep

LEMMA FitsStays ==
  ASSUME TypeOK, DraftInv, MenusFit, [Next]_vars,
         NEW j \in Jobs, NEW url, NEW q, Fits(j, url, q)
  PROVE  Fits(j, url, q)'
<1>1. /\ created \in Nat /\ created' \in Nat /\ created' >= created
      /\ draft'[j] \in {draft[j], None}
      /\ RowEffect(j)
      /\ j <= created /\ j <= created' /\ j \in Nat
  <2>1. created \in Nat /\ j \in Nat /\ j <= created
        BY DEF TypeOK, Fits, Jobs
  <2> QED BY <2>1, RowEffects, DraftsStay
<1>2. ASSUME draft'[j] # None
      PROVE  draft'[j].url = url /\ (url \notin YouTube => draft'[j].fmt = q)
      BY <1>1, <1>2 DEF Fits
<1>3. ASSUME db'[j] # None
      PROVE  db'[j].url = url /\ (url \notin YouTube => db'[j].fmt = q)
  <2>1. CASE db'[j] = db[j] \/ db'[j] = draft[j]
        BY <1>3, <2>1 DEF Fits
  <2>2. CASE db[j] # None /\ (Rewritten(db[j], db'[j]) \/ Picked(j))
    <3>1. /\ db[j].url = url /\ (url \notin YouTube => db[j].fmt = q)
          /\ db'[j].url = db[j].url
          /\ db'[j].fmt = db[j].fmt \/ \E p \in Qualities : <<j, p>> \in picks
          BY <2>2, RewrittenOrPicked DEF Fits
    <3>2. (\E p \in Qualities : <<j, p>> \in picks) => db[j].url \in YouTube
          BY <2>2 DEF MenusFit, MayAsk
    <3> QED BY <3>1, <3>2
  <2> QED BY <1>1, <1>3, <2>1, <2>2 DEF RowEffect
<1> QED BY <1>1, <1>2, <1>3 DEF Fits

LEMMA MayAskStays ==
  ASSUME TypeOK, DraftInv, MenusFit, [Next]_vars, NEW j \in Jobs, MayAsk(j)
  PROVE  MayAsk(j)'
<1>1. /\ created \in Nat /\ created' \in Nat /\ created' >= created
      /\ draft'[j] \in {draft[j], None}
      /\ RowEffect(j)
      /\ j <= created /\ j <= created' /\ j \in Nat
  <2>1. created \in Nat /\ j \in Nat /\ j <= created
        BY DEF TypeOK, MayAsk, Jobs
  <2> QED BY <2>1, RowEffects, DraftsStay
<1>2. ASSUME db'[j] # None
      PROVE  db'[j].url \in YouTube
  <2>1. CASE db'[j] = db[j] \/ db'[j] = draft[j]
        BY <1>2, <2>1 DEF MayAsk
  <2>2. CASE db[j] # None /\ (Rewritten(db[j], db'[j]) \/ Picked(j))
        BY <2>2, RewrittenOrPicked DEF MayAsk
  <2> QED BY <1>1, <1>2, <2>1, <2>2 DEF RowEffect
<1> QED BY <1>1, <1>2 DEF MayAsk

-----------------------------------------------------------------------------
(* The rows.                                                                *)
LEMMA KeptRowHonest ==
  ASSUME NEW old \in Row, NEW new, RowIsHonest(old),
         new.url = old.url, new.fmt = old.fmt,
         new.file = old.file, new.hash = old.hash
  PROVE  RowIsHonest(new)
  BY DEF RowIsHonest

\* What the updates of a status or a heartbeat do.
LEMMA StatusRowHonest ==
  ASSUME NEW old \in Row, RowIsHonest(old), NEW s, NEW h
  PROVE  /\ RowIsHonest([old EXCEPT !.status = s])
         /\ RowIsHonest([old EXCEPT !.hb = h])
         /\ RowIsHonest([old EXCEPT !.status = s, !.hb = h])
<1>1. RowIsHonest([old EXCEPT !.status = s])
      BY KeptRowHonest DEF Row
<1>2. RowIsHonest([old EXCEPT !.hb = h])
      BY KeptRowHonest DEF Row
<1>3. RowIsHonest([old EXCEPT !.status = s, !.hb = h])
  <2> DEFINE new == [old EXCEPT !.status = s, !.hb = h]
  <2>1. /\ new.url = old.url /\ new.fmt = old.fmt
        /\ new.file = old.file /\ new.hash = old.hash
        BY DEF Row
  <2> QED BY <2>1, KeptRowHonest
<1> QED BY <1>1, <1>2, <1>3

LEMMA UpdateFits ==
  ASSUME TypeOK, RowsFit, NEW j \in Jobs, NEW row, UpdateRow(j, row),
         db[j] # None => RowIsHonest(row)
  PROVE  RowsFit'
  BY DEF TypeOK, UpdateRow, RowsFit

LEMMA UserRowsFit ==
  ASSUME TypeOK, RowsFit, DraftsFit, NEW u \in Users, UserStep(u)
  PROVE  RowsFit'
<1>1. ASSUME NEW url \in Urls, NEW q \in Qualities, Submit(u, url, q)
      PROVE  RowsFit'
  <2>1. \A p \in Qualities : RowIsHonest(NewRow(u, url, p))
        BY DEF RowIsHonest, NewRow
  <2>2. PICK p \in Qualities : db' = [db EXCEPT ![created + 1] = NewRow(u, url, p)]
        BY <1>1 DEF Submit, ConstantAssumption
  <2> QED BY <2>1, <2>2 DEF RowsFit, TypeOK
<1>2. CASE RedditCommit(u)
      BY <1>2 DEF RedditCommit, Drafts, RowsFit, DraftsFit
<1>3. CASE CancelCommit(u)
  <2> DEFINE j == cancelling[u]
  <2>1. j \in Jobs
        BY <1>3 DEF CancelCommit, TypeOK
  <2>2. CASE IsActive(j)
    <3>1. db[j] \in Row /\ db[j] # None
          BY <2>1, <2>2 DEF IsActive, TypeOK
    <3>2. RowIsHonest([db[j] EXCEPT !.status = "CANCELLED"])
          BY <2>1, <3>1, StatusRowHonest DEF RowsFit
    <3>3. db' = [db EXCEPT ![j] = [db[j] EXCEPT !.status = "CANCELLED"]]
          BY <1>3, <2>2 DEF CancelCommit, CancelRow
    <3> QED BY <3>2, <3>3 DEF RowsFit, TypeOK
  <2>3. CASE ~IsActive(j)
        BY <1>3, <2>3 DEF CancelCommit, CancelRow, RowsFit
  <2> QED BY <2>2, <2>3
<1>4. CASE ClearHistory(u)
      BY <1>4 DEF ClearHistory, RowsFit
<1>5. CASE \/ \E url \in Urls, q \in Qualities : RedditQueue(u, url, q)
           \/ RedditRollback(u)
           \/ CancelRead(u) \/ CancelFails(u)
      BY <1>5 DEF RedditQueue, RedditRollback, CancelRead, CancelFails, RowsFit
<1> QED BY <1>1, <1>2, <1>3, <1>4, <1>5 DEF UserStep

LEMMA BotRowsFit ==
  ASSUME TypeOK, RowsFit, MenusFit,
         \/ IntakeStep \/ MenuStep \/ SweepStep
         \/ \E j \in Jobs : HeartbeatAges(j)
         \/ BotRestart
  PROVE  RowsFit'
<1>1. CASE IntakeStep \/ BotRestart
      BY <1>1 DEF IntakeStep, Enqueue, EnqueueFails, BotRestart, RowsFit
<1>2. ASSUME NEW j \in Jobs, NEW q \in Qualities, <<j, q>> \in picks,
             QualityPick(j, q), db[j] # None
      PROVE  RowsFit'
  <2>1. db[j] \in Row /\ db[j].url \in YouTube
        BY <1>2 DEF TypeOK, MenusFit, MayAsk
  <2>2. RowIsHonest([db[j] EXCEPT !.fmt = q])
        BY <1>2, <2>1 DEF RowsFit, RowIsHonest, Row
  <2>3. db' = [db EXCEPT ![j] = [db[j] EXCEPT !.fmt = q]]
        BY <1>2 DEF QualityPick
  <2> QED BY <2>2, <2>3 DEF RowsFit, TypeOK
<1>3. CASE MenuStep
  <2>1. \A p \in Jobs \X Qualities :
          p[1] \in Jobs /\ p[2] \in Qualities /\ p = <<p[1], p[2]>>
        OBVIOUS
  <2>2. ASSUME NEW p \in picks,
               QualityPick(p[1], p[2]) \/ QualityPickFails(p[1], p[2])
               \/ PickSwallowed(p[1], p[2])
        PROVE  RowsFit'
    <3>1. p[1] \in Jobs /\ p[2] \in Qualities /\ <<p[1], p[2]>> \in picks
          BY <2>1 DEF TypeOK
    <3>2. CASE UNCHANGED db
          BY <3>2 DEF RowsFit
    <3> QED BY <1>2, <2>2, <3>1, <3>2 DEF QualityPick, QualityPickFails, PickSwallowed
  <2>3. CASE \E j \in Jobs, q \in Qualities \ {Best} : Click(j, q)
        BY <2>3 DEF Click, RowsFit
  <2> QED BY <1>3, <2>2, <2>3 DEF MenuStep
<1>4. CASE SweepStep
  <2>1. CASE RecoverCommit
    <3>1. ASSUME NEW j \in Jobs, j \in sweep.dirty \ SweepLost
          PROVE  RowIsHonest(Recovered(j))
      <4>1. db[j] # None /\ db[j] \in Row
            BY <3>1 DEF SweepLost, TypeOK
      <4>2. /\ Recovered(j).url = db[j].url /\ Recovered(j).fmt = db[j].fmt
            /\ Recovered(j).file = db[j].file /\ Recovered(j).hash = db[j].hash
            BY <4>1 DEF Recovered, Row
      <4> QED BY <4>1, <4>2, KeptRowHonest DEF RowsFit
    <3>2. \A j \in Jobs : db'[j] = IF j \in sweep.dirty \ SweepLost
                                    THEN Recovered(j) ELSE db[j]
          BY <2>1 DEF RecoverCommit
    <3> QED BY <3>1, <3>2 DEF RowsFit
  <2>2. CASE ~RecoverCommit
        BY <1>4, <2>2 DEF SweepStep, RecoverBegin, RecoverLost, RecoverAbort,
                          RecoverJob, RowsFit
  <2> QED BY <2>1, <2>2
<1>5. ASSUME NEW j \in Jobs, HeartbeatAges(j)
      PROVE  RowsFit'
  <2>1. db[j] # None /\ db[j] \in Row
        BY <1>5 DEF HeartbeatAges, TypeOK
  <2>2. RowIsHonest([db[j] EXCEPT !.hb = "stale"])
        BY <2>1, StatusRowHonest DEF RowsFit
  <2>3. db' = [db EXCEPT ![j] = [db[j] EXCEPT !.hb = "stale"]]
        BY <1>5 DEF HeartbeatAges
  <2> QED BY <2>1, <2>2, <2>3 DEF RowsFit, TypeOK
<1> QED BY <1>1, <1>3, <1>4, <1>5

LEMMA WorkerRowsFit ==
  ASSUME TypeOK, RowsFit, HandsFit, NEW w \in Workers,
         WorkerStep(w) \/ WorkerFault(w)
  PROVE  RowsFit'
<1> DEFINE m == attempt[w].msg
           j == m.job
           f == attempt[w].file
<1>1. CASE UNCHANGED db
      BY <1>1 DEF RowsFit
<1>2. CASE RecordCached(w) \/ RecordDone(w)
  <2>1. j \in Jobs /\ (db[j] # None => db[j] \in Row) /\ f \in File \cup {None}
        BY <1>2, InHand DEF RecordCached, RecordDone, At
  <2>2. f # None => Fits(j, f.url, f.q)
        BY <1>2 DEF RecordCached, RecordDone, At, HandsFit, HandFits
  <2>3. db[j] # None =>
          RowIsHonest([db[j] EXCEPT !.status = "DONE", !.file = f])
        BY <2>1, <2>2 DEF RowIsHonest, RowsFit, Fits, Row
  <2> QED BY <1>2, <2>1, <2>3, UpdateFits DEF RecordCached, RecordDone
<1>3. CASE Fetched(w)
  <2>1. j \in Jobs /\ (db[j] # None => db[j] \in Row)
        BY <1>3, InHand DEF Fetched, At
  <2>2. Fits(j, m.url, m.q)
        BY <1>3 DEF Fetched, At, HandsFit, HandFits
  <2>3. db[j] # None =>
          RowIsHonest([db[j] EXCEPT !.status = "RUNNING", !.hash = Key(m)])
        BY <2>1, <2>2 DEF RowIsHonest, RowsFit, Fits, Row, Key
  <2> QED BY <1>3, <2>1, <2>3, UpdateFits DEF Fetched
<1>4. CASE FetchFails(w) \/ RecordFailed(w)
  <2>1. j \in Jobs /\ (db[j] # None => db[j] \in Row)
        BY <1>4, InHand DEF FetchFails, RecordFailed, At
  <2>2. db[j] # None => RowIsHonest([db[j] EXCEPT !.status = "FAILED"])
        BY <2>1, StatusRowHonest DEF RowsFit
  <2> QED BY <1>4, <2>1, <2>2, UpdateFits DEF FetchFails, RecordFailed, MarkFailed
<1>5. CASE Claim(w) \/ Compress(w)
  <2>1. j \in Jobs /\ (db[j] # None => db[j] \in Row)
        BY <1>5, InHand DEF Claim, Compress, At
  <2>2. db[j] # None =>
          RowIsHonest([db[j] EXCEPT !.status = "RUNNING", !.hb = "fresh"])
        BY <2>1, StatusRowHonest DEF RowsFit
  <2> QED BY <1>5, <2>1, <2>2, UpdateFits DEF Claim, Compress
<1>6. CASE Receive(w) \/ CacheHit(w) \/ CacheMiss(w) \/ SendCached(w)
           \/ AskQuality(w) \/ SelectFails(w) \/ WarnLarge(w) \/ Chain(w)
      BY <1>1, <1>6 DEF Receive, CacheHit, CacheMiss, SendCached,
                        AskQuality, SelectFails, WarnLarge, Chain
<1>7. CASE Download(w) \/ DownloadFails(w) \/ Upload(w) \/ UploadNothing(w)
           \/ FileGone(w) \/ Announce(w) \/ Cleanup(w)
      BY <1>1, <1>7 DEF Download, DownloadFails, Upload, UploadNothing,
                        FileGone, Announce, Cleanup
<1>8. CASE WorkerFault(w)
      BY <1>1, <1>8 DEF WorkerFault, Raises, TimesOut, WorkerCrash
<1> QED BY <1>2, <1>3, <1>4, <1>5, <1>6, <1>7, <1>8
        DEF WorkerStep, PreflightStep, DownloadStep

LEMMA RowsFitStep ==
  ASSUME TypeOK, MediaInv, [Next]_vars
  PROVE  RowsFit'
<1>1. CASE Next
      BY <1>1, UserRowsFit, BotRowsFit, WorkerRowsFit DEF Next, MediaInv
<1>2. CASE UNCHANGED vars
      BY <1>2 DEF vars, RowsFit, MediaInv
<1> QED BY <1>1, <1>2

-----------------------------------------------------------------------------
(* What the jobs' numbers travel with.                                      *)
\* Fits after the step, for things known before it.
FitsNext(j, url, q) ==
  /\ j <= created'
  /\ \A row \in {db'[j], draft'[j]} \ {None} :
       row.url = url /\ (url \notin YouTube => row.fmt = q)

FitsStay ==
  \A j \in Jobs, url \in Urls, q \in Qualities : Fits(j, url, q) => FitsNext(j, url, q)

LEMMA StepStays ==
  ASSUME TypeOK, DraftInv, MediaInv, [Next]_vars
  PROVE  FitsStay
  BY FitsStays DEF FitsStay, FitsNext, Fits, MediaInv

LEMMA MessageParts ==
  ASSUME NEW m \in Message
  PROVE  m.job \in Jobs /\ m.url \in Urls /\ m.q \in Qualities
  BY DEF Message

\* A variable that stays, or loses members, fits as before.
LEMMA Kept ==
  ASSUME TypeOK, DraftInv, MediaInv, [Next]_vars
  PROVE  /\ intake' \subseteq intake => IntakeFits'
         /\ UNCHANGED queue => QueueFits'
         /\ UNCHANGED sweep \/ sweep' = EmptySweep => SweepFits'
         /\ UNCHANGED tmp => TmpFits'
         /\ UNCHANGED attempt => HandsFit'
         /\ (\A j \in Jobs : draft'[j] \in {draft[j], None}) => DraftsFit'
<1>0. FitsStay
      BY StepStays
<1>1. intake' \subseteq intake => IntakeFits'
  <2>1. \A m \in intake : FitsNext(m.job, m.url, m.q)
        BY <1>0, MessageParts DEF IntakeFits, FitsStay, MediaInv, TypeOK
  <2> QED BY <2>1 DEF IntakeFits, Fits, FitsNext
<1>2. UNCHANGED queue => QueueFits'
  <2>1. \A i \in DOMAIN queue : queue[i] \in Message
        BY DEF TypeOK
  <2>2. \A i \in DOMAIN queue : FitsNext(queue[i].job, queue[i].url, queue[i].q)
        BY <1>0, <2>1, MessageParts DEF QueueFits, FitsStay, MediaInv
  <2> QED BY <2>2 DEF QueueFits, Fits, FitsNext
<1>3. UNCHANGED sweep => SweepFits'
  <2>1. \A j \in Jobs : sweep.rows[j] # None =>
          sweep.rows[j].url \in Urls /\ sweep.rows[j].fmt \in Qualities
        BY DEF TypeOK, Sweep, Row
  <2>2. \A j \in Jobs : sweep.rows[j] # None =>
          FitsNext(j, sweep.rows[j].url, sweep.rows[j].fmt)
        BY <1>0, <2>1 DEF SweepFits, FitsStay, MediaInv
  <2> QED BY <2>2 DEF SweepFits, Fits, FitsNext
<1>4. sweep' = EmptySweep => SweepFits'
      BY DEF EmptySweep, SweepFits
<1>5. UNCHANGED tmp => TmpFits'
  <2>1. \A j \in Jobs : tmp[j] # None => tmp[j].url \in Urls /\ tmp[j].q \in Qualities
        BY DEF TypeOK, File
  <2>2. \A j \in Jobs : tmp[j] # None => FitsNext(j, tmp[j].url, tmp[j].q)
        BY <1>0, <2>1 DEF TmpFits, FitsStay, MediaInv
  <2> QED BY <2>2 DEF TmpFits, Fits, FitsNext
<1>6. UNCHANGED attempt => HandsFit'
  <2>1. ASSUME NEW w \in Workers, attempt[w].pc # "idle"
        PROVE  /\ attempt[w].msg \in Message
               /\ attempt[w].file # None =>
                    attempt[w].file.url \in Urls /\ attempt[w].file.q \in Qualities
        BY <2>1 DEF TypeOK, Attempt, File
  <2>2. ASSUME NEW w \in Workers, attempt[w].pc # "idle"
        PROVE  /\ FitsNext(attempt[w].msg.job, attempt[w].msg.url, attempt[w].msg.q)
               /\ attempt[w].file # None =>
                    FitsNext(attempt[w].msg.job, attempt[w].file.url, attempt[w].file.q)
        BY <1>0, <2>1, <2>2, MessageParts DEF HandsFit, HandFits, FitsStay, MediaInv
  <2> QED BY <2>2 DEF HandsFit, HandFits, Fits, FitsNext
<1>7. (\A j \in Jobs : draft'[j] \in {draft[j], None}) => DraftsFit'
      BY DEF DraftsFit, MediaInv
<1> QED BY <1>1, <1>2, <1>3, <1>4, <1>5, <1>6, <1>7

LEMMA AppendFits ==
  ASSUME TypeOK, QueueFits, FitsStay, NEW m \in Message,
         queue' = Append(queue, m), FitsNext(m.job, m.url, m.q)
  PROVE  QueueFits'
<1>1. /\ queue \in Seq(Message)
      /\ \A i \in DOMAIN queue : queue[i] \in Message
      BY DEF TypeOK
<1>2. \A i \in DOMAIN queue' : \/ i \in DOMAIN queue /\ queue'[i] = queue[i]
                               \/ queue'[i] = m
      BY <1>1
<1>3. \A i \in DOMAIN queue : FitsNext(queue[i].job, queue[i].url, queue[i].q)
      BY <1>1, MessageParts DEF QueueFits, FitsStay
<1>4. \A i \in DOMAIN queue' : FitsNext(queue'[i].job, queue'[i].url, queue'[i].q)
      BY <1>2, <1>3
<1> QED BY <1>4 DEF QueueFits, Fits, FitsNext

LEMMA TailFits ==
  ASSUME TypeOK, QueueFits, FitsStay, queue # << >>, queue' = Tail(queue)
  PROVE  QueueFits'
<1>1. /\ queue \in Seq(Message)
      /\ \A i \in DOMAIN queue : queue[i] \in Message
      BY DEF TypeOK
<1>2. \A i \in DOMAIN queue' : i + 1 \in DOMAIN queue /\ queue'[i] = queue[i + 1]
      BY <1>1
<1>3. \A i \in DOMAIN queue : FitsNext(queue[i].job, queue[i].url, queue[i].q)
      BY <1>1, MessageParts DEF QueueFits, FitsStay
<1>4. \A i \in DOMAIN queue' : FitsNext(queue'[i].job, queue'[i].url, queue'[i].q)
      BY <1>2, <1>3
<1> QED BY <1>4 DEF QueueFits, Fits, FitsNext

LEMMA HandChanged ==
  ASSUME TypeOK, HandsFit, FitsStay, NEW w \in Workers, NEW a,
         attempt' = [attempt EXCEPT ![w] = a],
         a.pc # "idle" =>
           /\ FitsNext(a.msg.job, a.msg.url, a.msg.q)
           /\ a.file # None => FitsNext(a.msg.job, a.file.url, a.file.q)
  PROVE  HandsFit'
<1>1. attempt'[w] = a
      BY DEF TypeOK
<1>2. ASSUME NEW v \in Workers, v # w, attempt[v].pc # "idle"
      PROVE  /\ attempt[v].msg \in Message
             /\ attempt[v].file # None =>
                  attempt[v].file.url \in Urls /\ attempt[v].file.q \in Qualities
      BY <1>2 DEF TypeOK, Attempt, File
<1>3. \A v \in Workers : v # w => attempt'[v] = attempt[v]
      BY DEF TypeOK
<1>4. ASSUME NEW v \in Workers, v # w, attempt[v].pc # "idle"
      PROVE  /\ FitsNext(attempt[v].msg.job, attempt[v].msg.url, attempt[v].msg.q)
             /\ attempt[v].file # None =>
                  FitsNext(attempt[v].msg.job, attempt[v].file.url, attempt[v].file.q)
      BY <1>2, <1>4, MessageParts DEF HandsFit, HandFits, FitsStay
<1>5. ASSUME NEW v \in Workers, attempt'[v].pc # "idle"
      PROVE  /\ FitsNext(attempt'[v].msg.job, attempt'[v].msg.url, attempt'[v].msg.q)
             /\ attempt'[v].file # None =>
                  FitsNext(attempt'[v].msg.job, attempt'[v].file.url, attempt'[v].file.q)
      BY <1>1, <1>3, <1>4, <1>5
<1> QED BY <1>5 DEF HandsFit, HandFits, Fits, FitsNext

LEMMA HandMoves ==
  ASSUME TypeOK, HandsFit, FitsStay, NEW w \in Workers, ~At(w, "idle"),
         NEW pc, Goto(w, pc)
  PROVE  HandsFit'
<1> DEFINE a == [attempt[w] EXCEPT !.pc = pc]
<1>1. /\ attempt[w].msg \in Message
      /\ attempt[w].file # None =>
           attempt[w].file.url \in Urls /\ attempt[w].file.q \in Qualities
      BY DEF TypeOK, At, Attempt, File
<1>2. a.msg = attempt[w].msg /\ a.file = attempt[w].file
      BY DEF TypeOK, Attempt
<1>3. attempt' = [attempt EXCEPT ![w] = a]
      BY DEF Goto
<1>4. /\ FitsNext(a.msg.job, a.msg.url, a.msg.q)
      /\ a.file # None => FitsNext(a.msg.job, a.file.url, a.file.q)
      BY <1>1, <1>2, MessageParts DEF HandsFit, HandFits, FitsStay, At
<1> QED BY <1>3, <1>4, HandChanged

LEMMA HandEnds ==
  ASSUME TypeOK, HandsFit, FitsStay, NEW w \in Workers, Ends(w)
  PROVE  HandsFit'
<1>1. Idle.pc = "idle"
      BY DEF Idle
<1> QED BY <1>1, HandChanged DEF Ends

-----------------------------------------------------------------------------
(* The steps of the bot process.                                            *)
LEMMA NewRowHonest ==
  ASSUME NEW u, NEW url, NEW q
  PROVE  RowIsHonest(NewRow(u, url, q))
  BY DEF RowIsHonest, NewRow

LEMMA DraftsFitStep ==
  ASSUME TypeOK, DraftInv, MediaInv, [Next]_vars
  PROVE  DraftsFit'
<1>1. CASE \A j \in Jobs : draft'[j] \in {draft[j], None}
      BY <1>1, Kept
<1>2. ASSUME NEW u \in Users, NEW url \in Urls, NEW q \in Qualities, RedditQueue(u, url, q)
      PROVE  DraftsFit'
  <2>1. draft' = [draft EXCEPT ![created + 1] = NewRow(u, url, q)]
        BY <1>2 DEF RedditQueue
  <2> QED BY <2>1, NewRowHonest DEF DraftsFit, MediaInv, TypeOK
<1>3. ASSUME NEW u \in Users, NEW url \in Urls, NEW q \in Qualities, Submit(u, url, q)
      PROVE  UNCHANGED draft
      BY <1>3 DEF Submit
<1>4. ASSUME NEW u \in Users,
             \/ RedditCommit(u) \/ RedditRollback(u)
             \/ CancelRead(u) \/ CancelFails(u) \/ CancelCommit(u) \/ ClearHistory(u)
      PROVE  \A j \in Jobs : draft'[j] \in {draft[j], None}
      BY <1>4 DEF RedditCommit, RedditRollback, CancelRead, CancelFails, CancelCommit, ClearHistory
<1>5. ASSUME NEW w \in Workers, WorkerStep(w) \/ WorkerFault(w)
      PROVE  UNCHANGED draft
      BY <1>5, WorkersKeepBot DEF botVars
<1>6. CASE BotRestart
      BY <1>1, <1>6 DEF BotRestart
<1>7. CASE IntakeStep \/ MenuStep \/ SweepStep \/ \E j \in Jobs : HeartbeatAges(j)
      BY <1>1, <1>7 DEF IntakeStep, Enqueue, EnqueueFails, MenuStep, Click,
           QualityPick, QualityPickFails, PickSwallowed,
           SweepStep, RecoverBegin, RecoverCommit,
           RecoverLost, RecoverAbort, RecoverJob, HeartbeatAges, botVars
<1>8. CASE UNCHANGED vars
      BY <1>1, <1>8 DEF vars
<1> QED BY <1>1, <1>2, <1>3, <1>4, <1>5, <1>6, <1>7, <1>8 DEF Next, UserStep

LEMMA IntakeFitsStep ==
  ASSUME TypeOK, DraftInv, MediaInv, [Next]_vars
  PROVE  IntakeFits'
<1>1. CASE intake' \subseteq intake
      BY <1>1, Kept
<1>2. ASSUME NEW m, intake' = intake \cup {m}, FitsNext(m.job, m.url, m.q)
      PROVE  IntakeFits'
  <2>1. \A n \in intake : FitsNext(n.job, n.url, n.q)
        BY StepStays, MessageParts DEF IntakeFits, FitsStay, MediaInv, TypeOK
  <2> QED BY <1>2, <2>1 DEF IntakeFits, Fits, FitsNext
<1>3. ASSUME NEW u \in Users, NEW url \in Urls, NEW pref \in Qualities, Submit(u, url, pref)
      PROVE  IntakeFits'
  <2> DEFINE j == created + 1
  <2>1. PICK q \in Qualities :
          /\ intake' = intake \cup {Preflight(j, url, q)}
          /\ db' = [db EXCEPT ![j] = NewRow(u, url, q)]
        BY <1>3 DEF Submit, ConstantAssumption
  <2>2. created \in Nat /\ created' = j /\ j \in Jobs /\ draft' = draft
        BY <1>3 DEF Submit, TypeOK, Jobs
  <2>3. draft[j] = None
        BY <2>2 DEF DraftInv
  <2>4. db'[j] = NewRow(u, url, q)
        BY <2>1, <2>2 DEF TypeOK
  <2>5. FitsNext(j, url, q)
        BY <2>2, <2>3, <2>4 DEF FitsNext, NewRow
  <2> QED BY <1>2, <2>1, <2>5 DEF Preflight
<1>4. ASSUME NEW j \in Jobs, NEW q \in Qualities, <<j, q>> \in picks,
             QualityPick(j, q), db[j] # None
      PROVE  IntakeFits'
  <2>1. /\ intake' = intake \cup {Preflight(j, db[j].url, q)}
        /\ db'[j] = [db[j] EXCEPT !.fmt = q]
        /\ created' = created /\ draft' = draft
        BY <1>4 DEF QualityPick, TypeOK
  <2>2. db[j] \in Row /\ draft[j] = None /\ j <= created /\ db[j].url \in YouTube
        BY <1>4 DEF TypeOK, DraftInv, MediaInv, MenusFit, MayAsk
  <2>3. FitsNext(j, db[j].url, q)
        BY <2>1, <2>2 DEF FitsNext, Row
  <2> QED BY <1>2, <2>1, <2>3 DEF Preflight
<1>5. CASE MenuStep
  <2>1. \A p \in Jobs \X Qualities :
          p[1] \in Jobs /\ p[2] \in Qualities /\ p = <<p[1], p[2]>>
        OBVIOUS
  <2>2. ASSUME NEW p \in picks,
               QualityPick(p[1], p[2]) \/ QualityPickFails(p[1], p[2])
               \/ PickSwallowed(p[1], p[2])
        PROVE  IntakeFits'
    <3>1. p[1] \in Jobs /\ p[2] \in Qualities /\ <<p[1], p[2]>> \in picks
          BY <2>1 DEF TypeOK
    <3> QED BY <1>1, <1>4, <2>2, <3>1 DEF QualityPick, QualityPickFails, PickSwallowed
  <2>3. CASE \E j \in Jobs, q \in Qualities \ {Best} : Click(j, q)
        BY <1>1, <2>3 DEF Click
  <2> QED BY <1>5, <2>2, <2>3 DEF MenuStep
<1>6. ASSUME NEW u \in Users, NEW url \in Urls, NEW q \in Qualities, RedditQueue(u, url, q)
      PROVE  UNCHANGED intake
      BY <1>6 DEF RedditQueue
<1>7. ASSUME NEW u \in Users,
             \/ RedditCommit(u) \/ RedditRollback(u)
             \/ CancelRead(u) \/ CancelFails(u) \/ CancelCommit(u) \/ ClearHistory(u)
      PROVE  UNCHANGED intake
      BY <1>7 DEF RedditCommit, RedditRollback, CancelRead, CancelFails, CancelCommit, ClearHistory
<1>8. ASSUME NEW w \in Workers, WorkerStep(w) \/ WorkerFault(w)
      PROVE  UNCHANGED intake
      BY <1>8, WorkersKeepBot DEF botVars
<1>9. CASE IntakeStep \/ SweepStep \/ BotRestart \/ \E j \in Jobs : HeartbeatAges(j)
      BY <1>1, <1>9 DEF IntakeStep, Enqueue, EnqueueFails, SweepStep,
           RecoverBegin, RecoverCommit, RecoverLost, RecoverAbort, RecoverJob,
           BotRestart, HeartbeatAges, botVars
<1>10. CASE UNCHANGED vars
      BY <1>1, <1>10 DEF vars
<1> QED BY <1>1, <1>3, <1>5, <1>6, <1>7, <1>8, <1>9, <1>10 DEF Next, UserStep

LEMMA SweepFitsStep ==
  ASSUME TypeOK, DraftInv, MediaInv, [Next]_vars
  PROVE  SweepFits'
<1>1. CASE UNCHANGED sweep \/ sweep' = EmptySweep
      BY <1>1, Kept
<1>2. CASE RecoverBegin
  <2>1. /\ sweep'.rows = [j \in Jobs |-> IF IsStale(j) THEN db[j] ELSE None]
        /\ UNCHANGED <<db, draft, created>>
        BY <1>2 DEF RecoverBegin, EmptySweep
  <2>2. \A j \in Jobs : sweep'.rows[j] # None => sweep'.rows[j] = db[j] /\ db[j] # None
        BY <2>1
  <2>3. \A j \in Jobs : db[j] # None => Fits(j, db[j].url, db[j].fmt)
        BY DEF DraftInv, Fits
  <2> QED BY <2>1, <2>2, <2>3 DEF SweepFits, Fits
<1>3. ASSUME NEW j \in Jobs, RecoverJob(j)
      PROVE  SweepFits'
  <2>1. /\ sweep'.rows = [sweep.rows EXCEPT ![j] = None]
        /\ UNCHANGED <<db, draft, created>>
        BY <1>3 DEF RecoverJob, TypeOK, Sweep
  <2>2. \A k \in Jobs : sweep'.rows[k] # None =>
          sweep'.rows[k] = sweep.rows[k] /\ sweep.rows[k] # None
        BY <2>1 DEF TypeOK, Sweep
  <2>3. \A k \in Jobs : sweep.rows[k] # None =>
          Fits(k, sweep.rows[k].url, sweep.rows[k].fmt)
        BY DEF MediaInv, SweepFits
  <2> QED BY <2>1, <2>2, <2>3 DEF SweepFits, Fits
<1>4. CASE RecoverCommit \/ RecoverLost \/ RecoverAbort
      BY <1>1, <1>4 DEF RecoverCommit, RecoverLost, RecoverAbort, RollBackSweep
<1>5. CASE BotRestart
      BY <1>1, <1>5 DEF BotRestart, RollBackSweep
<1>6. ASSUME NEW u \in Users, UserStep(u)
      PROVE  UNCHANGED sweep
      BY <1>6 DEF UserStep, Submit, RedditQueue, RedditCommit, RedditRollback,
                  CancelRead, CancelFails, CancelCommit, ClearHistory
<1>7. ASSUME NEW w \in Workers, WorkerStep(w) \/ WorkerFault(w)
      PROVE  UNCHANGED sweep
      BY <1>7, WorkersKeepBot DEF botVars
<1>8. CASE IntakeStep \/ MenuStep \/ \E j \in Jobs : HeartbeatAges(j)
      BY <1>1, <1>8 DEF IntakeStep, Enqueue, EnqueueFails, MenuStep, Click,
           QualityPick, QualityPickFails, PickSwallowed, HeartbeatAges, botVars
<1>9. CASE UNCHANGED vars
      BY <1>1, <1>9 DEF vars
<1> QED BY <1>1, <1>2, <1>3, <1>4, <1>5, <1>6, <1>7, <1>8, <1>9 DEF Next, SweepStep

LEMMA MenusFitStep ==
  ASSUME TypeOK, DraftInv, MediaInv, [Next]_vars
  PROVE  MenusFit'
<1>0. /\ \A j \in Jobs : MayAsk(j) => MayAsk(j)'
      /\ \A j \in Jobs : menu[j] = "quality" => MayAsk(j)
      /\ \A j \in Jobs, q \in Qualities : <<j, q>> \in picks => MayAsk(j)
      BY MayAskStays DEF MediaInv, MenusFit
<1>1. CASE /\ picks' \subseteq picks
           /\ \A j \in Jobs : menu'[j] = "quality" => menu[j] = "quality"
      BY <1>0, <1>1 DEF MenusFit
<1>2. ASSUME NEW j \in Jobs, NEW q \in Qualities, Click(j, q)
      PROVE  MenusFit'
  <2>1. menu' = menu /\ picks' = picks \cup {<<j, q>>} /\ menu[j] = "quality"
        BY <1>2 DEF Click
  <2>2. ASSUME NEW k \in Jobs, NEW p \in Qualities, <<k, p>> \in picks'
        PROVE  <<k, p>> \in picks \/ k = j
        BY <2>1, <2>2
  <2> QED BY <1>0, <2>1, <2>2 DEF MenusFit
<1>3. ASSUME NEW w \in Workers, AskQuality(w)
      PROVE  MenusFit'
  <2> DEFINE m == attempt[w].msg
  <2>1. /\ menu' = [menu EXCEPT ![m.job] = "quality"]
        /\ m.url \in YouTube
        /\ UNCHANGED <<picks, db, draft, created>>
        /\ attempt[w].pc # "idle"
        BY <1>3 DEF AskQuality, WantsMenu, At, botVars
  <2>2. Fits(m.job, m.url, m.q) /\ m.job \in Jobs
        BY <2>1, InHand DEF MediaInv, HandsFit, HandFits, At
  <2>3. MayAsk(m.job)
        BY <2>1, <2>2 DEF Fits, MayAsk
  <2>4. \A j \in Jobs : menu'[j] = "quality" => menu[j] = "quality" \/ j = m.job
        BY <2>1 DEF TypeOK
  <2>5. \A j \in Jobs : menu'[j] = "quality" => MayAsk(j)
        BY <1>0, <2>3, <2>4
  <2> QED BY <1>0, <2>1, <2>5 DEF MenusFit
<1>4. ASSUME NEW w \in Workers, WarnLarge(w)
      PROVE  MenusFit'
  <2>1. /\ menu' = [menu EXCEPT ![attempt[w].msg.job] = "confirm"]
        /\ UNCHANGED picks
        BY <1>4 DEF WarnLarge, botVars
  <2> QED BY <1>1, <2>1 DEF TypeOK
<1>5. ASSUME NEW w \in Workers, WorkerStep(w) \/ WorkerFault(w)
      PROVE  MenusFit'
  <2>1. UNCHANGED picks
        BY <1>5, WorkersKeepBot DEF botVars
  <2>2. CASE Receive(w) \/ PreflightStep(w)
        BY <1>1, <1>3, <1>4, <2>1, <2>2 DEF Receive, PreflightStep, CacheHit,
           CacheMiss, SendCached, RecordCached, Fetched, FetchFails,
           SelectFails, Chain
  <2>3. CASE DownloadStep(w)
        BY <1>1, <2>1, <2>3 DEF DownloadStep, Claim, Download, DownloadFails,
           Compress, Upload, UploadNothing, FileGone, RecordDone, Announce,
           RecordFailed, Cleanup
  <2>4. CASE WorkerFault(w)
        BY <1>1, <2>1, <2>4 DEF WorkerFault, Raises, TimesOut, WorkerCrash
  <2> QED BY <1>5, <2>2, <2>3, <2>4 DEF WorkerStep
<1>6. ASSUME NEW p \in picks,
             QualityPick(p[1], p[2]) \/ QualityPickFails(p[1], p[2])
             \/ PickSwallowed(p[1], p[2])
      PROVE  /\ picks' \subseteq picks
             /\ \A j \in Jobs : menu'[j] = "quality" => menu[j] = "quality"
      BY <1>6 DEF QualityPick, QualityPickFails, PickSwallowed, TypeOK
<1>7. CASE MenuStep
      BY <1>1, <1>2, <1>6, <1>7 DEF MenuStep
<1>8. ASSUME NEW u \in Users, UserStep(u)
      PROVE  UNCHANGED <<menu, picks>>
      BY <1>8 DEF UserStep, Submit, RedditQueue, RedditCommit, RedditRollback,
                  CancelRead, CancelFails, CancelCommit, ClearHistory
<1>9. CASE IntakeStep \/ SweepStep \/ BotRestart \/ \E j \in Jobs : HeartbeatAges(j)
      BY <1>1, <1>9 DEF IntakeStep, Enqueue, EnqueueFails, SweepStep,
           RecoverBegin, RecoverCommit, RecoverLost, RecoverAbort, RecoverJob,
           BotRestart, HeartbeatAges, botVars
<1>10. CASE UNCHANGED vars
      BY <1>1, <1>10 DEF vars
<1> QED BY <1>1, <1>5, <1>7, <1>8, <1>9, <1>10 DEF Next

LEMMA QueueFitsStep ==
  ASSUME TypeOK, DraftInv, MediaInv, [Next]_vars
  PROVE  QueueFits'
<1>0. FitsStay /\ QueueFits
      BY StepStays DEF MediaInv
<1>1. CASE UNCHANGED queue
      BY <1>1, Kept
<1>2. ASSUME NEW m \in intake, Enqueue(m)
      PROVE  QueueFits'
  <2>1. m \in Message /\ queue' = Append(queue, m)
        BY <1>2 DEF Enqueue, TypeOK
  <2>2. FitsNext(m.job, m.url, m.q)
        BY <1>0, <2>1, MessageParts DEF FitsStay, MediaInv, IntakeFits
  <2> QED BY <1>0, <2>1, <2>2, AppendFits
<1>3. ASSUME NEW u \in Users, NEW url \in Urls, NEW q \in Qualities, RedditQueue(u, url, q)
      PROVE  QueueFits'
  <2> DEFINE j == created + 1
             m == Preflight(j, url, q)
  <2>1. /\ queue' = Append(queue, m) /\ created' = j /\ db' = db
        /\ draft' = [draft EXCEPT ![j] = NewRow(u, url, q)]
        /\ created \in Nat /\ j \in Jobs
        BY <1>3 DEF RedditQueue, TypeOK, Jobs
  <2>2. m \in Message /\ m.job = j /\ m.url = url /\ m.q = q
        BY <2>1 DEF Preflight, Message
  <2>3. db[j] = None /\ draft'[j] = NewRow(u, url, q)
        BY <2>1 DEF DraftInv, TypeOK
  <2>4. FitsNext(j, url, q)
        BY <2>1, <2>3 DEF FitsNext, NewRow
  <2> QED BY <1>0, <2>1, <2>2, <2>4, AppendFits
<1>4. ASSUME NEW j \in Jobs, RecoverJob(j)
      PROVE  QueueFits'
  <2> DEFINE row == sweep.rows[j]
             m   == Preflight(j, row.url, row.fmt)
  <2>1. /\ row # None /\ row \in Row
        /\ queue' = queue \/ queue' = Append(queue, m)
        BY <1>4 DEF RecoverJob, TypeOK, Sweep
  <2>2. m \in Message /\ m.job = j /\ m.url = row.url /\ m.q = row.fmt
        BY <2>1 DEF Preflight, Message, Row
  <2>3. FitsNext(m.job, m.url, m.q)
        BY <1>0, <2>1, <2>2, MessageParts DEF FitsStay, MediaInv, SweepFits
  <2> QED BY <1>0, <1>1, <2>1, <2>2, <2>3, AppendFits
<1>5. ASSUME NEW w \in Workers, Receive(w)
      PROVE  QueueFits'
      BY <1>0, <1>5, TailFits DEF Receive
<1>6. ASSUME NEW w \in Workers, Chain(w)
      PROVE  QueueFits'
  <2> DEFINE m == attempt[w].msg
             n == [m EXCEPT !.task = "download"]
  <2>1. queue' = Append(queue, n) /\ attempt[w].pc # "idle"
        BY <1>6 DEF Chain, Chained, At
  <2>2. m \in Message /\ Fits(m.job, m.url, m.q)
        BY <2>1 DEF TypeOK, MediaInv, HandsFit, HandFits
  <2>3. n \in Message /\ n.job = m.job /\ n.url = m.url /\ n.q = m.q
        BY <2>2 DEF Message
  <2>4. FitsNext(n.job, n.url, n.q)
        BY <1>0, <2>2, <2>3, MessageParts DEF FitsStay
  <2> QED BY <1>0, <2>1, <2>3, <2>4, AppendFits
<1>7. ASSUME NEW w \in Workers, WorkerStep(w) \/ WorkerFault(w)
      PROVE  QueueFits'
  <2>1. CASE PreflightStep(w)
        BY <1>1, <1>6, <2>1 DEF PreflightStep, CacheHit, CacheMiss, SendCached,
           RecordCached, Fetched, FetchFails, AskQuality, SelectFails, WarnLarge
  <2>2. CASE DownloadStep(w)
        BY <1>1, <2>2 DEF DownloadStep, Claim, Download, DownloadFails,
           Compress, Upload, UploadNothing, FileGone, RecordDone, Announce,
           RecordFailed, Cleanup
  <2>3. CASE WorkerFault(w)
        BY <1>1, <2>3 DEF WorkerFault, Raises, TimesOut, WorkerCrash
  <2> QED BY <1>5, <1>7, <2>1, <2>2, <2>3 DEF WorkerStep
<1>8. ASSUME NEW u \in Users, UserStep(u)
      PROVE  QueueFits'
      BY <1>1, <1>3, <1>8 DEF UserStep, Submit, RedditCommit, RedditRollback,
                              CancelRead, CancelFails, CancelCommit, ClearHistory
<1>9. CASE IntakeStep
      BY <1>1, <1>2, <1>9 DEF IntakeStep, EnqueueFails
<1>10. CASE SweepStep
      BY <1>1, <1>4, <1>10 DEF SweepStep, RecoverBegin, RecoverCommit,
                               RecoverLost, RecoverAbort
<1>11. CASE MenuStep \/ BotRestart \/ \E j \in Jobs : HeartbeatAges(j)
      BY <1>1, <1>11 DEF MenuStep, Click, QualityPick, QualityPickFails, PickSwallowed,
                         BotRestart, HeartbeatAges, botVars
<1>12. CASE UNCHANGED vars
      BY <1>1, <1>12 DEF vars
<1> QED BY <1>7, <1>8, <1>9, <1>10, <1>11, <1>12 DEF Next

-----------------------------------------------------------------------------
(* The steps of the workers.                                                *)
LEMMA TmpFitsStep ==
  ASSUME TypeOK, DraftInv, MediaInv, [Next]_vars
  PROVE  TmpFits'
<1>1. CASE UNCHANGED tmp
      BY <1>1, Kept
<1>2. \A j \in Jobs : tmp[j] # None => FitsNext(j, tmp[j].url, tmp[j].q)
  <2>1. \A j \in Jobs : tmp[j] # None => tmp[j].url \in Urls /\ tmp[j].q \in Qualities
        BY DEF TypeOK, File
  <2> QED BY <2>1, StepStays DEF FitsStay, MediaInv, TmpFits
<1>3. ASSUME NEW w \in Workers, Download(w)
      PROVE  TmpFits'
  <2> DEFINE m == attempt[w].msg
             f == [url |-> m.url, q |-> m.q]
  <2>1. /\ attempt[w].pc # "idle"
        /\ tmp' = [tmp EXCEPT ![m.job] = IF @ = None THEN f ELSE @]
        BY <1>3 DEF Download, At
  <2>2. m \in Message /\ Fits(m.job, m.url, m.q)
        BY <2>1 DEF TypeOK, MediaInv, HandsFit, HandFits
  <2>3. FitsNext(m.job, f.url, f.q)
        BY <2>2, StepStays, MessageParts DEF FitsStay
  <2>4. \A j \in Jobs : tmp'[j] = tmp[j] \/ (j = m.job /\ tmp'[j] = f)
        BY <2>1 DEF TypeOK
  <2>5. \A j \in Jobs : tmp'[j] # None => FitsNext(j, tmp'[j].url, tmp'[j].q)
        BY <1>2, <2>3, <2>4
  <2> QED BY <2>5 DEF TmpFits, Fits, FitsNext
<1>4. ASSUME NEW w \in Workers, Cleanup(w)
      PROVE  TmpFits'
  <2>1. \A j \in Jobs : tmp'[j] \in {tmp[j], None}
        BY <1>4 DEF Cleanup, TypeOK
  <2>2. \A j \in Jobs : tmp'[j] # None => FitsNext(j, tmp'[j].url, tmp'[j].q)
        BY <1>2, <2>1
  <2> QED BY <2>2 DEF TmpFits, Fits, FitsNext
<1>5. ASSUME NEW w \in Workers, WorkerStep(w) \/ WorkerFault(w)
      PROVE  TmpFits'
  <2>1. CASE Receive(w) \/ PreflightStep(w)
        BY <1>1, <2>1 DEF Receive, PreflightStep, CacheHit, CacheMiss,
           SendCached, RecordCached, Fetched, FetchFails, AskQuality,
           SelectFails, WarnLarge, Chain
  <2>2. CASE DownloadStep(w)
        BY <1>1, <1>3, <1>4, <2>2 DEF DownloadStep, Claim, DownloadFails,
           Compress, Upload, UploadNothing, FileGone, RecordDone, Announce,
           RecordFailed
  <2>3. CASE WorkerFault(w)
        BY <1>1, <2>3 DEF WorkerFault, Raises, TimesOut, WorkerCrash
  <2> QED BY <1>5, <2>1, <2>2, <2>3 DEF WorkerStep
<1>6. ASSUME NEW u \in Users, UserStep(u)
      PROVE  UNCHANGED tmp
      BY <1>6 DEF UserStep, Submit, RedditQueue, RedditCommit, RedditRollback,
                  CancelRead, CancelFails, CancelCommit, ClearHistory, workerVars
<1>7. CASE \/ IntakeStep \/ MenuStep \/ SweepStep \/ BotRestart
           \/ \E j \in Jobs : HeartbeatAges(j)
      BY <1>1, <1>7 DEF IntakeStep, Enqueue, EnqueueFails, MenuStep, Click,
           QualityPick, QualityPickFails, PickSwallowed,
           SweepStep, RecoverBegin, RecoverCommit,
           RecoverLost, RecoverAbort, RecoverJob, BotRestart, HeartbeatAges,
           workerVars
<1>8. CASE UNCHANGED vars
      BY <1>1, <1>8 DEF vars, workerVars
<1> QED BY <1>1, <1>5, <1>6, <1>7, <1>8 DEF Next

LEMMA HandsFitStep ==
  ASSUME TypeOK, DraftInv, MediaInv, [Next]_vars
  PROVE  HandsFit'
<1>0. FitsStay /\ HandsFit
      BY StepStays DEF MediaInv
<1>1. CASE UNCHANGED attempt
      BY <1>1, Kept
<1>2. ASSUME NEW w \in Workers, Receive(w)
      PROVE  HandsFit'
  <2> DEFINE m  == Head(queue)
             a  == [pc   |-> IF m.task = "preflight" THEN "cache" ELSE "claim",
                    msg  |-> m,
                    file |-> None]
  <2>1. attempt' = [attempt EXCEPT ![w] = a] /\ queue # << >>
        BY <1>2 DEF Receive
  <2>2. m \in Message /\ m = queue[1] /\ 1 \in DOMAIN queue
        BY <2>1 DEF TypeOK
  <2>3. FitsNext(m.job, m.url, m.q)
        BY <1>0, <2>2, MessageParts DEF FitsStay, MediaInv, QueueFits
  <2>4. a.msg = m /\ a.file = None
        OBVIOUS
  <2> QED BY <1>0, <2>1, <2>3, <2>4, HandChanged
<1>3. ASSUME NEW w \in Workers, NEW f \in File, NEW pc, attempt[w].pc # "idle",
             attempt' = [attempt EXCEPT ![w].pc = pc, ![w].file = f],
             Fits(attempt[w].msg.job, f.url, f.q)
      PROVE  HandsFit'
  <2> DEFINE m == attempt[w].msg
             a == [attempt[w] EXCEPT !.pc = pc, !.file = f]
  <2>1. m \in Message /\ attempt[w] \in Attempt /\ f.url \in Urls /\ f.q \in Qualities
        BY <1>3 DEF TypeOK, File
  <2>2. a.msg = m /\ a.file = f /\ attempt' = [attempt EXCEPT ![w] = a]
        BY <1>3, <2>1 DEF Attempt, TypeOK
  <2>3. FitsNext(m.job, m.url, m.q)
        BY <1>0, <1>3, <2>1, MessageParts DEF FitsStay, HandsFit, HandFits
  <2>4. FitsNext(m.job, f.url, f.q)
        BY <1>0, <1>3, <2>1, MessageParts DEF FitsStay
  <2> QED BY <1>0, <2>2, <2>3, <2>4, HandChanged
<1>4. ASSUME NEW w \in Workers, CacheHit(w)
      PROVE  HandsFit'
  <2> DEFINE m == attempt[w].msg
  <2>1. attempt[w].pc # "idle"
        BY <1>4 DEF CacheHit, At
  <2>2. PICK k \in CacheHits(m) :
          attempt' = [attempt EXCEPT ![w].pc = "send", ![w].file = db[k].file]
        BY <1>4 DEF CacheHit
  <2>3. /\ k \in Jobs /\ db[k] # None /\ db[k].hash = <<m.url, m.q>>
        /\ db[k].file # None
        BY <2>2 DEF CacheHits, Key
  <2>4. /\ m \in Message /\ Fits(m.job, m.url, m.q)
        /\ db[k] \in Row /\ RowIsHonest(db[k])
        BY <2>1, <2>3 DEF TypeOK, MediaInv, HandsFit, HandFits, RowsFit
  <2>5. db[k].hash # None
    <3>1. m.url \in Urls /\ m.q \in Qualities
          BY <2>4, MessageParts
    <3> QED BY <2>3, <3>1, NoneAssumption
  <2>6. /\ db[k].file \in File
        /\ db[k].file.url = m.url
        /\ m.url \notin YouTube => db[k].file.q = m.q
        BY <2>3, <2>4, <2>5 DEF RowIsHonest, Row
  <2>7. Fits(m.job, db[k].file.url, db[k].file.q)
        BY <2>4, <2>6 DEF Fits
  <2> QED BY <1>3, <2>1, <2>2, <2>6, <2>7
<1>5. ASSUME NEW w \in Workers, Upload(w)
      PROVE  HandsFit'
  <2> DEFINE j == attempt[w].msg.job
  <2>1. /\ attempt[w].pc # "idle" /\ tmp[j] # None
        /\ attempt' = [attempt EXCEPT ![w].pc = "uploaded", ![w].file = tmp[j]]
        BY <1>5 DEF Upload, At
  <2>2. j \in Jobs
        BY <2>1, InHand DEF At
  <2>3. tmp[j] \in File /\ Fits(j, tmp[j].url, tmp[j].q)
        BY <2>1, <2>2 DEF TypeOK, MediaInv, TmpFits
  <2> QED BY <1>3, <2>1, <2>3
<1>6. ASSUME NEW w \in Workers, PreflightStep(w)
      PROVE  HandsFit'
  <2>1. CASE CacheMiss(w) \/ SendCached(w) \/ Fetched(w)
        BY <1>0, <2>1, HandMoves DEF CacheMiss, SendCached, Fetched, At
  <2>2. CASE \/ RecordCached(w) \/ FetchFails(w) \/ AskQuality(w)
             \/ SelectFails(w) \/ WarnLarge(w) \/ Chain(w)
        BY <1>0, <2>2, HandEnds DEF RecordCached, FetchFails, AskQuality,
           SelectFails, WarnLarge, Chain
  <2> QED BY <1>4, <1>6, <2>1, <2>2 DEF PreflightStep
<1>7. ASSUME NEW w \in Workers, DownloadStep(w)
      PROVE  HandsFit'
  <2>1. CASE \/ Claim(w) \/ Download(w) \/ DownloadFails(w) \/ Compress(w)
             \/ UploadNothing(w) \/ FileGone(w) \/ RecordDone(w) \/ Announce(w)
             \/ RecordFailed(w)
        BY <1>0, <2>1, HandMoves DEF Claim, Download, DownloadFails, Compress,
           UploadNothing, FileGone, RecordDone, Announce, RecordFailed, At
  <2>2. CASE Cleanup(w)
        BY <1>0, <2>2, HandEnds DEF Cleanup
  <2> QED BY <1>5, <1>7, <2>1, <2>2 DEF DownloadStep
<1>8. ASSUME NEW w \in Workers, WorkerFault(w)
      PROVE  HandsFit'
  <2>1. Ends(w) \/ (~At(w, "idle") /\ \E pc \in PC : Goto(w, pc))
        BY <1>8 DEF WorkerFault, Raises, TimesOut, WorkerCrash, At, PC,
                    PreflightPC, DownloadPC
  <2> QED BY <1>0, <2>1, HandMoves, HandEnds
<1>9. ASSUME NEW u \in Users, UserStep(u)
      PROVE  UNCHANGED attempt
      BY <1>9 DEF UserStep, Submit, RedditQueue, RedditCommit, RedditRollback,
                  CancelRead, CancelFails, CancelCommit, ClearHistory, workerVars
<1>10. CASE \/ IntakeStep \/ MenuStep \/ SweepStep \/ BotRestart
            \/ \E j \in Jobs : HeartbeatAges(j)
      BY <1>1, <1>10 DEF IntakeStep, Enqueue, EnqueueFails, MenuStep, Click,
           QualityPick, QualityPickFails, PickSwallowed,
           SweepStep, RecoverBegin, RecoverCommit,
           RecoverLost, RecoverAbort, RecoverJob, BotRestart, HeartbeatAges,
           workerVars
<1>11. CASE UNCHANGED vars
      BY <1>1, <1>11 DEF vars, workerVars
<1> QED BY <1>1, <1>2, <1>6, <1>7, <1>8, <1>9, <1>10, <1>11 DEF Next, WorkerStep

-----------------------------------------------------------------------------
LEMMA MediaInvInit == Init => MediaInv
<1> SUFFICES ASSUME Init
             PROVE  MediaInv
    OBVIOUS
<1>1. RowsFit /\ DraftsFit /\ TmpFits /\ IntakeFits /\ MenusFit
      BY DEF Init, RowsFit, DraftsFit, TmpFits, IntakeFits, MenusFit
<1>2. SweepFits /\ QueueFits
      BY DEF Init, SweepFits, QueueFits, EmptySweep
<1>3. HandsFit
      BY DEF Init, HandsFit, HandFits, Idle
<1> QED BY <1>1, <1>2, <1>3 DEF MediaInv

LEMMA MediaInvStep ==
  ASSUME TypeOK, DraftInv, MediaInv, [Next]_vars
  PROVE  MediaInv'
  BY RowsFitStep, DraftsFitStep, IntakeFitsStep, MenusFitStep, SweepFitsStep,
     QueueFitsStep, TmpFitsStep, HandsFitStep DEF MediaInv

LEMMA MediaInvariant == Spec => [](TypeOK /\ MediaInv)
<1>1. TypeOK /\ DraftInv /\ MediaInv /\ [Next]_vars => MediaInv'
      BY MediaInvStep
<1> QED BY <1>1, MediaInvInit, DraftInvariant, PTL DEF Spec

(* Whatever the cache, sibling attempts and stale tasks do, the file stored *)
(* with a job is of the job's URL.                                          *)
THEOREM FilesAreOfTheirUrl == Spec => []FileIsOfUrl
<1>1. TypeOK /\ MediaInv => FileIsOfUrl
      BY DEF MediaInv, RowsFit, RowIsHonest, FileIsOfUrl
<1> QED BY <1>1, MediaInvariant, PTL

(* Outside YouTube nobody can be sent, from the cache or otherwise, another *)
(* quality than the one that was asked for and that the key names.          *)
THEOREM DirectKeysAreHonest == Spec => []DirectKeyIsHonest
<1>1. TypeOK /\ MediaInv => DirectKeyIsHonest
  <2> SUFFICES ASSUME TypeOK, MediaInv, NEW j \in Jobs,
                      db[j] # None, db[j].url \notin YouTube, db[j].file # None
               PROVE  /\ db[j].file.q = db[j].fmt
                      /\ db[j].hash \in {None, <<db[j].url, db[j].file.q>>}
      BY DEF DirectKeyIsHonest
  <2>1. RowIsHonest(db[j]) /\ db[j] \in Row
        BY DEF MediaInv, RowsFit, TypeOK
  <2>2. db[j].file.q = db[j].fmt
        BY <2>1 DEF RowIsHonest
  <2>3. CASE db[j].hash # None
    <3>1. /\ db[j].hash \in Urls \X Qualities
          /\ db[j].hash[1] = db[j].url /\ db[j].hash[2] = db[j].fmt
          BY <2>1, <2>3 DEF RowIsHonest, Row
    <3> QED BY <2>2, <3>1
  <2> QED BY <2>2, <2>3
<1> QED BY <1>1, MediaInvariant, PTL
=============================================================================
