-------------------------- MODULE JobCustodyProofs --------------------------
(* Who has a job in hand.  Until the sweep or a second press of the menu    *)
(* gives a job's work to a further attempt, the job is in one hand at most: *)
(* a handler's, the queue's or an attempt's, whatever crashes, timeouts,    *)
(* restarts, rolled-back sweeps, cancellations and deletions there are.     *)
(* From that the statuses keep to JobContract.                              *)
EXTENDS JobCacheProofs, JobRecoveryProofs, FiniteSetTheorems

USE ConstantAssumption

Free(j) == NoIntake(j) /\ NoPicks(j) /\ NoQueue(j) /\ NoHands(j)

(* At most one holder, of one kind.                                         *)
One(j) ==
  /\ \A m \in intake : m.job = j =>
       /\ \A n \in intake : n.job = j => n = m
       /\ NoPicks(j) /\ NoQueue(j) /\ NoHands(j)
  /\ \A p \in picks : p[1] = j =>
       /\ \A r \in picks : r[1] = j => r = p
       /\ NoQueue(j) /\ NoHands(j)
  /\ \A i \in DOMAIN queue : queue[i].job = j =>
       /\ \A k \in DOMAIN queue : queue[k].job = j => k = i
       /\ NoHands(j)
  /\ \A v, w \in Workers : Holds(v, j) /\ Holds(w, j) => v = w

\* j may still become RUNNING or DONE.
Open(j) == db[j] # None => db[j].status \notin {"DONE", "FAILED"}

\* Whose outcome is stored, or about to be stored as FAILED.
Closing == {"announce", "failing", "cleanup"}

WaitPart(j) == Open(j) \/ (NoIntake(j) /\ NoPicks(j) /\ NoQueue(j))

HandPart(j, w) ==
  LET pc == attempt[w].pc
  IN  /\ pc # "idle"
      /\ pc \notin Closing => Open(j)
      /\ pc \in {"downloaded", "compressing"} => tmp[j] # None
HandsPart(j) == \A w \in Workers : Holds(w, j) => HandPart(j, w)

MenuPart(j) == menu[j] = "quality" /\ clicks[j] = 0 => Free(j) /\ Open(j)

(* The sweep may have read the row; it has not done anything with it.       *)
SweepPart(j) ==
  /\ \A row \in {db[j], draft[j], sweep.rows[j]} \ {None} : row.retries = 0
  /\ j \notin sweep.dirty /\ j \notin sweep.dead

Custody(j) ==
  One(j) /\ WaitPart(j) /\ HandsPart(j) /\ MenuPart(j) /\ SweepPart(j)

CustodyInv == \A j \in Jobs : HandedOutAgain(j) \/ Custody(j)

-----------------------------------------------------------------------------
(* A step that leaves j alone: nobody takes it in hand, and what is known   *)
(* of it stays, but for what a cancellation or a deletion does to its row.  *)
Shrinks(j) ==
  /\ \A m \in intake' : m.job = j => m \in intake
  /\ \A p \in picks' : p[1] = j => p \in picks
  /\ \E d \in {0, 1} : \A i \in DOMAIN queue' :
       queue'[i].job = j => i + d \in DOMAIN queue /\ queue'[i] = queue[i + d]
  /\ \A w \in Workers : Holds(w, j)' => attempt'[w] = attempt[w]

RowKept(j) ==
  /\ db'[j] # None =>
       /\ db[j] # None
       /\ db'[j].retries = db[j].retries
       /\ db'[j].status \in {"DONE", "FAILED"} => db[j].status \in {"DONE", "FAILED"}
  /\ draft'[j] \in {draft[j], None}

\* The sweep may read j's row.
SweepKept(j) ==
  /\ sweep'.rows[j] \in {sweep.rows[j], db[j], None}
  /\ j \in sweep'.dirty => j \in sweep.dirty
  /\ j \in sweep'.dead => j \in sweep.dead

LeftAlone(j) ==
  /\ Shrinks(j) /\ RowKept(j) /\ SweepKept(j)
  /\ menu'[j] = "quality" => menu[j] = "quality"
  /\ clicks'[j] = clicks[j]
  /\ tmp'[j] = tmp[j]

LEMMA FreeStays ==
  ASSUME NEW j \in Jobs, Shrinks(j), Free(j)
  PROVE  Free(j)'
<1>1. NoIntake(j)' /\ NoPicks(j)'
      BY DEF Shrinks, Free, NoIntake, NoPicks
<1>2. NoQueue(j)'
      BY DEF Shrinks, Free, NoQueue
<1>3. NoHands(j)'
      BY DEF Shrinks, Free, NoHands, Holds
<1> QED BY <1>1, <1>2, <1>3 DEF Free

LEMMA OneStays ==
  ASSUME TypeOK', NEW j \in Jobs, Shrinks(j), One(j)
  PROVE  One(j)'
<1>1. /\ NoPicks(j) => NoPicks(j)'
      /\ NoQueue(j) => NoQueue(j)'
      /\ NoHands(j) => NoHands(j)'
      BY DEF Shrinks, NoPicks, NoQueue, NoHands, Holds
<1>2. \A m \in intake' : m.job = j =>
         /\ \A n \in intake' : n.job = j => n = m
         /\ NoPicks(j)' /\ NoQueue(j)' /\ NoHands(j)'
      BY <1>1 DEF One, Shrinks
<1>3. \A p \in picks' : p[1] = j =>
         /\ \A r \in picks' : r[1] = j => r = p
         /\ NoQueue(j)' /\ NoHands(j)'
      BY <1>1 DEF One, Shrinks
<1>4. ASSUME NEW i \in DOMAIN queue', queue'[i].job = j
      PROVE  /\ \A k \in DOMAIN queue' : queue'[k].job = j => k = i
             /\ NoHands(j)'
  <2>1. DOMAIN queue' \subseteq Nat
        BY DEF TypeOK
  <2>2. PICK d \in {0, 1} : \A k \in DOMAIN queue' :
          queue'[k].job = j => k + d \in DOMAIN queue /\ queue'[k] = queue[k + d]
        BY DEF Shrinks
  <2>3. i + d \in DOMAIN queue /\ queue[i + d].job = j
        BY <1>4, <2>2
  <2>4. \A k \in DOMAIN queue' : queue'[k].job = j => k + d = i + d
        BY <2>2, <2>3 DEF One
  <2>5. NoHands(j)
        BY <2>3 DEF One
  <2> QED BY <1>1, <2>1, <2>4, <2>5
<1>5. \A v, w \in Workers : Holds(v, j)' /\ Holds(w, j)' => v = w
      BY DEF One, Shrinks, Holds
<1> QED BY <1>2, <1>3, <1>4, <1>5 DEF One

LEMMA LeftAloneKeeps ==
  ASSUME TypeOK, TypeOK', NEW j \in Jobs, LeftAlone(j), Custody(j)
  PROVE  Custody(j)'
<1> USE DEF LeftAlone
<1>1. One(j)'
      BY OneStays DEF Custody
<1>2. (Open(j) => Open(j)') /\ (Free(j) => Free(j)')
      BY FreeStays DEF RowKept, Open
<1>3. WaitPart(j)'
  <2>1. /\ NoIntake(j) => NoIntake(j)'
        /\ NoPicks(j) => NoPicks(j)'
        /\ NoQueue(j) => NoQueue(j)'
        BY DEF Shrinks, NoIntake, NoPicks, NoQueue
  <2> QED BY <1>2, <2>1 DEF Custody, WaitPart
<1>4. HandsPart(j)'
      BY <1>2 DEF Custody, HandsPart, HandPart, Holds, Shrinks
<1>5. MenuPart(j)'
      BY <1>2 DEF Custody, MenuPart
<1>6. SweepPart(j)'
      BY DEF Custody, SweepPart, RowKept, SweepKept
<1> QED BY <1>1, <1>3, <1>4, <1>5, <1>6 DEF Custody

\* Nobody's hands change.
LEMMA SameQueue ==
  ASSUME TypeOK, UNCHANGED queue
  PROVE  \A i \in DOMAIN queue' : i + 0 \in DOMAIN queue /\ queue'[i] = queue[i + 0]
<1>1. queue \in Seq(Message)
      BY DEF TypeOK
<1>2. DOMAIN queue \subseteq Nat
      BY <1>1
<1> QED BY <1>2

LEMMA NobodyTakes ==
  ASSUME TypeOK, UNCHANGED <<queue, attempt>>,
         intake' \subseteq intake, picks' \subseteq picks
  PROVE  \A k \in Jobs : Shrinks(k)
  BY SameQueue DEF Shrinks

-----------------------------------------------------------------------------
(* A step of an attempt that has j in hand: it stays with j or ends.        *)
HandMoved(w, j) ==
  LET a == attempt'[w]
  IN  \/ a = Idle
      \/ /\ a.pc # "idle" /\ a.msg = attempt[w].msg
         /\ HandPart(j, w) => HandPart(j, w)'

RowMoved(j) ==
  db'[j] # None => db[j] # None /\ db'[j].retries = db[j].retries

WorkOn(w, j) ==
  /\ UNCHANGED <<intake, draft, picks, clicks, sweep, queue>>
  /\ \A k \in Jobs : menu'[k] = "quality" => menu[k] = "quality"
  /\ \A v \in Workers : v # w => attempt'[v] = attempt[v]
  /\ \A k \in Jobs : k # j => db'[k] = db[k] /\ tmp'[k] = tmp[k]
  /\ RowMoved(j) /\ HandMoved(w, j)

LEMMA WorkKeepsOwn ==
  ASSUME TypeOK, NEW w \in Workers, NEW j \in Jobs, Holds(w, j),
         WorkOn(w, j), Custody(j)
  PROVE  Custody(j)'
<1> USE DEF WorkOn
<1>1. /\ NoIntake(j) /\ NoPicks(j) /\ NoQueue(j)
      /\ \A v \in Workers : Holds(v, j) => v = w
      BY DEF Custody, One, NoIntake, NoPicks, NoQueue, NoHands
<1>2. /\ NoIntake(j)' /\ NoPicks(j)' /\ NoQueue(j)'
      /\ \A v \in Workers : Holds(v, j)' => v = w
      BY <1>1 DEF NoIntake, NoPicks, NoQueue, Holds
<1>3. One(j)'
      BY <1>2 DEF One, NoIntake, NoPicks, NoQueue
<1>4. WaitPart(j)'
      BY <1>2 DEF WaitPart
<1>5. HandsPart(j)'
  <2> SUFFICES ASSUME Holds(w, j)'
               PROVE  HandPart(j, w)'
      BY <1>2 DEF HandsPart
  <2>1. attempt'[w] # Idle /\ HandPart(j, w)
        BY DEF Holds, Custody, HandsPart
  <2> QED BY <2>1 DEF HandMoved
<1>6. MenuPart(j)'
      BY DEF Custody, MenuPart, Free, NoHands
<1>7. SweepPart(j)'
      BY DEF Custody, SweepPart, RowMoved
<1> QED BY <1>3, <1>4, <1>5, <1>6, <1>7 DEF Custody

LEMMA WorkLeavesAlone ==
  ASSUME TypeOK, NEW w \in Workers, NEW j \in Jobs, Holds(w, j),
         WorkOn(w, j), NEW k \in Jobs, k # j
  PROVE  LeftAlone(k)
<1> USE DEF WorkOn
<1>1. ~Holds(w, k)'
      BY DEF Holds, HandMoved
<1>2. Shrinks(k)
      BY <1>1, SameQueue DEF Shrinks
<1> QED BY <1>2 DEF LeftAlone, RowKept, SweepKept

LEMMA WorkKeeps ==
  ASSUME TypeOK, TypeOK', NEW w \in Workers, NEW j \in Jobs, Holds(w, j),
         WorkOn(w, j), NEW k \in Jobs, Custody(k)
  PROVE  Custody(k)'
  BY WorkKeepsOwn, WorkLeavesAlone, LeftAloneKeeps

(* Of the worker steps all but three are such steps.                        *)
LEMMA Busy ==
  ASSUME TypeOK, NEW w \in Workers, attempt[w].pc # "idle"
  PROVE  Holds(w, attempt[w].msg.job) /\ attempt[w].msg.job \in Jobs
<1>1. attempt[w] # Idle
      BY DEF Idle
<1> QED BY <1>1, InHand DEF Holds, At

LEMMA GotoMoves ==
  ASSUME TypeOK, NEW w \in Workers, NEW pc, pc # "idle", Goto(w, pc)
  PROVE  /\ attempt'[w].pc = pc /\ attempt'[w].msg = attempt[w].msg
         /\ \A v \in Workers : v # w => attempt'[v] = attempt[v]
<1>1. attempt \in [Workers -> Attempt]
      BY DEF TypeOK
<1> QED BY <1>1 DEF Goto, Attempt

LEMMA EndsMoves ==
  ASSUME TypeOK, NEW w \in Workers, Ends(w)
  PROVE  /\ attempt'[w] = Idle
         /\ \A v \in Workers : v # w => attempt'[v] = attempt[v]
<1>1. attempt \in [Workers -> Attempt]
      BY DEF TypeOK
<1> QED BY <1>1 DEF Ends

LEMMA UpdateMoves ==
  ASSUME TypeOK, NEW j \in Jobs, NEW row, UpdateRow(j, row),
         db[j] # None => row.retries = db[j].retries
  PROVE  /\ RowMoved(j)
         /\ \A k \in Jobs : k # j => db'[k] = db[k]
         /\ db[j] # None => db'[j] = row
         /\ db[j] = None => db'[j] = None
  BY DEF TypeOK, UpdateRow, RowMoved

LEMMA PreflightWork ==
  ASSUME TypeOK, NEW w \in Workers, PreflightStep(w), ~AskQuality(w), ~Chain(w),
         NEW j \in Jobs, j = attempt[w].msg.job
  PROVE  WorkOn(w, j)
<1> DEFINE m == attempt[w].msg
<1> USE DEF WorkOn, botVars, Closing
<1>1. attempt \in [Workers -> Attempt] /\ (db[j] # None => db[j] \in Row)
      BY DEF TypeOK
<1>2. CASE UNCHANGED db
  <2>1. RowMoved(j) /\ (Open(j) => Open(j)')
        BY <1>2 DEF RowMoved, Open
  <2>2. CASE CacheHit(w)
    <3>1. PICK f : attempt' = [attempt EXCEPT ![w].pc = "send", ![w].file = f]
          BY <2>2 DEF CacheHit
    <3>2. /\ attempt'[w].pc = "send" /\ attempt'[w].msg = m
          /\ \A v \in Workers : v # w => attempt'[v] = attempt[v]
          BY <1>1, <3>1 DEF Attempt
    <3> QED BY <1>2, <2>1, <2>2, <3>2 DEF CacheHit, At, HandMoved, HandPart
  <2>3. CASE CacheMiss(w) \/ SendCached(w)
        BY <1>2, <2>1, <2>3, GotoMoves DEF CacheMiss, SendCached, At, HandMoved, HandPart
  <2>4. CASE SelectFails(w)
        BY <1>2, <2>1, <2>4, EndsMoves DEF SelectFails, HandMoved, HandPart
  <2>5. CASE WarnLarge(w)
    <3>1. \A k \in Jobs : menu'[k] = "quality" => menu[k] = "quality"
          BY <2>5 DEF WarnLarge, TypeOK
    <3> QED BY <1>2, <2>1, <2>5, <3>1, EndsMoves DEF WarnLarge, HandMoved, HandPart
  <2>6. CASE RecordCached(w) \/ FetchFails(w)
        BY <1>2, <2>1, <2>6, EndsMoves DEF RecordCached, FetchFails, HandMoved, HandPart
  <2>7. CASE Fetched(w)
        BY <1>2, <2>1, <2>7, GotoMoves DEF Fetched, At, HandMoved, HandPart
  <2> QED BY <2>2, <2>3, <2>4, <2>5, <2>6, <2>7 DEF PreflightStep
<1>3. CASE RecordCached(w)
  <2> DEFINE new == [db[j] EXCEPT !.status = "DONE", !.file = attempt[w].file]
  <2>1. UpdateRow(j, new)
        BY <1>3 DEF RecordCached
  <2>2. db[j] # None => new.retries = db[j].retries
        BY <1>1 DEF Row
  <2> HIDE DEF new
  <2>3. RowMoved(j) /\ \A k \in Jobs : k # j => db'[k] = db[k]
        BY <2>1, <2>2, UpdateMoves
  <2> QED BY <1>3, <2>3, EndsMoves DEF RecordCached, HandMoved, HandPart
<1>4. CASE FetchFails(w)
  <2> DEFINE new == [db[j] EXCEPT !.status = "FAILED"]
  <2>1. UpdateRow(j, new)
        BY <1>4 DEF FetchFails, MarkFailed
  <2>2. db[j] # None => new.retries = db[j].retries
        BY <1>1 DEF Row
  <2> HIDE DEF new
  <2>3. RowMoved(j) /\ \A k \in Jobs : k # j => db'[k] = db[k]
        BY <2>1, <2>2, UpdateMoves
  <2> QED BY <1>4, <2>3, EndsMoves DEF FetchFails, HandMoved, HandPart
<1>5. CASE Fetched(w)
  <2> DEFINE new == [db[j] EXCEPT !.status = "RUNNING", !.hash = Key(m)]
  <2>1. UpdateRow(j, new)
        BY <1>5 DEF Fetched
  <2>2. db[j] # None => new.retries = db[j].retries /\ new.status = "RUNNING"
        BY <1>1 DEF Row
  <2> HIDE DEF new
  <2>3. /\ RowMoved(j) /\ \A k \in Jobs : k # j => db'[k] = db[k]
        /\ db'[j] # None => db'[j].status = "RUNNING"
        BY <2>1, <2>2, UpdateMoves
  <2> QED BY <1>5, <2>3, GotoMoves DEF Fetched, HandMoved, HandPart, Open
<1>6. \/ UNCHANGED db \/ RecordCached(w) \/ FetchFails(w) \/ Fetched(w)
      BY DEF PreflightStep, CacheHit, CacheMiss, SendCached, SelectFails, WarnLarge
<1> QED BY <1>2, <1>3, <1>4, <1>5, <1>6

\* The steps of the download that write a row.
LEMMA DownloadWork ==
  ASSUME TypeOK, NEW w \in Workers, DownloadStep(w) \/ WorkerFault(w),
         attempt[w].pc # "idle",
         NEW j \in Jobs, j = attempt[w].msg.job
  PROVE  WorkOn(w, j)
<1> DEFINE m == attempt[w].msg
<1> USE DEF WorkOn, botVars
<1>1. /\ attempt \in [Workers -> Attempt] /\ (db[j] # None => db[j] \in Row)
      /\ tmp \in [Jobs -> File \cup {None}] /\ m \in Message
      BY DEF TypeOK
<1>2. CASE UNCHANGED db
  <2>1. RowMoved(j) /\ (Open(j) => Open(j)')
        BY <1>2 DEF RowMoved, Open
  <2>2. CASE DownloadFails(w) \/ FileGone(w) \/ Announce(w)
        BY <1>2, <2>1, <2>2, GotoMoves DEF DownloadFails, FileGone, Announce,
           HandMoved, HandPart, Closing
  <2>3. CASE Download(w)
    <3>1. tmp'[j] # None /\ \A k \in Jobs : k # j => tmp'[k] = tmp[k]
          BY <1>1, <2>3, NoneAssumption DEF Download, Message, File
    <3> QED BY <1>2, <2>1, <2>3, <3>1, GotoMoves DEF Download, At, HandMoved,
               HandPart, Closing
  <2>4. CASE UploadNothing(w)
        BY <1>2, <2>1, <2>4, GotoMoves DEF UploadNothing, At, HandMoved,
           HandPart, Closing
  <2>5. CASE Upload(w)
    <3>1. /\ attempt'[w].pc = "uploaded" /\ attempt'[w].msg = m
          /\ \A v \in Workers : v # w => attempt'[v] = attempt[v]
          BY <1>1, <2>5 DEF Upload, Attempt
    <3> QED BY <1>2, <2>1, <2>5, <3>1 DEF Upload, At, HandMoved, HandPart, Closing
  <2>6. CASE Cleanup(w)
    <3>1. \A k \in Jobs : k # j => tmp'[k] = tmp[k]
          BY <1>1, <2>6 DEF Cleanup
    <3> QED BY <1>2, <2>1, <2>6, <3>1, EndsMoves DEF Cleanup, HandMoved, HandPart
  <2>7. CASE WorkerFault(w)
    <3>1. \/ Ends(w)
          \/ \E pc \in {"failing", "cleanup"} : Goto(w, pc)
          BY <2>7 DEF WorkerFault, Raises, TimesOut, WorkerCrash
    <3>2. UNCHANGED <<botVars, menu, queue, tmp>>
          BY <2>7 DEF WorkerFault, Raises, TimesOut, WorkerCrash
    <3>3. HandMoved(w, j) /\ \A v \in Workers : v # w => attempt'[v] = attempt[v]
          BY <2>1, <3>1, GotoMoves, EndsMoves DEF HandMoved, HandPart, Closing
    <3> QED BY <1>2, <2>1, <3>2, <3>3
  <2>8. CASE Claim(w) \/ Compress(w) \/ RecordDone(w) \/ RecordFailed(w)
    <3>1. UNCHANGED <<botVars, menu, queue, tmp>>
          BY <2>8 DEF Claim, Compress, RecordDone, RecordFailed
    <3>2. HandMoved(w, j) /\ \A v \in Workers : v # w => attempt'[v] = attempt[v]
          BY <2>1, <2>8, GotoMoves DEF Claim, Compress, RecordDone, RecordFailed,
             At, HandMoved, HandPart, Closing
    <3> QED BY <1>2, <2>1, <3>1, <3>2
  <2> QED BY <2>2, <2>3, <2>4, <2>5, <2>6, <2>7, <2>8 DEF DownloadStep
<1>3. CASE Claim(w) \/ Compress(w)
  <2> DEFINE new == [db[j] EXCEPT !.status = "RUNNING", !.hb = "fresh"]
  <2>1. UpdateRow(j, new)
        BY <1>3 DEF Claim, Compress
  <2>2. db[j] # None => new.retries = db[j].retries /\ new.status = "RUNNING"
        BY <1>1 DEF Row
  <2> HIDE DEF new
  <2>3. /\ RowMoved(j)
        /\ \A k \in Jobs : k # j => db'[k] = db[k]
        /\ db'[j] # None => db'[j].status = "RUNNING"
        BY <2>1, <2>2, UpdateMoves
  <2> QED BY <1>3, <2>3, GotoMoves DEF Claim, Compress, At, HandMoved, HandPart, Open
<1>4. CASE RecordDone(w)
  <2> DEFINE new == [db[j] EXCEPT !.status = "DONE", !.file = attempt[w].file]
  <2>1. UpdateRow(j, new)
        BY <1>4 DEF RecordDone
  <2>2. db[j] # None => new.retries = db[j].retries
        BY <1>1 DEF Row
  <2> HIDE DEF new
  <2>3. RowMoved(j) /\ \A k \in Jobs : k # j => db'[k] = db[k]
        BY <2>1, <2>2, UpdateMoves
  <2> QED BY <1>4, <2>3, GotoMoves DEF RecordDone, HandMoved, HandPart, Closing
<1>5. CASE RecordFailed(w)
  <2> DEFINE new == [db[j] EXCEPT !.status = "FAILED"]
  <2>1. UpdateRow(j, new)
        BY <1>5 DEF RecordFailed, MarkFailed
  <2>2. db[j] # None => new.retries = db[j].retries
        BY <1>1 DEF Row
  <2> HIDE DEF new
  <2>3. RowMoved(j) /\ \A k \in Jobs : k # j => db'[k] = db[k]
        BY <2>1, <2>2, UpdateMoves
  <2> QED BY <1>5, <2>3, GotoMoves DEF RecordFailed, HandMoved, HandPart, Closing
<1>6. \/ UNCHANGED db \/ Claim(w) \/ Compress(w) \/ RecordDone(w) \/ RecordFailed(w)
      BY DEF DownloadStep, Download, DownloadFails, Upload, UploadNothing, FileGone,
             Announce, Cleanup, WorkerFault, Raises, TimesOut, WorkerCrash
<1> QED BY <1>2, <1>3, <1>4, <1>5, <1>6

-----------------------------------------------------------------------------
(* The steps that hand a job on.                                            *)
LEMMA AppendLeaves ==
  ASSUME TypeOK, NEW j \in Jobs, NEW m \in Message, m.job # j, queue' = Append(queue, m)
  PROVE  \A i \in DOMAIN queue' :
           queue'[i].job = j => i + 0 \in DOMAIN queue /\ queue'[i] = queue[i + 0]
  BY DEF TypeOK

LEMMA TailLeaves ==
  ASSUME TypeOK, queue # << >>, queue' = Tail(queue)
  PROVE  \A i \in DOMAIN queue' : i + 1 \in DOMAIN queue /\ queue'[i] = queue[i + 1]
  BY DEF TypeOK

\* j's only holder is now the message m, the last of the queue.
LEMMA Queued ==
  ASSUME TypeOK, NEW j \in Jobs, NEW m \in Message, m.job = j,
         queue' = Append(queue, m), NoQueue(j),
         NoIntake(j)', NoPicks(j)', NoHands(j)', Open(j)'
  PROVE  One(j)' /\ WaitPart(j)' /\ HandsPart(j)'
<1>1. \A i \in DOMAIN queue' : queue'[i].job = j => i = Len(queue) + 1 /\ queue'[i] = m
      BY DEF TypeOK, NoQueue
<1>2. One(j)'
      BY <1>1 DEF One, NoIntake, NoPicks, NoHands
<1> QED BY <1>2 DEF WaitPart, HandsPart, NoHands

LEMMA EnqueueKeeps ==
  ASSUME TypeOK, TypeOK', NEW m \in intake, Enqueue(m) \/ EnqueueFails(m),
         NEW k \in Jobs, Custody(k)
  PROVE  Custody(k)'
<1>0. m \in Message /\ intake' = intake \ {m}
      BY DEF TypeOK, Enqueue, EnqueueFails
<1>1. /\ UNCHANGED <<created, db, draft, menu, picks, clicks, sweep, attempt, tmp>>
      /\ queue' = Append(queue, m) \/ queue' = queue
      BY DEF Enqueue, EnqueueFails, workerVars
<1>2. CASE queue' = queue \/ m.job # k
  <2>1. Shrinks(k)
        BY <1>0, <1>1, <1>2, SameQueue, AppendLeaves DEF Shrinks, Holds
  <2>2. LeftAlone(k)
        BY <1>1, <2>1 DEF LeftAlone, RowKept, SweepKept
  <2> QED BY <2>2, LeftAloneKeeps
<1>3. CASE queue' = Append(queue, m) /\ m.job = k
  <2>1. /\ NoPicks(k) /\ NoQueue(k) /\ NoHands(k)
        /\ \A n \in intake : n.job = k => n = m
        /\ Open(k) /\ ~Free(k)
        BY <1>3 DEF Custody, One, WaitPart, Free, NoIntake
  <2>2. NoIntake(k)' /\ NoPicks(k)' /\ NoHands(k)' /\ Open(k)'
        BY <1>0, <1>1, <2>1 DEF NoIntake, NoPicks, NoHands, Holds, Open
  <2>3. One(k)' /\ WaitPart(k)' /\ HandsPart(k)'
        BY <1>0, <1>3, <2>1, <2>2, Queued
  <2>4. SweepPart(k)' /\ MenuPart(k)'
        BY <1>1, <2>1 DEF Custody, SweepPart, MenuPart
  <2> QED BY <2>3, <2>4 DEF Custody
<1> QED BY <1>1, <1>2, <1>3

\* Taken from the queue by a worker.
LEMMA ReceiveKeeps ==
  ASSUME TypeOK, TypeOK', NEW w \in Workers, Receive(w), NEW k \in Jobs, Custody(k)
  PROVE  Custody(k)'
<1>1. PICK m \in Message : m = Head(queue) /\ m = queue[1] /\ 1 \in DOMAIN queue
      BY DEF Receive, TypeOK
<1>2. /\ UNCHANGED <<created, intake, db, draft, menu, picks, clicks, sweep, tmp>>
      /\ queue # << >> /\ queue' = Tail(queue)
      /\ \A v \in Workers : v # w => attempt'[v] = attempt[v]
      /\ attempt'[w].msg = m /\ attempt'[w].pc \in {"cache", "claim"}
      BY <1>1 DEF Receive, botVars, TypeOK
<1>3. \A i \in DOMAIN queue' : i + 1 \in DOMAIN queue /\ queue'[i] = queue[i + 1]
      BY <1>2, TailLeaves
<1>4. CASE m.job # k
  <2>1. Shrinks(k)
        BY <1>2, <1>3, <1>4 DEF Shrinks, Holds
  <2>2. LeftAlone(k)
        BY <1>2, <2>1 DEF LeftAlone, RowKept, SweepKept
  <2> QED BY <2>2, LeftAloneKeeps
<1>5. CASE m.job = k
  <2>1. /\ NoIntake(k) /\ NoPicks(k) /\ NoHands(k)
        /\ \A i \in DOMAIN queue : queue[i].job = k => i = 1
        /\ Open(k) /\ ~Free(k)
        BY <1>1, <1>5 DEF Custody, One, WaitPart, Free, NoIntake, NoPicks, NoQueue
  <2>2. NoIntake(k)' /\ NoPicks(k)' /\ \A v \in Workers : Holds(v, k)' => v = w
        BY <1>2, <2>1 DEF NoIntake, NoPicks, NoHands, Holds
  <2>3. NoQueue(k)'
    <3>1. \A i \in DOMAIN queue' : i \in Nat /\ i >= 1
          BY DEF TypeOK
    <3> QED BY <1>3, <2>1, <3>1 DEF NoQueue
  <2>4. Open(k)'
        BY <1>2, <2>1 DEF Open
  <2>5. One(k)' /\ WaitPart(k)'
        BY <2>2, <2>3 DEF One, WaitPart, NoIntake, NoPicks, NoQueue
  <2>6. HandsPart(k)'
        BY <1>2, <2>2, <2>4 DEF HandsPart, HandPart
  <2>7. SweepPart(k)' /\ MenuPart(k)'
        BY <1>2, <2>1 DEF Custody, SweepPart, MenuPart
  <2> QED BY <2>5, <2>6, <2>7 DEF Custody
<1> QED BY <1>4, <1>5

\* A preflight ends with a question, or hands on to a download.
LEMMA RouteKeeps ==
  ASSUME TypeOK, TypeOK', NEW w \in Workers, AskQuality(w) \/ Chain(w),
         NEW k \in Jobs, Custody(k)
  PROVE  Custody(k)'
<1>1. attempt[w].pc = "route"
      BY DEF AskQuality, Chain, At
<1>2. PICK m \in Message : m = attempt[w].msg /\ m.job \in Jobs /\ Holds(w, m.job)
      BY <1>1, Busy DEF TypeOK
<1> DEFINE n == [m EXCEPT !.task = "download"]
<1>3. n \in Message /\ n.job = m.job
      BY DEF Message
<1>4. /\ UNCHANGED <<created, intake, db, draft, picks, clicks, sweep, tmp>>
      /\ attempt'[w] = Idle
      /\ \A v \in Workers : v # w => attempt'[v] = attempt[v]
      BY EndsMoves DEF AskQuality, Chain, botVars
<1>5. \/ UNCHANGED queue /\ menu' = [menu EXCEPT ![m.job] = "quality"]
      \/ UNCHANGED menu /\ queue' = Append(queue, n)
      BY <1>2 DEF AskQuality, Chain, Chained
<1> HIDE DEF n
<1>6. \A v \in Workers, j \in Jobs : Holds(v, j)' => v # w /\ Holds(v, j)
      BY <1>4 DEF Holds
<1>7. CASE m.job # k
  <2>1. Shrinks(k)
        BY <1>3, <1>4, <1>5, <1>6, <1>7, SameQueue, AppendLeaves DEF Shrinks
  <2>2. menu'[k] = menu[k]
        BY <1>5, <1>7 DEF TypeOK
  <2>3. LeftAlone(k)
        BY <1>4, <2>1, <2>2 DEF LeftAlone, RowKept, SweepKept
  <2> QED BY <2>3, LeftAloneKeeps
<1>8. CASE m.job = k
  <2>1. /\ NoIntake(k) /\ NoPicks(k) /\ NoQueue(k)
        /\ \A v \in Workers : Holds(v, k) => v = w
        /\ HandPart(k, w) /\ ~Free(k)
        BY <1>2, <1>8 DEF Custody, One, HandsPart, Free, NoIntake, NoPicks, NoQueue, NoHands
  <2>2. Open(k)'
        BY <1>1, <1>4, <2>1 DEF HandPart, Closing, Open
  <2>3. NoIntake(k)' /\ NoPicks(k)' /\ NoHands(k)'
        BY <1>4, <1>6, <2>1 DEF NoIntake, NoPicks, NoHands
  <2>4. SweepPart(k)'
        BY <1>4 DEF Custody, SweepPart
  <2>5. CASE UNCHANGED queue
    <3>1. Free(k)'
          BY <2>1, <2>3, <2>5 DEF Free, NoQueue
    <3>2. One(k)' /\ WaitPart(k)' /\ HandsPart(k)' /\ MenuPart(k)'
          BY <2>2, <3>1 DEF One, WaitPart, HandsPart, MenuPart, Free, NoIntake, NoPicks,
                            NoQueue, NoHands
    <3> QED BY <2>4, <3>2 DEF Custody
  <2>6. CASE UNCHANGED menu /\ queue' = Append(queue, n)
    <3>1. One(k)' /\ WaitPart(k)' /\ HandsPart(k)'
          BY <1>3, <1>8, <2>1, <2>2, <2>3, <2>6, Queued
    <3>2. MenuPart(k)'
          BY <1>4, <2>1, <2>6 DEF Custody, MenuPart
    <3> QED BY <2>4, <3>1, <3>2 DEF Custody
  <2> QED BY <1>5, <2>5, <2>6
<1> QED BY <1>7, <1>8

LEMMA WorkerKeeps ==
  ASSUME TypeOK, TypeOK', NEW w \in Workers, WorkerStep(w) \/ WorkerFault(w),
         NEW k \in Jobs, Custody(k)
  PROVE  Custody(k)'
<1>1. CASE Receive(w)
      BY <1>1, ReceiveKeeps
<1>2. CASE AskQuality(w) \/ Chain(w)
      BY <1>2, RouteKeeps
<1>3. CASE ~Receive(w) /\ ~AskQuality(w) /\ ~Chain(w)
  <2>1. attempt[w].pc # "idle"
    <3>1. CASE PreflightStep(w)
          BY <1>3, <3>1 DEF PreflightStep, CacheHit, CacheMiss, SendCached, RecordCached,
             Fetched, FetchFails, SelectFails, WarnLarge, At
    <3>2. CASE DownloadStep(w)
          BY <3>2 DEF DownloadStep, Claim, Download, DownloadFails, Compress, Upload,
             UploadNothing, FileGone, RecordDone, Announce, RecordFailed, Cleanup, At
    <3>3. CASE WorkerFault(w)
          BY <3>3 DEF WorkerFault, Raises, TimesOut, WorkerCrash, PreflightPC,
                      DownloadPC, At
    <3> QED BY <1>3, <3>1, <3>2, <3>3 DEF WorkerStep
  <2>2. PICK j \in Jobs : j = attempt[w].msg.job /\ Holds(w, j)
        BY <2>1, Busy
  <2>3. WorkOn(w, j)
        BY <1>3, <2>1, <2>2, PreflightWork, DownloadWork DEF WorkerStep
  <2> QED BY <2>2, <2>3, WorkKeeps
<1> QED BY <1>1, <1>2, <1>3

-----------------------------------------------------------------------------
(* The steps of the bot.                                                    *)
\* A number that is not handed out has nothing.
LEMMA Unborn ==
  ASSUME TypeOK, DraftInv, MediaInv, NEW j \in Jobs, j > created, Custody(j)
  PROVE  /\ Free(j) /\ db[j] = None /\ draft[j] = None
         /\ sweep.rows[j] = None /\ j \notin sweep.dirty /\ j \notin sweep.dead
         /\ menu[j] # "quality"
<1>1. created \in Nat /\ j \in Nat /\ ~(j <= created)
      BY DEF TypeOK, Jobs
<1>2. db[j] = None /\ draft[j] = None
      BY <1>1 DEF DraftInv
<1>3. NoIntake(j) /\ NoQueue(j) /\ NoHands(j)
  <2>1. \A w \in Workers : Holds(w, j) => attempt[w].pc # "idle"
        BY DEF Custody, HandsPart, HandPart
  <2> QED BY <1>1, <2>1 DEF MediaInv, IntakeFits, QueueFits, HandsFit, HandFits, Fits,
                            NoIntake, NoQueue, NoHands, Holds
<1>4. NoPicks(j)
  <2>1. \A p \in picks : p[1] \in Jobs /\ p[2] \in Qualities /\ p = <<p[1], p[2]>>
        BY DEF TypeOK
  <2> QED BY <1>1, <2>1 DEF MediaInv, MenusFit, MayAsk, NoPicks
<1>5. menu[j] # "quality" /\ sweep.rows[j] = None
      BY <1>1 DEF MediaInv, MenusFit, MayAsk, SweepFits, Fits
<1>6. j \notin sweep.dirty /\ j \notin sweep.dead
      BY DEF Custody, SweepPart
<1> QED BY <1>2, <1>3, <1>4, <1>5, <1>6 DEF Free

LEMMA SubmitKeeps ==
  ASSUME TypeOK, TypeOK', DraftInv, MediaInv,
         NEW u \in Users, NEW url \in Urls, NEW pref \in Qualities, Submit(u, url, pref),
         NEW k \in Jobs, Custody(k)
  PROVE  Custody(k)'
<1>1. PICK q \in Qualities : q = IF url \in YouTubeLinks THEN Best ELSE pref
      BY ConstantAssumption
<1>2. PICK j \in Jobs : j = created + 1 /\ j > created
      BY DEF Submit, TypeOK, Jobs, ConstantAssumption
<1>3. PICK m : m = Preflight(j, url, q)
      OBVIOUS
<1>4. /\ db' = [db EXCEPT ![j] = NewRow(u, url, q)]
      /\ intake' = intake \cup {m} /\ m.job = j
      /\ UNCHANGED <<draft, menu, picks, clicks, sweep, queue, attempt, tmp>>
      BY <1>1, <1>2, <1>3 DEF Submit, Preflight, workerVars
<1>5. CASE k # j
  <2>1. Shrinks(k)
        BY <1>4, <1>5, SameQueue DEF Shrinks, Holds
  <2>2. LeftAlone(k)
        BY <1>4, <1>5, <2>1 DEF LeftAlone, RowKept, SweepKept, TypeOK
  <2> QED BY <2>2, LeftAloneKeeps
<1>6. CASE k = j
  <2>1. /\ Free(j) /\ draft[j] = None /\ menu[j] # "quality"
        /\ sweep.rows[j] = None /\ j \notin sweep.dirty /\ j \notin sweep.dead
        BY <1>2, <1>6, Unborn
  <2>2. db'[j] = NewRow(u, url, q)
        BY <1>4 DEF TypeOK
  <2>3. /\ \A i \in intake' : i.job = j => i = m
        /\ NoPicks(j)' /\ NoQueue(j)' /\ NoHands(j)'
        BY <1>4, <2>1 DEF Free, NoIntake, NoPicks, NoQueue, NoHands, Holds
  <2>4. One(j)' /\ HandsPart(j)'
        BY <2>3 DEF One, HandsPart, NoPicks, NoQueue, NoHands
  <2>5. WaitPart(j)' /\ SweepPart(j)' /\ MenuPart(j)'
        BY <1>4, <2>1, <2>2 DEF WaitPart, Open, SweepPart, MenuPart, NewRow
  <2> QED BY <1>6, <2>4, <2>5 DEF Custody
<1> QED BY <1>5, <1>6

LEMMA RedditQueueKeeps ==
  ASSUME TypeOK, TypeOK', DraftInv, MediaInv,
         NEW u \in Users, NEW url \in Urls, NEW q \in Qualities, RedditQueue(u, url, q),
         NEW k \in Jobs, Custody(k)
  PROVE  Custody(k)'
<1>1. PICK j \in Jobs : j = created + 1 /\ j > created
      BY DEF RedditQueue, TypeOK, Jobs, ConstantAssumption
<1>2. PICK m \in Message : m = Preflight(j, url, q)
      BY DEF Preflight, Message
<1>3. /\ draft' = [draft EXCEPT ![j] = NewRow(u, url, q)]
      /\ queue' = Append(queue, m) /\ m.job = j
      /\ UNCHANGED <<db, intake, menu, picks, clicks, sweep, attempt, tmp>>
      BY <1>1, <1>2 DEF RedditQueue, Preflight, workerVars
<1>4. CASE k # j
  <2>1. Shrinks(k)
        BY <1>3, <1>4, AppendLeaves DEF Shrinks, Holds
  <2>2. LeftAlone(k)
        BY <1>3, <1>4, <2>1 DEF LeftAlone, RowKept, SweepKept, TypeOK
  <2> QED BY <2>2, LeftAloneKeeps
<1>5. CASE k = j
  <2>1. /\ Free(j) /\ db[j] = None /\ menu[j] # "quality"
        /\ sweep.rows[j] = None /\ j \notin sweep.dirty /\ j \notin sweep.dead
        BY <1>1, <1>5, Unborn
  <2>2. draft'[j] = NewRow(u, url, q)
        BY <1>3 DEF TypeOK
  <2>3. NoQueue(j) /\ NoIntake(j)' /\ NoPicks(j)' /\ NoHands(j)' /\ Open(j)'
        BY <1>3, <2>1 DEF Free, NoIntake, NoPicks, NoHands, Holds, Open
  <2>4. One(j)' /\ WaitPart(j)' /\ HandsPart(j)'
        BY <1>3, <2>3, Queued
  <2>5. SweepPart(j)' /\ MenuPart(j)'
        BY <1>3, <2>1, <2>2 DEF SweepPart, MenuPart, NewRow
  <2> QED BY <1>5, <2>4, <2>5 DEF Custody
<1> QED BY <1>4, <1>5

LEMMA RedditCommitKeeps ==
  ASSUME TypeOK, TypeOK', DraftInv, NEW u \in Users, RedditCommit(u),
         NEW k \in Jobs, Custody(k)
  PROVE  Custody(k)'
<1>1. /\ UNCHANGED <<intake, menu, picks, clicks, sweep, queue, attempt, tmp>>
      /\ db'[k] = IF k \in Drafts(u) THEN draft[k] ELSE db[k]
      /\ draft'[k] = IF k \in Drafts(u) THEN None ELSE draft[k]
      BY DEF RedditCommit, workerVars
<1>2. Shrinks(k)
      BY <1>1, NobodyTakes
<1>3. CASE k \notin Drafts(u)
  <2>1. LeftAlone(k)
        BY <1>1, <1>2, <1>3 DEF LeftAlone, RowKept, SweepKept
  <2> QED BY <2>1, LeftAloneKeeps
<1>4. CASE k \in Drafts(u)
  <2>1. /\ draft[k] # None /\ draft[k].status = "PENDING"
        /\ db'[k] = draft[k] /\ draft'[k] = None
        BY <1>1, <1>4 DEF Drafts, DraftInv
  <2>2. Open(k)' /\ SweepPart(k)'
        BY <1>1, <2>1 DEF Open, Custody, SweepPart
  <2>3. One(k)' /\ (Free(k) => Free(k)')
        BY <1>2, OneStays, FreeStays DEF Custody
  <2>4. WaitPart(k)' /\ MenuPart(k)'
        BY <1>1, <2>2, <2>3 DEF Custody, WaitPart, MenuPart
  <2>5. HandsPart(k)'
        BY <1>1, <2>2 DEF Custody, HandsPart, HandPart, Holds
  <2> QED BY <2>2, <2>3, <2>4, <2>5 DEF Custody
<1> QED BY <1>3, <1>4

LEMMA UserKeeps ==
  ASSUME TypeOK, TypeOK', DraftInv, MediaInv, NEW u \in Users, UserStep(u),
         NEW k \in Jobs, Custody(k)
  PROVE  Custody(k)'
<1>1. CASE \/ RedditRollback(u) \/ CancelRead(u) \/ CancelCommit(u) \/ CancelFails(u)
           \/ ClearHistory(u)
  <2>1. /\ UNCHANGED <<intake, menu, picks, clicks, sweep, queue, attempt, tmp>>
        /\ draft'[k] \in {draft[k], None}
        BY <1>1 DEF RedditRollback, CancelRead, CancelCommit, CancelFails, ClearHistory,
                    workerVars
  <2>2. \/ db'[k] \in {db[k], None}
        \/ db[k] # None /\ db'[k] = [db[k] EXCEPT !.status = "CANCELLED"]
    <3>1. CASE UNCHANGED db
          BY <3>1
    <3>2. CASE CancelCommit(u)
          BY <3>2 DEF CancelCommit, CancelRow, IsActive, TypeOK
    <3>3. CASE ClearHistory(u)
          BY <3>3 DEF ClearHistory
    <3> QED BY <1>1, <3>1, <3>2, <3>3 DEF RedditRollback, CancelRead, CancelFails
  <2>3. db[k] # None => db[k] \in Row
        BY DEF TypeOK
  <2>4. RowKept(k)
        BY <2>1, <2>2, <2>3 DEF RowKept, Row
  <2>5. Shrinks(k)
        BY <2>1, NobodyTakes
  <2>6. LeftAlone(k)
        BY <2>1, <2>4, <2>5 DEF LeftAlone, SweepKept
  <2> QED BY <2>6, LeftAloneKeeps
<1> QED BY <1>1, SubmitKeeps, RedditQueueKeeps, RedditCommitKeeps DEF UserStep

LEMMA ClickKeeps ==
  ASSUME TypeOK, TypeOK', NEW j \in Jobs, NEW q \in Qualities \ {Best}, Click(j, q),
         NEW k \in Jobs, Custody(k), clicks'[k] <= 1
  PROVE  Custody(k)'
<1>1. /\ UNCHANGED <<db, intake, draft, menu, sweep, queue, attempt, tmp>>
      /\ picks' = picks \cup {<<j, q>>} /\ menu[j] = "quality"
      /\ clicks'[j] = clicks[j] + 1 /\ clicks[j] \in Nat
      /\ k # j => clicks'[k] = clicks[k]
      BY DEF Click, workerVars, TypeOK
<1>2. CASE k # j
  <2>1. Shrinks(k)
        BY <1>1, <1>2, SameQueue DEF Shrinks
  <2>2. LeftAlone(k)
        BY <1>1, <1>2, <2>1 DEF LeftAlone, RowKept, SweepKept
  <2> QED BY <2>2, LeftAloneKeeps
<1>3. CASE k = j
  <2>1. clicks[j] = 0 /\ clicks'[j] # 0
        BY <1>1, <1>3
  <2>2. Free(j) /\ Open(j)
        BY <1>1, <1>3, <2>1 DEF Custody, MenuPart
  <2>3. /\ NoIntake(j)' /\ NoQueue(j)' /\ NoHands(j)' /\ Open(j)'
        /\ \A p \in picks' : p[1] = j => p = <<j, q>>
        BY <1>1, <2>2 DEF Free, NoIntake, NoPicks, NoQueue, NoHands, Holds, Open
  <2>4. One(j)' /\ WaitPart(j)' /\ HandsPart(j)'
        BY <2>3 DEF One, WaitPart, HandsPart, NoIntake, NoQueue, NoHands
  <2>5. SweepPart(j)' /\ MenuPart(j)'
        BY <1>1, <1>3, <2>1 DEF Custody, SweepPart, MenuPart
  <2> QED BY <1>3, <2>4, <2>5 DEF Custody
<1> QED BY <1>2, <1>3

LEMMA PickKeeps ==
  ASSUME TypeOK, TypeOK', NEW j \in Jobs, NEW q \in Qualities, <<j, q>> \in picks,
         QualityPick(j, q) \/ QualityPickFails(j, q) \/ PickSwallowed(j, q),
         NEW k \in Jobs, Custody(k)
  PROVE  Custody(k)'
<1>1. /\ UNCHANGED <<draft, clicks, sweep, queue, attempt, tmp>>
      /\ picks' = picks \ {<<j, q>>}
      /\ menu'[k] \in {menu[k], "none"}
      BY DEF QualityPick, QualityPickFails, PickSwallowed, workerVars, TypeOK
<1>2. CASE UNCHANGED <<db, intake>>
  <2>1. Shrinks(k)
        BY <1>1, <1>2, NobodyTakes
  <2>2. LeftAlone(k)
        BY <1>1, <1>2, <2>1 DEF LeftAlone, RowKept, SweepKept
  <2> QED BY <2>2, LeftAloneKeeps
<1>3. CASE QualityPick(j, q) /\ db[j] # None
  <2>0. Preflight(j, db[j].url, q).job = j
        BY DEF Preflight
  <2>1. PICK m : m = Preflight(j, db[j].url, q) /\ m.job = j
        BY <2>0
  <2>2. /\ db' = [db EXCEPT ![j] = [db[j] EXCEPT !.fmt = q]]
        /\ intake' = intake \cup {m} /\ db[j] \in Row /\ menu'[j] = "none"
        BY <1>3, <2>1 DEF QualityPick, TypeOK
  <2>3. CASE k # j
    <3>1. Shrinks(k)
          BY <1>1, <2>1, <2>2, <2>3, SameQueue DEF Shrinks, Holds
    <3>2. LeftAlone(k)
          BY <1>1, <2>2, <2>3, <3>1 DEF LeftAlone, RowKept, SweepKept, TypeOK
    <3> QED BY <3>2, LeftAloneKeeps
  <2>4. CASE k = j
    <3>1. <<j, q>>[1] = j
          OBVIOUS
    <3>2. /\ \A r \in picks : r[1] = j => r = <<j, q>>
          /\ NoIntake(j) /\ NoQueue(j) /\ NoHands(j) /\ Open(j)
          BY <2>4, <3>1 DEF Custody, One, WaitPart, NoIntake, NoPicks
    <3>3. /\ \A i \in intake' : i.job = j => i = m
          /\ NoPicks(j)' /\ NoQueue(j)' /\ NoHands(j)'
          BY <1>1, <2>2, <3>2 DEF NoIntake, NoPicks, NoQueue, NoHands, Holds
    <3>4. db'[j].status = db[j].status /\ db'[j].retries = db[j].retries
          BY <2>2 DEF TypeOK, Row
    <3>5. One(j)' /\ HandsPart(j)'
          BY <3>3 DEF One, HandsPart, NoPicks, NoQueue, NoHands
    <3>6. WaitPart(j)' /\ SweepPart(j)' /\ MenuPart(j)'
          BY <1>1, <1>3, <2>2, <2>4, <3>2, <3>4
             DEF Custody, WaitPart, Open, SweepPart, MenuPart
    <3> QED BY <2>4, <3>5, <3>6 DEF Custody
  <2> QED BY <2>3, <2>4
<1> QED BY <1>2, <1>3 DEF QualityPick, QualityPickFails, PickSwallowed

LEMMA MenuKeeps ==
  ASSUME TypeOK, TypeOK', MenuStep, NEW k \in Jobs, Custody(k), clicks'[k] <= 1
  PROVE  Custody(k)'
<1>1. \A p \in Jobs \X Qualities :
        p[1] \in Jobs /\ p[2] \in Qualities /\ p = <<p[1], p[2]>>
      OBVIOUS
<1>2. picks \subseteq Jobs \X Qualities
      BY DEF TypeOK
<1> QED BY <1>1, <1>2, ClickKeeps, PickKeeps DEF MenuStep

-----------------------------------------------------------------------------
(* The sweep, the clock and a restart of the bot.                           *)
LEMMA SweepKeeps ==
  ASSUME TypeOK, TypeOK',
         \/ RecoverBegin \/ RecoverCommit \/ RecoverLost \/ RecoverAbort \/ BotRestart
         \/ \E j \in Jobs : HeartbeatAges(j),
         NEW k \in Jobs, Custody(k)
  PROVE  Custody(k)'
<1>1. /\ UNCHANGED <<menu, clicks, queue, attempt, tmp>>
      /\ intake' \subseteq intake /\ picks' \subseteq picks
      /\ draft'[k] \in {draft[k], None}
      BY DEF RecoverBegin, RecoverCommit, RecoverLost, RecoverAbort, BotRestart,
             HeartbeatAges, botVars, workerVars
<1>2. Shrinks(k)
      BY <1>1, NobodyTakes
<1>3. k \notin sweep.dirty
      BY DEF Custody, SweepPart
<1>4. RowKept(k)
  <2>1. CASE UNCHANGED db \/ RecoverCommit
    <3>1. db'[k] = db[k]
          BY <1>3, <2>1 DEF RecoverCommit
    <3> QED BY <1>1, <3>1 DEF RowKept
  <2>2. ASSUME NEW j \in Jobs, HeartbeatAges(j)
        PROVE  RowKept(k)
    <3>1. db'[k] \in {db[k], [db[k] EXCEPT !.hb = "stale"]} /\ (db'[k] # db[k] => db[k] # None)
          BY <2>2 DEF HeartbeatAges, TypeOK
    <3>2. db[k] # None => db[k] \in Row
          BY DEF TypeOK
    <3> QED BY <1>1, <3>1, <3>2 DEF RowKept, Row
  <2> QED BY <2>1, <2>2 DEF RecoverBegin, RecoverLost, RecoverAbort, BotRestart
<1>5. SweepKept(k)
  <2>1. CASE UNCHANGED sweep
        BY <2>1 DEF SweepKept
  <2>2. CASE RecoverBegin
    <3>1. sweep'.dirty = {} /\ sweep'.dead = {} /\ sweep'.rows[k] \in {db[k], None}
          BY <2>2 DEF RecoverBegin, EmptySweep
    <3> QED BY <3>1 DEF SweepKept
  <2>3. CASE sweep' = EmptySweep
        BY <2>3 DEF SweepKept, EmptySweep
  <2> QED BY <2>1, <2>2, <2>3 DEF RecoverCommit, RecoverLost, RecoverAbort, BotRestart,
                                  HeartbeatAges, RollBackSweep, botVars
<1> QED BY <1>1, <1>2, <1>4, <1>5, LeftAloneKeeps DEF LeftAlone

LEMMA RecoverJobKeeps ==
  ASSUME TypeOK, TypeOK', NEW j \in Jobs, RecoverJob(j), NEW k \in Jobs, Custody(k),
         requeued'[k] = 0
  PROVE  Custody(k)'
<1>1. PICK row \in Row : row = sweep.rows[j]
      BY DEF RecoverJob, TypeOK, Sweep
<1>2. row.retries \in Nat
      BY DEF Row
<1> DEFINE spent == row.retries + 1 > MaxRecoveries
           m == Preflight(j, row.url, row.fmt)
<1>3. m \in Message /\ m.job = j
      BY DEF Preflight, Message, Row
<1>4. /\ UNCHANGED <<db, intake, draft, menu, picks, clicks, attempt, tmp>>
      /\ sweep' = [sweep EXCEPT !.rows[j] = None,
                                !.dirty = @ \cup {j},
                                !.dead = IF spent THEN @ \cup {j} ELSE @]
      /\ IF spent THEN UNCHANGED queue
                  ELSE /\ queue' = Append(queue, m)
                       /\ requeued' = [requeued EXCEPT ![j] = @ + 1]
      BY <1>1 DEF RecoverJob, workerVars
<1>5. j # k
  <2> SUFFICES ASSUME j = k PROVE FALSE
      OBVIOUS
  <2>1. row.retries = 0
        BY <1>1, NoneAssumption DEF Custody, SweepPart
  <2>2. ~spent
        BY <2>1, ConstantAssumption
  <2>3. requeued' = [requeued EXCEPT ![j] = @ + 1]
        BY <1>4, <2>2
  <2>4. requeued \in [Jobs -> Nat]
        BY DEF TypeOK
  <2>5. requeued'[k] = requeued[k] + 1
        BY <2>3, <2>4
  <2> QED BY <2>4, <2>5
<1> HIDE DEF m, spent
<1>6. /\ sweep'.rows = [sweep.rows EXCEPT ![j] = None]
      /\ sweep'.dirty = sweep.dirty \cup {j}
      /\ sweep'.dead \subseteq sweep.dead \cup {j}
      BY <1>4 DEF TypeOK, Sweep
<1>7. sweep.rows \in [Jobs -> Row \cup {None}]
      BY DEF TypeOK, Sweep
<1>8. Shrinks(k)
      BY <1>3, <1>4, <1>5, SameQueue, AppendLeaves DEF Shrinks, Holds
<1>9. SweepKept(k)
      BY <1>5, <1>6, <1>7 DEF SweepKept
<1>10. LeftAlone(k)
       BY <1>4, <1>8, <1>9 DEF LeftAlone, RowKept
<1> QED BY <1>10, LeftAloneKeeps

-----------------------------------------------------------------------------
(* Only a press and the sweep hand a job out again.                         *)
Unasked == UNCHANGED <<clicks, requeued>>

LEMMA OthersHandOutNothing ==
  ASSUME Next
  PROVE  \/ Unasked
         \/ \E j \in Jobs, q \in Qualities \ {Best} : Click(j, q)
         \/ \E j \in Jobs : RecoverJob(j)
<1>1. ASSUME NEW w \in Workers, WorkerStep(w) \/ WorkerFault(w)
      PROVE  Unasked
      BY <1>1, WorkersKeepBot DEF botVars, Unasked
<1>2. ASSUME NEW u \in Users, UserStep(u)
      PROVE  Unasked
      BY <1>2 DEF UserStep, Submit, RedditQueue, RedditCommit, RedditRollback, CancelRead,
                  CancelCommit, CancelFails, ClearHistory, Unasked
<1>3. IntakeStep \/ BotRestart \/ (\E j \in Jobs : HeartbeatAges(j)) => Unasked
      BY DEF IntakeStep, Enqueue, EnqueueFails, HeartbeatAges, BotRestart, botVars, Unasked
<1>4. MenuStep => Unasked \/ \E j \in Jobs, q \in Qualities \ {Best} : Click(j, q)
      BY DEF MenuStep, QualityPick, QualityPickFails, PickSwallowed, Unasked
<1>5. SweepStep => Unasked \/ \E j \in Jobs : RecoverJob(j)
      BY DEF SweepStep, RecoverBegin, RecoverCommit, RecoverLost, RecoverAbort, Unasked
<1> QED BY <1>1, <1>2, <1>3, <1>4, <1>5 DEF Next

LEMMA HandedOutBefore ==
  ASSUME TypeOK, [Next]_vars, NEW k \in Jobs, ~HandedOutAgain(k)'
  PROVE  ~HandedOutAgain(k)
<1>1. clicks \in [Jobs -> Nat] /\ requeued \in [Jobs -> Nat]
      BY DEF TypeOK
<1>2. CASE Unasked
      BY <1>2 DEF Unasked, HandedOutAgain
<1>3. ASSUME NEW j \in Jobs, NEW q \in Qualities, Click(j, q)
      PROVE  ~HandedOutAgain(k)
  <2>1. requeued' = requeued /\ clicks'[k] \in {clicks[k], clicks[k] + 1}
        BY <1>1, <1>3 DEF Click
  <2> QED BY <1>1, <2>1 DEF HandedOutAgain
<1>4. ASSUME NEW j \in Jobs, RecoverJob(j)
      PROVE  ~HandedOutAgain(k)
  <2>1. clicks' = clicks /\ requeued'[k] \in {requeued[k], requeued[k] + 1}
        BY <1>1, <1>4 DEF RecoverJob
  <2> QED BY <1>1, <2>1 DEF HandedOutAgain
<1>5. UNCHANGED vars => Unasked
      BY DEF vars, Unasked
<1> QED BY <1>2, <1>3, <1>4, <1>5, OthersHandOutNothing

LEMMA CustodyInvInit == Init => CustodyInv
<1> SUFFICES ASSUME Init, NEW j \in Jobs PROVE Custody(j)
    BY DEF CustodyInv
<1>1. Free(j) /\ db[j] = None /\ draft[j] = None /\ sweep.rows[j] = None
      /\ j \notin sweep.dirty /\ j \notin sweep.dead /\ menu[j] # "quality"
      BY DEF Init, Free, NoIntake, NoPicks, NoQueue, NoHands, Holds, EmptySweep
<1>2. One(j) /\ WaitPart(j) /\ HandsPart(j)
      BY <1>1 DEF Free, One, WaitPart, HandsPart, NoIntake, NoPicks, NoQueue, NoHands
<1> QED BY <1>1, <1>2 DEF Custody, SweepPart, MenuPart

LEMMA CustodyInvStep ==
  ASSUME TypeOK, TypeOK', DraftInv, MediaInv, CustodyInv, [Next]_vars
  PROVE  CustodyInv'
<1> SUFFICES ASSUME NEW k \in Jobs, ~HandedOutAgain(k)' PROVE Custody(k)'
    BY DEF CustodyInv
<1>1. Custody(k)
      BY HandedOutBefore DEF CustodyInv
<1>2. clicks'[k] <= 1 /\ requeued'[k] = 0
      BY DEF HandedOutAgain, TypeOK
<1>3. ASSUME NEW w \in Workers, WorkerStep(w) \/ WorkerFault(w)
      PROVE  Custody(k)'
      BY <1>1, <1>3, WorkerKeeps
<1>4. ASSUME NEW u \in Users, UserStep(u)
      PROVE  Custody(k)'
      BY <1>1, <1>4, UserKeeps
<1>5. CASE IntakeStep
      BY <1>1, <1>5, EnqueueKeeps DEF IntakeStep
<1>6. CASE MenuStep
      BY <1>1, <1>2, <1>6, MenuKeeps
<1>7. CASE SweepStep
      BY <1>1, <1>2, <1>7, SweepKeeps, RecoverJobKeeps DEF SweepStep
<1>8. CASE BotRestart \/ \E j \in Jobs : HeartbeatAges(j)
      BY <1>1, <1>8, SweepKeeps
<1>9. CASE UNCHANGED vars
  <2>1. Shrinks(k)
        BY <1>9, NobodyTakes DEF vars
  <2>2. LeftAlone(k)
        BY <1>9, <2>1 DEF vars, LeftAlone, RowKept, SweepKept
  <2> QED BY <1>1, <2>2, LeftAloneKeeps
<1> QED BY <1>3, <1>4, <1>5, <1>6, <1>7, <1>8, <1>9 DEF Next

(* All that the invariant of the custody rests on, in one.                  *)
LEMMA CustodyInvariant == Spec => [](TypeOK /\ DraftInv /\ CustodyInv)
<1>1. /\ TypeOK /\ DraftInv /\ MediaInv /\ TypeOK' /\ CustodyInv /\ [Next]_vars
      => CustodyInv'
      BY CustodyInvStep
<1> QED BY <1>1, CustodyInvInit, DraftInvariant, MediaInvariant, PTL DEF Spec

LEMMA OneHolder ==
  ASSUME NEW j \in Jobs, One(j)
  PROVE  Cardinality(Holders(j)) <= 1
<1>1. \A x, y \in Holders(j) : x = y
      BY DEF Holders, Holds, One, NoPicks, NoQueue, NoHands
<1>2. CASE Holders(j) = {}
      BY <1>2, FS_EmptySet
<1>3. ASSUME NEW x \in Holders(j)
      PROVE  Cardinality(Holders(j)) <= 1
  <2>1. Holders(j) = {x}
        BY <1>1
  <2>2. Cardinality({x}) = 1
        BY FS_Singleton
  <2> QED BY <2>1, <2>2
<1> QED BY <1>2, <1>3

(* Whatever work lasts longer than its heartbeat, crashes, times out, is    *)
(* rolled back, cancelled, deleted or restarted: until the sweep enqueues   *)
(* the job again or its menu is pressed twice, one handler, message or      *)
(* attempt has it in hand at most, and its downloaded file stays until it   *)
(* is uploaded.                                                             *)
THEOREM AloneUntilAgain == Spec => []AloneUntilHandedOutAgain
<1>1. ASSUME TypeOK, CustodyInv, NEW j \in Jobs, ~HandedOutAgain(j)
      PROVE  /\ Cardinality(Holders(j)) <= 1
             /\ \A w \in Workers :
                  attempt[w].pc \in {"downloaded", "compressing"}
                    /\ attempt[w].msg.job = j => tmp[j] # None
  <2>1. Custody(j)
        BY <1>1 DEF CustodyInv
  <2>2. \A w \in Workers :
          attempt[w].pc \in {"downloaded", "compressing"} /\ attempt[w].msg.job = j =>
            tmp[j] # None
        BY <1>1, <2>1, Busy DEF Custody, HandsPart, HandPart
  <2> QED BY <2>1, <2>2, OneHolder DEF Custody
<1>2. TypeOK /\ CustodyInv => AloneUntilHandedOutAgain
      BY <1>1 DEF AloneUntilHandedOutAgain
<1> QED BY <1>2, CustodyInvariant, PTL

-----------------------------------------------------------------------------
(* The refinement of JobContract.                                           *)
Told  == [j \in Jobs |-> StatusOf(j)]
Again == {j \in Jobs : HandedOutAgain(j)}

ContractStep == Contract!Next \/ UNCHANGED <<Told, Again>>

\* What a status may follow, and what besides where the work of the job is
\* handed out again.
May == [PENDING   |-> {"UNBORN"},
        RUNNING   |-> Active \cup {"CANCELLED"},
        DONE      |-> Active \cup {"CANCELLED"},
        FAILED    |-> Active \cup {"CANCELLED", "DONE"},
        CANCELLED |-> Active,
        GONE      |-> {"UNBORN"} \cup Statuses]

MayFollow(j, to, from) ==
  \/ from \in May[to]
  \/ /\ HandedOutAgain(j)
     /\ to \in {"RUNNING", "DONE", "FAILED"} /\ from \in Statuses

LEMMA Moved ==
  ASSUME Unasked, NEW S \in SUBSET Jobs, NEW to \in DOMAIN May,
         \A j \in S : MayFollow(j, to, StatusOf(j)) /\ StatusOf(j)' = to,
         \A j \in Jobs \ S : StatusOf(j)' = StatusOf(j)
  PROVE  ContractStep
<1>1. UNCHANGED {j \in Jobs : HandedOutAgain(j)}
      BY DEF Unasked, HandedOutAgain
<1>2. Contract!Move(S, to)
      BY <1>1 DEF Contract!Move
<1>3. CASE to = "PENDING"
  <2>1. Contract!Create(S)
        BY <1>2, <1>3 DEF Contract!Create, May, MayFollow
  <2> QED BY <2>1 DEF Contract!Next, ContractStep
<1>4. CASE to = "GONE"
  <2>1. Contract!Delete(S)
        BY <1>2, <1>4 DEF Contract!Delete, May, MayFollow, Statuses, Active
  <2> QED BY <2>1 DEF Contract!Next, ContractStep
<1>5. CASE to \in {"RUNNING", "DONE", "FAILED", "CANCELLED"}
  <2>1. May[to] \subseteq Contract!Active
                     \cup {end \in Contract!Ended : <<end, to>> \in NotFinal}
        BY <1>5 DEF May, Active, Contract!Active, Contract!Ended, NotFinal
  <2>2. \A j \in S : StatusOf(j) \in Contract!LeftFor(j, to)
        BY <1>5, <2>1 DEF MayFollow, Contract!LeftFor, Contract!Active, Contract!Ended,
                          Statuses, Active
  <2>3. Contract!Advance(S, to)
        BY <1>2, <2>2 DEF Contract!Advance
  <2> QED BY <1>5, <2>3 DEF Contract!Start, Contract!End, Contract!Ended,
                            Contract!Next, ContractStep
<1> QED BY <1>3, <1>4, <1>5 DEF May

LEMMA OneMoved ==
  ASSUME Unasked, NEW j \in Jobs, \A k \in Jobs : k # j => StatusOf(k)' = StatusOf(k),
         \/ StatusOf(j)' = StatusOf(j)
         \/ \E to \in DOMAIN May : StatusOf(j)' = to /\ MayFollow(j, to, StatusOf(j))
  PROVE  ContractStep
<1>1. CASE StatusOf(j)' = StatusOf(j)
      BY <1>1 DEF ContractStep, Told, Again, Unasked, HandedOutAgain
<1>2. CASE \E to \in DOMAIN May : StatusOf(j)' = to /\ MayFollow(j, to, StatusOf(j))
  <2>1. PICK to \in DOMAIN May : StatusOf(j)' = to /\ MayFollow(j, to, StatusOf(j))
        BY <1>2
  <2>2. \A k \in {j} : MayFollow(k, to, StatusOf(k)) /\ StatusOf(k)' = to
        BY <2>1
  <2>3. {j} \in SUBSET Jobs /\ \A k \in Jobs \ {j} : StatusOf(k)' = StatusOf(k)
        OBVIOUS
  <2> QED BY <2>2, <2>3, Moved
<1> QED BY <1>1, <1>2

LEMMA NoneMoved ==
  ASSUME Unasked, UNCHANGED <<created, db, draft>>
  PROVE  ContractStep
  BY DEF ContractStep, Told, StatusOf, Again, Unasked, HandedOutAgain

\* The UPDATEs.
LEMMA UpdateAllowed ==
  ASSUME TypeOK, Unasked, NEW j \in Jobs, NEW row \in Row, UpdateRow(j, row),
         UNCHANGED <<created, draft>>,
         db[j] # None => \/ row.status = db[j].status
                         \/ /\ row.status \in DOMAIN May
                            /\ MayFollow(j, row.status, db[j].status)
  PROVE  ContractStep
<1>1. CASE db[j] = None
      BY <1>1, NoneMoved DEF UpdateRow
<1>2. CASE db[j] # None
  <2>1. db'[j] = row /\ row # None /\ \A k \in Jobs : k # j => db'[k] = db[k]
        BY <1>2, NoneAssumption DEF UpdateRow, TypeOK
  <2>2. /\ \A k \in Jobs : k # j => StatusOf(k)' = StatusOf(k)
        /\ StatusOf(j)' = row.status /\ StatusOf(j) = db[j].status
        BY <1>2, <2>1 DEF StatusOf
  <2> QED BY <1>2, <2>2, OneMoved
<1> QED BY <1>1, <1>2

LEMMA WorkersAllowed ==
  ASSUME TypeOK, Unasked, NEW w \in Workers, WorkerStep(w) \/ WorkerFault(w),
         CustodyInv
  PROVE  ContractStep
<1>1. UNCHANGED <<created, draft>>
      BY WorkersKeepBot DEF botVars
<1>2. CASE UNCHANGED db
      BY <1>1, <1>2, NoneMoved
<1>3. CASE RecordCached(w) \/ FetchFails(w) \/ Fetched(w) \/ Claim(w) \/ Compress(w)
           \/ RecordDone(w) \/ RecordFailed(w)
  <2>1. attempt[w].pc # "idle"
        BY <1>3 DEF RecordCached, FetchFails, Fetched, Claim, Compress, RecordDone,
                    RecordFailed, At
  <2>2. PICK j \in Jobs : j = attempt[w].msg.job /\ Holds(w, j)
        BY <2>1, Busy
  <2>3. attempt[w].pc \notin Closing => HandedOutAgain(j) \/ Open(j)
        BY <2>2 DEF CustodyInv, Custody, HandsPart, HandPart
  <2>4. /\ db[j] # None => db[j] \in Row /\ db[j].status \in Statuses
        /\ attempt[w].file \in File \cup {None} /\ Key(attempt[w].msg) \in Urls \X Qualities
        BY <2>1 DEF TypeOK, Row, Attempt, Key, Message
  <2>5. PICK f \in File \cup {None}, key \in Urls \X Qualities :
          f = attempt[w].file /\ key = Key(attempt[w].msg)
        BY <2>4
  <2>6. CASE db[j] = None
    <3>1. UNCHANGED db
          BY <1>3, <2>2, <2>6 DEF RecordCached, FetchFails, Fetched, Claim, Compress,
             RecordDone, RecordFailed, MarkFailed, UpdateRow
    <3> QED BY <1>2, <3>1
  <2>7. CASE db[j] # None /\ (RecordCached(w) \/ RecordDone(w))
    <3> DEFINE new == [db[j] EXCEPT !.status = "DONE", !.file = f]
    <3>1. new \in Row /\ new.status = "DONE"
          BY <2>4, <2>7, RowDone DEF Row
    <3>2. UpdateRow(j, new)
          BY <2>2, <2>5, <2>7 DEF RecordCached, RecordDone
    <3>3. MayFollow(j, "DONE", db[j].status)
          BY <2>3, <2>4, <2>7 DEF RecordCached, RecordDone, At, Closing, Open, May,
                                  MayFollow, Statuses
    <3>4. new.status \in DOMAIN May
          BY <3>1 DEF May
    <3> HIDE DEF new
    <3> QED BY <1>1, <3>1, <3>2, <3>3, <3>4, UpdateAllowed
  <2>8. CASE db[j] # None /\ (FetchFails(w) \/ RecordFailed(w))
    <3> DEFINE new == [db[j] EXCEPT !.status = "FAILED"]
    <3>1. new \in Row /\ new.status = "FAILED"
          BY <2>4, <2>8 DEF Row, Statuses
    <3>2. UpdateRow(j, new)
          BY <2>2, <2>8 DEF FetchFails, RecordFailed, MarkFailed
    <3>3. db[j].status = "FAILED" \/ MayFollow(j, "FAILED", db[j].status)
          BY <2>4, <2>8 DEF May, MayFollow, Statuses
    <3>4. new.status \in DOMAIN May
          BY <3>1 DEF May
    <3> HIDE DEF new
    <3> QED BY <1>1, <3>1, <3>2, <3>3, <3>4, UpdateAllowed
  <2>9. CASE db[j] # None /\ Fetched(w)
    <3> DEFINE new == [db[j] EXCEPT !.status = "RUNNING", !.hash = key]
    <3>1. new \in Row /\ new.status = "RUNNING"
          BY <2>4, <2>9, RowKeyed DEF Row
    <3>2. UpdateRow(j, new)
          BY <2>2, <2>5, <2>9 DEF Fetched
    <3>3. MayFollow(j, "RUNNING", db[j].status)
          BY <2>3, <2>4, <2>9 DEF Fetched, At, Closing, Open, May, MayFollow, Statuses
    <3>4. new.status \in DOMAIN May
          BY <3>1 DEF May
    <3> HIDE DEF new
    <3> QED BY <1>1, <3>1, <3>2, <3>3, <3>4, UpdateAllowed
  <2>10. CASE db[j] # None /\ (Claim(w) \/ Compress(w))
    <3> DEFINE new == [db[j] EXCEPT !.status = "RUNNING", !.hb = "fresh"]
    <3>1. new \in Row /\ new.status = "RUNNING"
          BY <2>4, <2>10, RowRunning DEF Row
    <3>2. UpdateRow(j, new)
          BY <2>2, <2>10 DEF Claim, Compress
    <3>3. MayFollow(j, "RUNNING", db[j].status)
          BY <2>3, <2>4, <2>10 DEF Claim, Compress, At, Closing, Open, May, MayFollow,
                                   Statuses
    <3>4. new.status \in DOMAIN May
          BY <3>1 DEF May
    <3> HIDE DEF new
    <3> QED BY <1>1, <3>1, <3>2, <3>3, <3>4, UpdateAllowed
  <2> QED BY <1>3, <2>6, <2>7, <2>8, <2>9, <2>10
<1>4. \/ UNCHANGED db
      \/ RecordCached(w) \/ FetchFails(w) \/ Fetched(w) \/ Claim(w) \/ Compress(w)
      \/ RecordDone(w) \/ RecordFailed(w)
      BY DEF WorkerStep, Receive, PreflightStep, CacheHit, CacheMiss, SendCached,
             SelectFails, WarnLarge, AskQuality, Chain, DownloadStep, Download,
             DownloadFails, Upload, UploadNothing, FileGone, Announce, Cleanup,
             WorkerFault, Raises, TimesOut, WorkerCrash
<1> QED BY <1>2, <1>3, <1>4

LEMMA UserAllowed ==
  ASSUME TypeOK, DraftInv, Unasked, NEW u \in Users, UserStep(u)
  PROVE  ContractStep
<1>0. created \in Nat /\ Jobs \subseteq Nat
      BY DEF TypeOK, Jobs
<1>1. ASSUME NEW url \in Urls, NEW q \in Qualities, Submit(u, url, q)
      PROVE  ContractStep
  <2>1. created + 1 \in Jobs
        BY <1>1 DEF Submit, TypeOK, Jobs
  <2>2. PICK j \in Jobs, r \in Qualities :
          /\ j = created + 1 /\ created' = j /\ draft' = draft
          /\ db' = [db EXCEPT ![j] = NewRow(u, url, r)]
        BY <1>1, <2>1 DEF Submit, ConstantAssumption
  <2>3. NewRow(u, url, r) # None /\ NewRow(u, url, r).status = "PENDING"
        BY NewRowTypes, NoneAssumption DEF NewRow
  <2>4. db'[j] = NewRow(u, url, r) /\ \A k \in Jobs : k # j => db'[k] = db[k]
        BY <2>2 DEF TypeOK
  <2>5. db[j] = None /\ ~(j <= created)
        BY <1>0, <2>2 DEF DraftInv
  <2>6. StatusOf(j) = "UNBORN" /\ StatusOf(j)' = "PENDING"
        BY <2>3, <2>4, <2>5 DEF StatusOf
  <2>7. \A k \in Jobs : k # j => StatusOf(k)' = StatusOf(k)
        BY <1>0, <2>2, <2>4 DEF StatusOf
  <2> QED BY <2>6, <2>7, OneMoved DEF May, MayFollow
<1>2. ASSUME NEW url \in Urls, NEW q \in Qualities, RedditQueue(u, url, q)
      PROVE  ContractStep
  <2>1. created + 1 \in Jobs
        BY <1>2 DEF RedditQueue, TypeOK, Jobs
  <2>2. /\ created' = created + 1 /\ db' = db
        /\ draft' = [draft EXCEPT ![created + 1] = NewRow(u, url, q)]
        BY <1>2 DEF RedditQueue
  <2>3. NewRow(u, url, q) # None
        BY NewRowTypes, NoneAssumption
  <2>4. draft'[created + 1] # None /\ \A k \in Jobs : k # created + 1 => draft'[k] = draft[k]
        BY <2>1, <2>2, <2>3 DEF TypeOK
  <2>5. \A k \in Jobs : StatusOf(k)' = StatusOf(k)
        BY <1>0, <2>2, <2>4 DEF StatusOf
  <2> QED BY <2>5 DEF ContractStep, Told, Again, Unasked, HandedOutAgain
<1>3. CASE RedditCommit(u)
  <2>1. /\ created' = created
        /\ \A k \in Jobs : /\ db'[k] = IF k \in Drafts(u) THEN draft[k] ELSE db[k]
                           /\ draft'[k] = IF k \in Drafts(u) THEN None ELSE draft[k]
        BY <1>3 DEF RedditCommit
  <2>2. \A k \in Drafts(u) : MayFollow(k, "PENDING", StatusOf(k)) /\ StatusOf(k)' = "PENDING"
        BY <2>1 DEF Drafts, DraftInv, StatusOf, May, MayFollow
  <2>3. \A k \in Jobs \ Drafts(u) : StatusOf(k)' = StatusOf(k)
        BY <2>1 DEF StatusOf
  <2>4. Drafts(u) \in SUBSET Jobs /\ "PENDING" \in DOMAIN May
        BY DEF Drafts, May
  <2> QED BY <2>2, <2>3, <2>4, Moved
<1>4. CASE RedditRollback(u)
  <2>1. /\ created' = created /\ db' = db
        /\ \A k \in Jobs : draft'[k] = IF k \in Drafts(u) THEN None ELSE draft[k]
        BY <1>4 DEF RedditRollback
  <2>2. \A k \in Drafts(u) : MayFollow(k, "GONE", StatusOf(k)) /\ StatusOf(k)' = "GONE"
        BY <2>1 DEF Drafts, DraftInv, StatusOf, May, MayFollow
  <2>3. \A k \in Jobs \ Drafts(u) : StatusOf(k)' = StatusOf(k)
        BY <2>1 DEF StatusOf
  <2>4. Drafts(u) \in SUBSET Jobs /\ "GONE" \in DOMAIN May
        BY DEF Drafts, May
  <2> QED BY <2>2, <2>3, <2>4, Moved
<1>5. CASE CancelRead(u) \/ CancelFails(u)
      BY <1>5, NoneMoved DEF CancelRead, CancelFails
<1>6. CASE CancelCommit(u)
  <2>1. PICK j \in Jobs : j = cancelling[u]
        BY <1>6 DEF CancelCommit, TypeOK
  <2>2. UNCHANGED <<created, draft>> /\ db' = CancelRow(j)
        BY <1>6, <2>1 DEF CancelCommit
  <2>3. CASE ~IsActive(j)
        BY <2>2, <2>3, NoneMoved DEF CancelRow
  <2>4. CASE IsActive(j)
    <3> DEFINE new == [db[j] EXCEPT !.status = "CANCELLED"]
    <3>1. UpdateRow(j, new) /\ db[j] \in Row /\ db[j].status \in Active
          BY <2>2, <2>4 DEF CancelRow, IsActive, UpdateRow, TypeOK
    <3>2. new \in Row /\ new.status = "CANCELLED"
          BY <3>1, RowStatus DEF Row
    <3>3. MayFollow(j, "CANCELLED", db[j].status) /\ "CANCELLED" \in DOMAIN May
          BY <3>1 DEF May, MayFollow
    <3> HIDE DEF new
    <3> QED BY <2>2, <3>1, <3>2, <3>3, UpdateAllowed
  <2> QED BY <2>3, <2>4
<1>7. CASE ClearHistory(u)
  <2> DEFINE S == {j \in Jobs : db[j] # None /\ db[j].owner = u}
  <2>1. /\ UNCHANGED <<created, draft>>
        /\ \A k \in Jobs : db'[k] = IF k \in S THEN None ELSE db[k]
        BY <1>7 DEF ClearHistory
  <2>2. \A k \in S : /\ db[k] # None /\ db[k].status \in Statuses
                     /\ k <= created /\ draft[k] = None
        BY DEF DraftInv, TypeOK, Row
  <2> HIDE DEF S
  <2>3. \A k \in S : MayFollow(k, "GONE", StatusOf(k)) /\ StatusOf(k)' = "GONE"
        BY <2>1, <2>2 DEF StatusOf, May, MayFollow, S
  <2>4. \A k \in Jobs \ S : StatusOf(k)' = StatusOf(k)
        BY <2>1 DEF StatusOf
  <2>5. S \in SUBSET Jobs /\ "GONE" \in DOMAIN May
        BY DEF S, May
  <2> QED BY <2>3, <2>4, <2>5, Moved
<1> QED BY <1>1, <1>2, <1>3, <1>4, <1>5, <1>6, <1>7 DEF UserStep

LEMMA SweepAllowed ==
  ASSUME TypeOK, Unasked, SweepStep
  PROVE  ContractStep
<1>1. CASE ~RecoverCommit
      BY <1>1, NoneMoved DEF SweepStep, RecoverBegin, RecoverLost, RecoverAbort, RecoverJob
<1>2. CASE RecoverCommit
  <2>1. /\ UNCHANGED <<created, draft>>
        /\ \A k \in Jobs : db'[k] = IF k \in sweep.dirty \ SweepLost
                                      THEN Recovered(k) ELSE db[k]
        BY <1>2 DEF RecoverCommit
  <2> DEFINE S == {k \in sweep.dirty \ SweepLost :
                     k \in sweep.dead /\ db[k].status # "FAILED"}
  <2>2. S \in SUBSET Jobs /\ "FAILED" \in DOMAIN May
        BY DEF TypeOK, Sweep, May
  <2>3. ASSUME NEW k \in sweep.dirty \ SweepLost
        PROVE  /\ k \in Jobs /\ db[k] # None /\ db[k].status \in Statuses
               /\ db'[k] # None
               /\ db'[k].status = IF k \in sweep.dead THEN "FAILED" ELSE db[k].status
    <3>1. k \in Jobs /\ db[k] # None /\ db[k] \in Row
          BY DEF SweepLost, TypeOK, Sweep
    <3>2. Recovered(k).status = IF k \in sweep.dead THEN "FAILED" ELSE db[k].status
          BY <3>1 DEF Recovered, Row
    <3>3. /\ db[k].status \in Statuses
          /\ (IF k \in sweep.dead THEN "FAILED" ELSE db[k].status) \in Statuses
          BY <3>1 DEF Row, Statuses
    <3>4. Recovered(k) \in Row
          BY <3>1, <3>3, RowRecovered DEF Recovered
    <3> QED BY <2>1, <3>1, <3>2, <3>3, <3>4, NoneAssumption
  <2>4. \A k \in S : MayFollow(k, "FAILED", StatusOf(k)) /\ StatusOf(k)' = "FAILED"
        BY <2>3 DEF StatusOf, May, MayFollow, Statuses
  <2>5. \A k \in Jobs \ S : StatusOf(k)' = StatusOf(k)
        BY <2>1, <2>3 DEF StatusOf
  <2> QED BY <2>2, <2>4, <2>5, Moved
<1> QED BY <1>1, <1>2

LEMMA RestAllowed ==
  ASSUME TypeOK, DraftInv, Unasked,
         \/ IntakeStep \/ MenuStep \/ BotRestart \/ UNCHANGED vars
         \/ \E j \in Jobs : HeartbeatAges(j)
  PROVE  ContractStep
<1>1. ASSUME NEW j \in Jobs, NEW q \in Qualities, <<j, q>> \in picks,
             QualityPick(j, q) \/ QualityPickFails(j, q) \/ PickSwallowed(j, q)
      PROVE  ContractStep
  <2>1. UNCHANGED <<created, draft>>
        BY <1>1 DEF QualityPick, QualityPickFails, PickSwallowed
  <2>2. CASE UNCHANGED db
        BY <2>1, <2>2, NoneMoved
  <2>3. CASE db[j] # None /\ db' = [db EXCEPT ![j].fmt = q]
    <3> DEFINE new == [db[j] EXCEPT !.fmt = q]
    <3>0. db[j] \in Row
          BY <2>3 DEF TypeOK
    <3>1. new \in Row /\ new.status = db[j].status
          BY <3>0, RowFormat DEF Row
    <3>2. UpdateRow(j, new)
          BY <2>3 DEF UpdateRow
    <3> HIDE DEF new
    <3> QED BY <2>1, <3>1, <3>2, UpdateAllowed
  <2>4. CASE QualityPick(j, q)
        BY <2>2, <2>3, <2>4 DEF QualityPick
  <2>5. CASE QualityPickFails(j, q) \/ PickSwallowed(j, q)
        BY <2>2, <2>5 DEF QualityPickFails, PickSwallowed
  <2> QED BY <1>1, <2>4, <2>5
<1>2. CASE MenuStep
  <2>1. \A p \in picks : p[1] \in Jobs /\ p[2] \in Qualities /\ p = <<p[1], p[2]>>
        BY DEF TypeOK
  <2>2. \A j \in Jobs, q \in Qualities : Click(j, q) => ContractStep
        BY NoneMoved DEF Click
  <2>3. \A p \in picks : QualityPick(p[1], p[2]) \/ QualityPickFails(p[1], p[2])
                              \/ PickSwallowed(p[1], p[2]) => ContractStep
        BY <1>1, <2>1
  <2> QED BY <1>2, <2>2, <2>3 DEF MenuStep
<1>3. ASSUME NEW j \in Jobs, HeartbeatAges(j)
      PROVE  ContractStep
  <2> DEFINE new == [db[j] EXCEPT !.hb = "stale"]
  <2>0. db[j] \in Row
        BY <1>3 DEF HeartbeatAges, TypeOK
  <2>1. new \in Row /\ new.status = db[j].status
        BY <2>0, RowHeartbeat DEF Row
  <2>2. UpdateRow(j, new) /\ UNCHANGED <<created, draft>>
        BY <1>3 DEF UpdateRow, HeartbeatAges, botVars
  <2> HIDE DEF new
  <2> QED BY <2>1, <2>2, UpdateAllowed
<1>4. CASE BotRestart
  <2> DEFINE S == {k \in Jobs : draft[k] # None}
  <2>1. UNCHANGED <<created, db>> /\ \A k \in Jobs : draft'[k] = None
        BY <1>4 DEF BotRestart
  <2>2. \A k \in S : MayFollow(k, "GONE", StatusOf(k)) /\ StatusOf(k)' = "GONE"
        BY <2>1 DEF DraftInv, StatusOf, May, MayFollow
  <2>3. \A k \in Jobs \ S : StatusOf(k)' = StatusOf(k)
        BY <2>1 DEF StatusOf
  <2>4. S \in SUBSET Jobs /\ "GONE" \in DOMAIN May
        BY DEF May
  <2> QED BY <2>2, <2>3, <2>4, Moved
<1>5. CASE IntakeStep \/ UNCHANGED vars
      BY <1>5, NoneMoved DEF IntakeStep, Enqueue, EnqueueFails, vars
<1> QED BY <1>2, <1>3, <1>4, <1>5

LEMMA HandOutAllowed ==
  ASSUME TypeOK, [Next]_vars, UNCHANGED <<created, db, draft>>
  PROVE  ContractStep
<1> DEFINE S == {j \in Jobs : HandedOutAgain(j)'}
<1>1. S \in SUBSET Jobs
      OBVIOUS
<1>2. {j \in Jobs : HandedOutAgain(j)}' = {j \in Jobs : HandedOutAgain(j)} \cup S
      BY HandedOutBefore
<1>3. UNCHANGED [j \in Jobs |-> StatusOf(j)]
      BY DEF StatusOf
<1>4. Contract!HandOut(S)
      BY <1>2, <1>3 DEF Contract!HandOut
<1> QED BY <1>1, <1>4 DEF Contract!Next, ContractStep

(* The statuses of the rows live as JobContract says, for every             *)
(* interleaving of handlers, workers, sweep, faults and deletions: an end   *)
(* other than those of NotFinal is overturned only for a job whose work was *)
(* handed out again, a job that has ended is not cancelled, and no deleted  *)
(* row comes back.                                                          *)
THEOREM ContractIsKept == Spec => ContractHolds
<1>1. Init => Contract!Init
      BY DEF Init, Contract!Init, StatusOf, Jobs, HandedOutAgain
<1>2. ASSUME TypeOK, DraftInv, CustodyInv, [Next]_vars
      PROVE  ContractStep
  <2>1. CASE Unasked
        BY <1>2, <2>1, WorkersAllowed, UserAllowed, SweepAllowed, RestAllowed DEF Next
  <2>2. CASE \/ \E j \in Jobs, q \in Qualities \ {Best} : Click(j, q)
             \/ \E j \in Jobs : RecoverJob(j)
        BY <1>2, <2>2, HandOutAllowed DEF Click, RecoverJob
  <2>3. UNCHANGED vars => Unasked
        BY DEF vars, Unasked
  <2> QED BY <1>2, <2>1, <2>2, <2>3, OthersHandOutNothing
<1>3. TypeOK /\ DraftInv /\ CustodyInv /\ [Next]_vars
      => [Contract!Next]_(<<[j \in Jobs |-> StatusOf(j)], {j \in Jobs : HandedOutAgain(j)}>>)
      BY <1>2 DEF ContractStep, Told, Again
<1> QED BY <1>1, <1>3, CustodyInvariant, PTL
           DEF Spec, ContractHolds, Contract!Spec, Contract!contractVars

=============================================================================
