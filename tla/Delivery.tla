------------------------------ MODULE Delivery ------------------------------
(***************************************************************************)
(* What a download task shows and sends: the phases of workers/download.py *)
(* between RUNNING and the end, with the listener that edits the progress  *)
(* into the same message (cache/progress.py), the encoder (utils/ffmpeg.py)*)
(* the archiver and the uploads.  The job's row, the queue, the cache and  *)
(* the crashes of workers are the subject of JobPipeline.                  *)
(*                                                                         *)
(* A text is written into the status message or, when that fails, into a   *)
(* new one (notify_user): "words" is the text written last.                *)
(***************************************************************************)
EXTENDS Naturals, Sequences

CONSTANTS
  Sizes,          \* sizes of files
  TelegramLimit,  \* 1900 MB, also the size of an archive's parts
  UserLimits,     \* max_file_size of the user's settings, also the target
  MaxPubs,        \* bound: progress events of a download
  MaxUpdates,     \* MAX_UPDATES of the listener
  MaxTrouble      \* bound: failures of Telegram, of tools and of the database,
                  \* timeouts, and steps of another task in the same directory

ASSUME DeliveryAssumption ==
  /\ Sizes \subseteq Nat \ {0}
  /\ TelegramLimit \in Nat \ {0}
  /\ UserLimits \subseteq Nat \ {0}
  /\ MaxPubs \in Nat /\ MaxUpdates \in Nat /\ MaxTrouble \in Nat

VARIABLES
  task,      \* pc and locals of download_task
  dir,       \* the names in data/downloads/<job>
  sent,      \* the files sent to the chat
  words,     \* the status text written last
  row,       \* the job's status
  pubs,      \* progress events: still to come, and on their way to Redis
  listener,  \* start_progress_listener
  passlog,   \* x265_2pass.log in the worker's directory: whose statistics
  orphan,    \* the phase whose thread, of yt-dlp or py7zr, goes on without the task
  overlap,   \* history: another task's two-pass encode met this one
  trouble    \* for MaxTrouble

vars == <<task, dir, sent, words, row, pubs, listener, passlog, orphan,
          overlap, trouble>>

\* "x" stands for the title, "x.7z" for a part of its archive.
Names  == {"x.mp4", "x.mp3", "x.webm", "compressed_x.mp4", "x.7z"}
Videos == {"x.mp4", "compressed_x.mp4"}
File   == [name : Names, size : Sizes]
NoFile == [name |-> "x.mp4", size |-> 0]

\* Part n of an archive; n = 0 for a file that is no part.
Item   == [name : Names, size : Nat, n : Nat, video : BOOLEAN]

Texts == {"none", "zero", "progress", "compressing", "splitting", "uploading",
          "uploaded", "failed"}
Pcs   == {"start", "download", "settings", "heartbeat", "compressing", "probe",
          "hw", "pass1", "pass2", "size", "split", "ready", "upload", "uploaded",
          "done", "except", "failed", "finally", "ended"}

Task == [pc : Pcs, file : [name : Names, size : Nat],
         encoded : BOOLEAN, parts : Seq(Item), next : Nat \ {0}]

Events == {"part", "full"}   \* below 100 %, and 100 %

TypeOK ==
  /\ task \in Task
  /\ dir \subseteq Names
  /\ sent \in Seq(Item)
  /\ words \in Texts
  /\ row \in {"RUNNING", "DONE", "FAILED"}
  /\ pubs \in [left : 0 .. MaxPubs, part : Nat, full : Nat]
  /\ listener \in [pc : {"none", "starting", "listening", "editing", "sleeping",
                         "stopped"},
                   queue : Seq(Events), event : Events, edits : Nat]
  /\ passlog \in {"none", "own", "other"}
  /\ orphan \in {"none", "download", "split"}
  /\ overlap \in BOOLEAN /\ trouble \in 0 .. MaxTrouble

Init ==
  /\ task = [pc |-> "start", file |-> NoFile, encoded |-> FALSE,
             parts |-> << >>, next |-> 1]
  /\ dir = {} /\ sent = << >> /\ words = "none" /\ row = "RUNNING"
  /\ pubs = [left |-> MaxPubs, part |-> 0, full |-> 0]
  /\ listener = [pc |-> "none", queue |-> << >>, event |-> "part", edits |-> 0]
  /\ passlog = "none"
  /\ orphan = "none" /\ overlap = FALSE /\ trouble = 0

At(pc)   == task.pc = pc
Goto(pc) == task' = [task EXCEPT !.pc = pc]
Trouble  == trouble < MaxTrouble /\ trouble' = trouble + 1

-----------------------------------------------------------------------------
(* The listener *)

Subscribe ==
  /\ listener.pc = "starting"
  /\ listener' = [listener EXCEPT !.pc = "listening"]
  /\ UNCHANGED <<task, dir, sent, words, row, pubs, passlog, orphan, overlap,
                 trouble>>

\* The hook of yt-dlp, in its thread, hands the event to the loop; each one is
\* published by a task of its own.
Publish ==
  /\ At("download") \/ orphan = "download"
  /\ pubs.left > 0
  /\ \E e \in Events : pubs' = [pubs EXCEPT !.left = @ - 1, ![e] = @ + 1]
  /\ UNCHANGED <<task, dir, sent, words, row, listener, passlog, orphan,
                 overlap, trouble>>

\* Redis: events arrive in any order, and before the subscription nowhere.
Deliver(e) ==
  /\ pubs[e] > 0
  /\ pubs' = [pubs EXCEPT ![e] = @ - 1]
  /\ listener' = IF listener.pc \in {"listening", "editing", "sleeping"}
                   THEN [listener EXCEPT !.queue = Append(@, e)]
                   ELSE listener
  /\ UNCHANGED <<task, dir, sent, words, row, passlog, orphan, overlap, trouble>>

\* Mistake: 100 % does not end the listener.
NeverEnough(e) == "listening"

\* After an event has been dealt with.
AfterEvent(e) == IF e = "full" THEN "stopped" ELSE "listening"

\* The listener goes on, or its loop is left.
Resume == [listener EXCEPT !.pc = AfterEvent(listener.event), !.event = "part",
                           !.queue = IF AfterEvent(listener.event) = "stopped"
                                       THEN << >> ELSE @]

\* An event: an edit is begun, or it comes too soon after the last one.
Listen ==
  /\ listener.pc = "listening"
  /\ listener.queue # << >>
  /\ LET e == Head(listener.queue)
         l == [listener EXCEPT !.queue = Tail(@)]
     IN  \/ /\ e = "full" \/ listener.edits < MaxUpdates
            /\ listener' = [l EXCEPT !.pc = "editing", !.event = e]
         \/ /\ e # "full"
            /\ listener' = l
  /\ UNCHANGED <<task, dir, sent, words, row, pubs, passlog, orphan, overlap,
                 trouble>>

EditLands ==
  /\ listener.pc = "editing"
  /\ words' = "progress"
  /\ listener' = [Resume EXCEPT !.edits = @ + 1]
  /\ UNCHANGED <<task, dir, sent, row, pubs, passlog, orphan, overlap, trouble>>

\* TelegramRetryAfter puts the listener to sleep, any other error is logged.
EditFails ==
  /\ listener.pc = "editing"
  /\ Trouble
  /\ listener' \in {[listener EXCEPT !.pc = "sleeping"], Resume}
  /\ UNCHANGED <<task, dir, sent, words, row, pubs, passlog, orphan, overlap>>

WakeUp ==
  /\ listener.pc = "sleeping"
  /\ listener' = Resume
  /\ UNCHANGED <<task, dir, sent, words, row, pubs, passlog, orphan, overlap,
                 trouble>>

\* Mistake: the task is only dropped.
ForgetListener == UNCHANGED <<listener, words>>

\* progress_task.cancel(): an edit on its way lands at once or never.
CancelListener ==
  /\ listener' = [pc |-> IF listener.pc = "none" THEN "none" ELSE "stopped",
                  queue |-> << >>, event |-> "part", edits |-> listener.edits]
  /\ words' \in {words} \cup (IF listener.pc = "editing" THEN {"progress"}
                                                         ELSE {})

-----------------------------------------------------------------------------
(* Up to the file *)

\* notify_user: the text is there before the task goes on.
Notify(text, pc) == words' = text /\ Goto(pc)

\* "Downloading... (0%)", and the listener's task is created.
Start ==
  /\ At("start")
  /\ Notify("zero", "download")
  /\ listener' = [listener EXCEPT !.pc = "starting"]
  /\ UNCHANGED <<dir, sent, row, pubs, passlog, orphan, overlap, trouble>>

\* download_media: a video is made an mp4, audio an mp3; should the conversion
\* leave something else, it is taken as it is.
Download ==
  /\ At("download")
  /\ \E f \in File :
       /\ f.name \in {"x.mp4", "x.mp3", "x.webm"}
       /\ dir' = {f.name}
       /\ task' = [task EXCEPT !.pc = "settings", !.file = f]
  /\ UNCHANGED <<sent, words, row, pubs, listener, passlog, orphan, overlap,
                 trouble>>

\* The user's settings are read now, and decide on the compression.
ReadSettings ==
  /\ At("settings")
  /\ \E limit \in UserLimits, enabled \in BOOLEAN :
       Goto(IF enabled /\ task.file.size > limit THEN "heartbeat" ELSE "size")
  /\ UNCHANGED <<dir, sent, words, row, pubs, listener, passlog, orphan,
                 overlap, trouble>>

AnnounceCompression ==
  /\ At("heartbeat")
  /\ Notify("compressing", "compressing")
  /\ UNCHANGED <<dir, sent, row, pubs, listener, passlog, orphan, overlap,
                 trouble>>

\* "Cancel progress task as it's for downloading".
StopListening ==
  /\ At("compressing")
  /\ CancelListener
  /\ Goto("probe")
  /\ UNCHANGED <<dir, sent, row, pubs, passlog, orphan, overlap, trouble>>

-----------------------------------------------------------------------------
(* compress_video *)

\* detect_hw_encoder.
DetectEncoder ==
  /\ At("probe")
  /\ \E pc \in {"hw", "pass1"} : Goto(pc)
  /\ UNCHANGED <<dir, sent, words, row, pubs, listener, passlog, orphan,
                 overlap, trouble>>

\* Mistake: the suffix is kept.
OutputNameKeepingSuffix(name) ==
  IF name = "x.mp3" THEN "compressed_x.mp3" ELSE "compressed_x.mp4"

\* output_path.
OutputName(name) == IF name = "x.mp4" THEN "compressed_x.mp4" ELSE "x.mp4"

\* The output, of whatever size the encoder makes it.
Encoded ==
  \E size \in Sizes :
    LET f == [name |-> OutputName(task.file.name), size |-> size]
    IN  /\ dir' = dir \cup {f.name}
        /\ task' = [task EXCEPT !.pc = "size", !.file = f, !.encoded = TRUE]

HwEncode ==
  /\ At("hw")
  /\ \/ Encoded
     \/ Goto("pass1") /\ UNCHANGED dir     \* an FFmpegError
  /\ UNCHANGED <<sent, words, row, pubs, listener, passlog, orphan, overlap,
                 trouble>>

\* The first pass of a file without a picture has nothing to write.
Pass1Works == task.file.name # "x.mp3"

\* Mistake: the first pass's return code is not looked at.
Pass1Unchecked ==
  /\ passlog' \in {"own", passlog}
  /\ Goto("pass2")

\* Pass 1 writes the statistics; a failure goes through the finally.
Pass1Result ==
  \/ Pass1Works /\ passlog' = "own"  /\ Goto("pass2")
  \/ passlog' = "none" /\ Goto("except")

Pass1 ==
  /\ At("pass1")
  /\ Pass1Result
  /\ UNCHANGED <<dir, sent, words, row, pubs, listener, orphan, overlap, trouble>>

\* Pass 2 reads whatever statistics are there.
Pass2 ==
  /\ At("pass2")
  /\ \/ passlog # "none" /\ Encoded
     \/ Goto("except") /\ UNCHANGED dir
  /\ passlog' = "none"
  /\ UNCHANGED <<sent, words, row, pubs, listener, orphan, overlap, trouble>>

\* Another task of the worker process encodes: the log's name is the same.
OtherEncode ==
  /\ Trouble
  /\ passlog' \in {"other", "none"}
  /\ overlap' = (overlap \/ At("pass1") \/ At("pass2"))
  /\ UNCHANGED <<task, dir, sent, words, row, pubs, listener, orphan>>

-----------------------------------------------------------------------------
(* Splitting and sending *)

\* Mistake: what the encoder was asked to make fit is taken to fit.
SizeIfNotEncoded == IF task.encoded THEN 0 ELSE task.file.size

\* file_to_upload.stat().st_size
SizeNow == task.file.size

Whole(f) == [name |-> f.name, size |-> f.size, n |-> 0, video |-> FALSE]

\* Text and all, the file is to be sent as it is, or split first.
CheckSize ==
  /\ At("size")
  /\ IF SizeNow > TelegramLimit
       THEN Notify("splitting", "split")
       ELSE /\ task' = [task EXCEPT !.pc = "ready", !.parts = <<Whole(task.file)>>]
            /\ UNCHANGED words
  /\ UNCHANGED <<dir, sent, row, pubs, listener, passlog, orphan, overlap,
                 trouble>>

\* py7zr (external): as many full parts as needed, or fewer if it packs well.
Parts(size) ==
  LET most == (size + TelegramLimit - 1) \div TelegramLimit
      part(n, k) == [name |-> "x.7z", n |-> n, video |-> FALSE,
                     size |-> IF n < k THEN TelegramLimit ELSE 1]
  IN  {[n \in 1 .. k |-> part(n, k)] : k \in 1 .. most}

\* create_split_archive: the parts in the order of their names, none if the
\* title reads as a pattern that does not match itself.
Split ==
  /\ At("split")
  /\ \E parts \in Parts(task.file.size) :
       /\ dir' = dir \cup {"x.7z"}
       /\ \E found \in {parts, << >>} :
            task' = [task EXCEPT !.pc = "ready", !.parts = found]
  /\ UNCHANGED <<sent, words, row, pubs, listener, passlog, orphan, overlap,
                 trouble>>

AnnounceUpload ==
  /\ At("ready")
  /\ Notify("uploading", "upload")
  /\ UNCHANGED <<dir, sent, row, pubs, listener, passlog, orphan, overlap,
                 trouble>>

\* is_part_video, and the suffixes of upload_file; any user may want videos.
AsVideo(item) == Len(task.parts) = 1 /\ item.name \in Videos

\* Mistake: a part that is not accepted is passed over.
AfterRefusal == task' = [task EXCEPT !.next = @ + 1]

\* A refused upload raises.
OnRefusal == Goto("except")

UploadPart ==
  /\ At("upload")
  /\ task.next <= Len(task.parts)
  /\ LET item == task.parts[task.next]
     IN  \E wanted \in BOOLEAN :
           sent' = Append(sent, [item EXCEPT !.video = wanted /\ AsVideo(item)])
  /\ words' = IF Len(task.parts) > 1 THEN "uploading" ELSE words
  /\ task' = [task EXCEPT !.next = @ + 1]
  /\ UNCHANGED <<dir, row, pubs, listener, passlog, orphan, overlap, trouble>>

UploadFails ==
  /\ At("upload")
  /\ task.next <= Len(task.parts)
  /\ Trouble
  /\ OnRefusal
  /\ UNCHANGED <<dir, sent, words, row, pubs, listener, passlog, orphan, overlap>>

-----------------------------------------------------------------------------
(* The end *)

RecordDone ==
  /\ At("upload")
  /\ task.next > Len(task.parts)
  /\ row' = "DONE"
  /\ Goto("uploaded")
  /\ UNCHANGED <<dir, sent, words, pubs, listener, passlog, orphan, overlap,
                 trouble>>

AnnounceDone ==
  /\ At("uploaded")
  /\ Notify("uploaded", "finally")
  /\ UNCHANGED <<dir, sent, row, pubs, listener, passlog, orphan, overlap,
                 trouble>>

\* Anything in the try block raises, up to the last notify; in compress_video
\* that is ffprobe, or a division by a duration of zero.
Raises ==
  /\ task.pc \in Pcs \ {"compressing", "pass2", "except", "failed", "finally",
                        "ended"}
  /\ Trouble
  /\ Goto("except")
  /\ UNCHANGED <<dir, sent, words, row, pubs, listener, passlog, orphan, overlap>>

RecordFailed ==
  /\ At("except")
  /\ row' = "FAILED"
  /\ Goto("failed")
  /\ UNCHANGED <<dir, sent, words, pubs, listener, passlog, orphan, overlap,
                 trouble>>

AnnounceFailed ==
  /\ At("failed")
  /\ Notify("failed", "finally")
  /\ UNCHANGED <<dir, sent, row, pubs, listener, passlog, orphan, overlap,
                 trouble>>

\* Mistake: the directory of a failed job is left.
RemovedIfDone == IF row = "DONE" THEN {} ELSE dir

\* shutil.rmtree
Removed == {}

\* The finally block; py7zr's thread may open its next part while rmtree is at
\* work, which then gives up.
Finally ==
  /\ At("finally")
  /\ CancelListener
  /\ dir' \in {Removed} \cup (IF orphan = "split" THEN {{"x.7z"}} ELSE {})
  /\ Goto("ended")
  /\ UNCHANGED <<sent, row, pubs, passlog, orphan, overlap, trouble>>

\* The handler of the exception raises in its turn, or the task is cancelled by
\* its timeout: only the finally blocks run.  A download or an archive goes on
\* in its thread.
Abandon ==
  /\ task.pc \notin {"start", "finally", "ended"}
  /\ Trouble
  /\ orphan' = IF At("download") \/ At("split") THEN task.pc ELSE "none"
  /\ passlog' = IF At("pass1") \/ At("pass2") THEN "none" ELSE passlog
  /\ Goto("finally")
  /\ UNCHANGED <<dir, sent, words, row, pubs, listener, overlap>>

\* yt-dlp makes the directory again for the next file it writes.
OrphanWrites ==
  /\ orphan = "download"
  /\ dir' = {"x.mp4"}
  /\ UNCHANGED <<task, sent, words, row, pubs, listener, passlog, orphan, overlap,
                 trouble>>

-----------------------------------------------------------------------------
TaskStep ==
  \/ Start \/ Download \/ ReadSettings
  \/ AnnounceCompression \/ StopListening \/ DetectEncoder \/ HwEncode
  \/ Pass1 \/ Pass2
  \/ CheckSize \/ Split \/ AnnounceUpload \/ UploadPart
  \/ RecordDone \/ AnnounceDone \/ RecordFailed \/ AnnounceFailed \/ Finally

ListenerStep == Subscribe \/ Listen \/ EditLands \/ WakeUp

Next ==
  \/ TaskStep \/ ListenerStep
  \/ Publish \/ \E e \in Events : Deliver(e)
  \/ EditFails \/ UploadFails \/ Raises \/ Abandon
  \/ OtherEncode \/ OrphanWrites

Spec == Init /\ [][Next]_vars

\* The event loop runs the task and the listener, and tools come to an end; no
\* progress event need ever arrive.
FairSpec == Spec /\ WF_vars(TaskStep) /\ WF_vars(ListenerStep)

-----------------------------------------------------------------------------
(* Properties *)

\* A job is DONE when its whole file is in the chat: itself, or every part of
\* its archive once and in order, parts as documents.  An archive no part of
\* which was found is the exception: it counts as delivered.
DeliveredWhole ==
  row = "DONE" =>
    /\ \A i \in DOMAIN sent : sent[i].n # 0 => sent[i].n = i /\ ~sent[i].video
    /\ \/ task.parts = << >> /\ task.file.size > TelegramLimit
       \/ Len(sent) = Len(task.parts) /\ Len(sent) # 0

\* Nothing larger than Telegram takes is uploaded, also when the encoder misses
\* the size it was asked for.
UploadsFit == \A i \in DOMAIN sent : sent[i].size <= TelegramLimit

\* Once a compression has silenced the listener no progress of the download is
\* written over what the task says later.  (Without a compression it can be: the
\* listener is then cancelled only after the last text.)
CompressionSilences ==
  task.encoded /\ (row = "DONE" \/ task.pc \in {"split", "upload"}) =>
    words # "progress"

\* The listener's edits are limited: 100 % comes from every file of a download
\* and passes the throttle, but ends the listener.
EditsBounded == listener.edits <= MaxUpdates + 1

\* Every listener stops, whichever way its task ends and though the event of
\* 100 % may be lost.
ListenersStop == listener.pc = "listening" ~> listener.pc = "stopped"

\* A task that has ended leaves no file, unless it was abandoned while the thread
\* of yt-dlp or py7zr was at work.
CleanUnlessOrphaned == task.pc = "ended" /\ orphan = "none" => dir = {}

\* The second pass finds the statistics of the first pass of the same file,
\* unless another task of the worker encoded in between.
StatisticsAreOwn == task.pc = "pass2" /\ ~overlap => passlog = "own"
=============================================================================
