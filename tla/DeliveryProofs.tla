--------------------------- MODULE DeliveryProofs ---------------------------
(* Delivery for files of any size, any limits and any number of events.     *)
EXTENDS Delivery, TLAPS

ListenerStates == {"none", "starting", "listening", "editing", "sleeping", "stopped"}
Listener == [pc : ListenerStates, queue : Seq(Events), event : Events, edits : Nat]

(* What the task and the listener do, by the part of TypeOK they need.      *)
Rest ==
  /\ dir \subseteq Names
  /\ sent \in Seq(Item)
  /\ words \in Texts
  /\ row \in {"RUNNING", "DONE", "FAILED"}
  /\ pubs \in [left : 0 .. MaxPubs, part : Nat, full : Nat]
  /\ passlog \in {"none", "own", "other"}
  /\ orphan \in {"none", "download", "split"}
  /\ overlap \in BOOLEAN /\ trouble \in 0 .. MaxTrouble

LEMMA TypeParts ==
  /\ TypeOK <=> task \in Task /\ listener \in Listener /\ Rest
  /\ TypeOK' <=> task' \in Task /\ listener' \in Listener /\ Rest'
  BY DEF TypeOK, Rest, Listener, ListenerStates

-----------------------------------------------------------------------------
(* Types                                                                    *)

LEMMA InitTyped == Init => TypeOK
<1> SUFFICES ASSUME Init PROVE TypeOK
    OBVIOUS
<1>1. task \in Task
  <2>1. << >> \in Seq(Item)
        OBVIOUS
  <2> QED BY <2>1 DEF Init, Task, Pcs, NoFile, Names
<1>2. listener \in Listener
      BY DEF Init, Listener, ListenerStates, Events
<1>3. Rest
  <2>1. pubs \in [left : 0 .. MaxPubs, part : Nat, full : Nat]
        BY DeliveryAssumption DEF Init
  <2>2. trouble \in 0 .. MaxTrouble
        BY DeliveryAssumption DEF Init
  <2>3. << >> \in Seq(Item)
        OBVIOUS
  <2> QED BY <2>1, <2>2, <2>3 DEF Init, Rest, Texts
<1> QED BY <1>1, <1>2, <1>3, TypeParts

LEMMA GotoTyped ==
  ASSUME task \in Task, NEW pc \in Pcs, Goto(pc)
  PROVE  task' \in Task
  BY DEF Goto, Task

LEMMA TroubleTyped ==
  ASSUME trouble \in 0 .. MaxTrouble, Trouble
  PROVE  trouble' \in 0 .. MaxTrouble
  BY DeliveryAssumption DEF Trouble

LEMMA CancelTyped ==
  ASSUME listener \in Listener, words \in Texts, CancelListener
  PROVE  listener' \in Listener /\ words' \in Texts
<1>1. listener.edits \in Nat
      BY DEF Listener
<1>2. << >> \in Seq(Events)
      OBVIOUS
<1> QED BY <1>1, <1>2 DEF CancelListener, Listener, ListenerStates, Events, Texts

LEMMA ResumeTyped ==
  ASSUME listener \in Listener
  PROVE  /\ Resume \in Listener
         /\ Resume.pc \in {"listening", "stopped"}
         /\ Resume.edits = listener.edits
         /\ Resume.pc = "stopped" <=> listener.event = "full"
<1>1. << >> \in Seq(Events)
      OBVIOUS
<1> QED BY <1>1 DEF Resume, AfterEvent, Listener, ListenerStates, Events

LEMMA PartsTyped ==
  ASSUME NEW size \in Nat, NEW parts \in Parts(size)
  PROVE  /\ parts \in Seq(Item)
         /\ \A i \in DOMAIN parts : parts[i].n = i /\ parts[i].size <= TelegramLimit
<1> DEFINE part(n, k) == [name |-> "x.7z", n |-> n, video |-> FALSE,
                          size |-> IF n < k THEN TelegramLimit ELSE 1]
<1>1. TelegramLimit \in Nat /\ TelegramLimit >= 1
      BY DeliveryAssumption
<1>2. (size + TelegramLimit - 1) \div TelegramLimit \in Nat
      BY <1>1
<1>3. PICK k \in 1 .. ((size + TelegramLimit - 1) \div TelegramLimit) :
        parts = [n \in 1 .. k |-> part(n, k)]
      BY DEF Parts
<1>4. k \in Nat
      BY <1>2, <1>3
<1>5. \A n \in 1 .. k : /\ part(n, k) \in Item
                        /\ part(n, k).n = n
                        /\ part(n, k).size <= TelegramLimit
      BY <1>1, <1>4 DEF Item, Names
<1> HIDE DEF part
<1>6. parts \in Seq(Item)
      BY <1>3, <1>4, <1>5
<1> QED BY <1>3, <1>4, <1>5, <1>6

LEMMA WholeTyped ==
  ASSUME task \in Task
  PROVE  Whole(task.file) \in Item
  BY DEF Whole, Task, Item

LEMMA FileTyped == \A f \in File : f \in [name : Names, size : Nat]
  BY DeliveryAssumption DEF File

LEMMA EncodedTyped ==
  ASSUME task \in Task, dir \subseteq Names, Encoded
  PROVE  task' \in Task /\ dir' \subseteq Names
<1>1. PICK size \in Sizes :
        LET f == [name |-> OutputName(task.file.name), size |-> size]
        IN  /\ dir' = dir \cup {f.name}
            /\ task' = [task EXCEPT !.pc = "size", !.file = f, !.encoded = TRUE]
      BY DEF Encoded
<1>2. [name |-> OutputName(task.file.name), size |-> size] \in File
      BY DEF OutputName, File, Names
<1>3. [name |-> OutputName(task.file.name), size |-> size] \in [name : Names, size : Nat]
      BY <1>2, FileTyped
<1>4. PICK f \in [name : Names, size : Nat] :
        /\ dir' = dir \cup {f.name}
        /\ task' = [task EXCEPT !.pc = "size", !.file = f, !.encoded = TRUE]
      BY <1>1, <1>3
<1> QED BY <1>4 DEF Task, Pcs

LEMMA ListenerKeepsTypes ==
  ASSUME TypeOK,
         ListenerStep \/ Publish \/ (\E e \in Events : Deliver(e)) \/ EditFails
  PROVE  TypeOK'
<1>0. task \in Task /\ listener \in Listener /\ Rest
      BY TypeParts
<1>1. CASE Subscribe
  <2>1. listener' \in Listener
        BY <1>0, <1>1 DEF Subscribe, Listener, ListenerStates
  <2> QED BY <1>0, <1>1, <2>1, TypeParts DEF Subscribe, Rest
<1>2. CASE Publish
  <2>1. pubs' \in [left : 0 .. MaxPubs, part : Nat, full : Nat]
    <3>0. /\ pubs.left \in 0 .. MaxPubs /\ pubs.left > 0
          /\ pubs.part \in Nat /\ pubs.full \in Nat
          BY <1>0, <1>2 DEF Publish, Rest
    <3>1. /\ pubs.left - 1 \in 0 .. MaxPubs
          /\ pubs.part + 1 \in Nat /\ pubs.full + 1 \in Nat
          BY <3>0, DeliveryAssumption
    <3>2. \/ pubs' = [pubs EXCEPT !.left = pubs.left - 1, !.part = pubs.part + 1]
          \/ pubs' = [pubs EXCEPT !.left = pubs.left - 1, !.full = pubs.full + 1]
          BY <1>2 DEF Publish, Events
    <3> QED BY <1>0, <3>1, <3>2 DEF Rest
  <2> QED BY <1>0, <1>2, <2>1, TypeParts DEF Publish, Rest
<1>3. ASSUME NEW e \in Events, Deliver(e)
      PROVE  TypeOK'
  <2>1. pubs' \in [left : 0 .. MaxPubs, part : Nat, full : Nat]
        BY <1>0, <1>3 DEF Deliver, Rest, Events
  <2>2. listener' \in Listener
    <3>1. Append(listener.queue, e) \in Seq(Events)
          BY <1>0 DEF Listener
    <3> QED BY <1>0, <1>3, <3>1 DEF Deliver, Listener
  <2> QED BY <1>0, <1>3, <2>1, <2>2, TypeParts DEF Deliver, Rest
<1>4. CASE Listen
  <2>1. /\ listener.queue \in Seq(Events) /\ listener.queue # << >>
        BY <1>0, <1>4 DEF Listen, Listener
  <2>2. Head(listener.queue) \in Events /\ Tail(listener.queue) \in Seq(Events)
        BY <2>1
  <2>3. listener' \in Listener
        BY <1>0, <1>4, <2>2 DEF Listen, Listener, ListenerStates
  <2> QED BY <1>0, <1>4, <2>3, TypeParts DEF Listen, Rest
<1>5. CASE EditLands
  <2>1. [Resume EXCEPT !.edits = @ + 1] \in Listener
        BY <1>0, ResumeTyped DEF Listener
  <2> QED BY <1>0, <1>5, <2>1, TypeParts DEF EditLands, Rest, Texts
<1>6. CASE EditFails
  <2>1. [listener EXCEPT !.pc = "sleeping"] \in Listener
        BY <1>0 DEF Listener, ListenerStates
  <2>2. trouble' \in 0 .. MaxTrouble
        BY <1>0, <1>6, TroubleTyped DEF EditFails, Rest
  <2> QED BY <1>0, <1>6, <2>1, <2>2, ResumeTyped, TypeParts DEF EditFails, Rest
<1>7. CASE WakeUp
      BY <1>0, <1>7, ResumeTyped, TypeParts DEF WakeUp, Rest
<1> QED BY <1>1, <1>2, <1>3, <1>4, <1>5, <1>6, <1>7 DEF ListenerStep

LEMMA TaskKeepsTypes ==
  ASSUME TypeOK, TaskStep
  PROVE  TypeOK'
<1>0. task \in Task /\ listener \in Listener /\ Rest
      BY TypeParts
<1>1. CASE Start
  <2>1. listener' \in Listener
        BY <1>0, <1>1 DEF Start, Listener, ListenerStates
  <2>2. task' \in Task
        BY <1>0, <1>1, GotoTyped DEF Start, Notify, Pcs
  <2> QED BY <1>0, <1>1, <2>1, <2>2, TypeParts DEF Start, Notify, Rest, Texts
<1>2. CASE Download
  <2>1. PICK f \in File : /\ f.name \in Names /\ dir' = {f.name}
                          /\ task' = [task EXCEPT !.pc = "settings", !.file = f]
        BY <1>2 DEF Download, File
  <2>2. task' \in Task
        BY <1>0, <2>1, FileTyped DEF Task, Pcs
  <2> QED BY <1>0, <1>2, <2>1, <2>2, TypeParts DEF Download, Rest
<1>3. CASE ReadSettings
  <2>1. task' \in Task
        BY <1>0, <1>3, GotoTyped DEF ReadSettings, Pcs
  <2> QED BY <1>0, <1>3, <2>1, TypeParts DEF ReadSettings, Rest
<1>4. CASE AnnounceCompression \/ AnnounceUpload \/ AnnounceDone \/ AnnounceFailed
  <2>1. task' \in Task /\ words' \in Texts
        BY <1>0, <1>4, GotoTyped
           DEF AnnounceCompression, AnnounceUpload, AnnounceDone, AnnounceFailed,
               Notify, Pcs, Texts
  <2> QED BY <1>0, <1>4, <2>1, TypeParts
          DEF AnnounceCompression, AnnounceUpload, AnnounceDone, AnnounceFailed, Rest
<1>5. CASE StopListening
  <2>1. task' \in Task
        BY <1>0, <1>5, GotoTyped DEF StopListening, Pcs
  <2>2. listener' \in Listener /\ words' \in Texts
        BY <1>0, <1>5, CancelTyped DEF StopListening, Rest
  <2> QED BY <1>0, <1>5, <2>1, <2>2, TypeParts DEF StopListening, Rest
<1>6. CASE DetectEncoder
  <2>1. task' \in Task
        BY <1>0, <1>6, GotoTyped DEF DetectEncoder, Pcs
  <2> QED BY <1>0, <1>6, <2>1, TypeParts DEF DetectEncoder, Rest
<1>7. CASE HwEncode
  <2>1. task' \in Task /\ dir' \subseteq Names
        BY <1>0, <1>7, GotoTyped, EncodedTyped DEF HwEncode, Pcs, Rest
  <2> QED BY <1>0, <1>7, <2>1, TypeParts DEF HwEncode, Rest
<1>8. CASE Pass1
  <2>1. task' \in Task /\ passlog' \in {"none", "own", "other"}
        BY <1>0, <1>8, GotoTyped DEF Pass1, Pass1Result, Pcs
  <2> QED BY <1>0, <1>8, <2>1, TypeParts DEF Pass1, Rest
<1>9. CASE Pass2
  <2>1. task' \in Task /\ dir' \subseteq Names
        BY <1>0, <1>9, GotoTyped, EncodedTyped DEF Pass2, Pcs, Rest
  <2> QED BY <1>0, <1>9, <2>1, TypeParts DEF Pass2, Rest
<1>10. CASE CheckSize
  <2>1. task' \in Task /\ words' \in Texts
    <3>1. CASE Notify("splitting", "split")
          BY <1>0, <3>1, GotoTyped DEF Notify, Texts, Pcs
    <3>2. CASE /\ task' = [task EXCEPT !.pc = "ready", !.parts = <<Whole(task.file)>>]
               /\ UNCHANGED words
      <4>1. <<Whole(task.file)>> \in Seq(Item)
            BY <1>0, WholeTyped
      <4> QED BY <1>0, <3>2, <4>1 DEF Task, Pcs, Rest
    <3> QED BY <1>10, <3>1, <3>2 DEF CheckSize
  <2> QED BY <1>0, <1>10, <2>1, TypeParts DEF CheckSize, Rest
<1>11. CASE Split
  <2>1. task.file.size \in Nat
        BY <1>0 DEF Task
  <2>2. PICK parts \in Parts(task.file.size) :
          /\ dir' = dir \cup {"x.7z"}
          /\ \E found \in {parts, << >>} :
               task' = [task EXCEPT !.pc = "ready", !.parts = found]
        BY <1>11 DEF Split
  <2>3. parts \in Seq(Item) /\ << >> \in Seq(Item)
        BY <2>1, PartsTyped
  <2>4. task' \in Task
    <3>1. PICK found \in Seq(Item) : task' = [task EXCEPT !.pc = "ready", !.parts = found]
          BY <2>2, <2>3
    <3> QED BY <1>0, <3>1 DEF Task, Pcs
  <2>5. dir' \subseteq Names
        BY <1>0, <2>2 DEF Rest, Names
  <2> QED BY <1>0, <1>11, <2>4, <2>5, TypeParts DEF Split, Rest
<1>12. CASE UploadPart
  <2>1. /\ task.parts \in Seq(Item) /\ task.next \in Nat \ {0}
        /\ task.next <= Len(task.parts)
        BY <1>0, <1>12 DEF UploadPart, Task
  <2>2. task' \in Task
    <3>1. task' = [task EXCEPT !.next = task.next + 1]
          BY <1>12 DEF UploadPart
    <3> QED BY <1>0, <2>1, <3>1 DEF Task
  <2> DEFINE item == task.parts[task.next]
  <2>4. item \in Item
        BY <2>1
  <2>5. PICK wanted \in BOOLEAN :
          sent' = Append(sent, [item EXCEPT !.video = wanted /\ AsVideo(item)])
        BY <1>12 DEF UploadPart
  <2>6. (wanted /\ AsVideo(item)) \in BOOLEAN
        BY Zenon DEF AsVideo
  <2>7. [item EXCEPT !.video = wanted /\ AsVideo(item)] \in Item
        BY <2>4, <2>6 DEF Item
  <2>3. sent' \in Seq(Item)
        BY <1>0, <2>5, <2>7 DEF Rest
  <2> QED BY <1>0, <1>12, <2>2, <2>3, TypeParts DEF UploadPart, Rest, Texts
<1>13. CASE RecordDone \/ RecordFailed
  <2>1. task' \in Task
        BY <1>0, <1>13, GotoTyped DEF RecordDone, RecordFailed, Pcs
  <2> QED BY <1>0, <1>13, <2>1, TypeParts DEF RecordDone, RecordFailed, Rest
<1>14. CASE Finally
  <2>1. task' \in Task
        BY <1>0, <1>14, GotoTyped DEF Finally, Pcs
  <2>2. listener' \in Listener /\ words' \in Texts
        BY <1>0, <1>14, CancelTyped DEF Finally, Rest
  <2>3. dir' \subseteq Names
        BY <1>14 DEF Finally, Removed, Names
  <2> QED BY <1>0, <1>14, <2>1, <2>2, <2>3, TypeParts DEF Finally, Rest
<1> QED BY <1>1, <1>2, <1>3, <1>4, <1>5, <1>6, <1>7, <1>8, <1>9, <1>10, <1>11,
           <1>12, <1>13, <1>14 DEF TaskStep

LEMMA FaultKeepsTypes ==
  ASSUME TypeOK, UploadFails \/ Raises \/ Abandon \/ OtherEncode \/ OrphanWrites
  PROVE  TypeOK'
<1>0. task \in Task /\ listener \in Listener /\ Rest
      BY TypeParts
<1>1. CASE UploadFails \/ Raises
  <2>1. task' \in Task
        BY <1>0, <1>1, GotoTyped DEF UploadFails, OnRefusal, Raises, Pcs
  <2>2. trouble' \in 0 .. MaxTrouble
        BY <1>0, <1>1, TroubleTyped DEF UploadFails, Raises, Rest
  <2> QED BY <1>0, <1>1, <2>1, <2>2, TypeParts DEF UploadFails, Raises, Rest
<1>2. CASE Abandon
  <2>1. task' \in Task
        BY <1>0, <1>2, GotoTyped DEF Abandon, Pcs
  <2>2. trouble' \in 0 .. MaxTrouble
        BY <1>0, <1>2, TroubleTyped DEF Abandon, Rest
  <2> QED BY <1>0, <1>2, <2>1, <2>2, TypeParts DEF Abandon, At, Rest
<1>3. CASE OtherEncode
  <2>1. trouble' \in 0 .. MaxTrouble
        BY <1>0, <1>3, TroubleTyped DEF OtherEncode, Rest
  <2> QED BY <1>0, <1>3, <2>1, TypeParts DEF OtherEncode, At, Rest
<1>4. CASE OrphanWrites
      BY <1>0, <1>4, TypeParts DEF OrphanWrites, Rest, Names
<1> QED BY <1>1, <1>2, <1>3, <1>4

LEMMA NextCases ==
  ASSUME Next
  PROVE  \/ TaskStep
         \/ ListenerStep \/ Publish \/ (\E e \in Events : Deliver(e)) \/ EditFails
         \/ UploadFails \/ Raises \/ Abandon \/ OtherEncode \/ OrphanWrites
  BY DEF Next

LEMMA StepKeepsTypes == TypeOK /\ [Next]_vars => TypeOK'
<1>1. CASE UNCHANGED vars
      BY <1>1 DEF vars, TypeOK
<1> QED BY <1>1, NextCases, TaskKeepsTypes, ListenerKeepsTypes, FaultKeepsTypes

(* The task, the listener and what they write stay of their types, whatever *)
(* raises and whenever the task is abandoned (workers/download.py).         *)
THEOREM TypesHold == Spec => []TypeOK
<1> QED BY InitTyped, StepKeepsTypes, PTL DEF Spec

-----------------------------------------------------------------------------
(* Two invariants that are inductive by themselves                          *)

(* The second pass finds the statistics of the first pass of the same file, *)
(* unless another task encoded in between (utils/ffmpeg.py).                *)
THEOREM StatisticsAreOwnHolds == Spec => []StatisticsAreOwn
<1>1. Init => StatisticsAreOwn
      BY DEF Init, StatisticsAreOwn
<1>2. TypeOK /\ StatisticsAreOwn /\ [Next]_vars => StatisticsAreOwn'
  <2> SUFFICES ASSUME TypeOK, StatisticsAreOwn, [Next]_vars PROVE StatisticsAreOwn'
      OBVIOUS
  <2>0. task \in Task
        BY DEF TypeOK
  <2>1. CASE Pass1
        BY <2>0, <2>1 DEF Pass1, Pass1Result, Goto, Task, StatisticsAreOwn
  <2>2. CASE OtherEncode
        BY <2>2 DEF OtherEncode, At, StatisticsAreOwn
  <2>3. ASSUME task'.pc # "pass2"
        PROVE  StatisticsAreOwn'
        BY <2>3 DEF StatisticsAreOwn
  <2>4. ASSUME UNCHANGED <<task, passlog, overlap>>
        PROVE  StatisticsAreOwn'
        BY <2>4 DEF StatisticsAreOwn
  <2>5. CASE TaskStep /\ ~Pass1
    <3>1. task'.pc # "pass2"
      <4>1. ASSUME NEW pc \in Pcs \ {"pass2"}, Goto(pc)
            PROVE  task'.pc # "pass2"
            BY <2>0, <4>1 DEF Goto, Task
      <4>2. CASE Start \/ ReadSettings \/ AnnounceCompression \/ StopListening \/ DetectEncoder
            BY <4>1, <4>2 DEF Start, ReadSettings, AnnounceCompression, StopListening,
                              DetectEncoder, Notify, Pcs
      <4>3. CASE Encoded
            BY <2>0, <4>3 DEF Encoded, Task
      <4>4. CASE HwEncode \/ Pass2
            BY <4>1, <4>3, <4>4 DEF HwEncode, Pass2, Pcs
      <4>5. CASE Download \/ Split \/ UploadPart
            BY <2>0, <4>5 DEF Download, Split, UploadPart, At, Task
      <4>6. CASE CheckSize
            BY <2>0, <4>1, <4>6 DEF CheckSize, Notify, Task, Pcs
      <4>7. CASE AnnounceUpload \/ RecordDone \/ AnnounceDone \/ RecordFailed
                   \/ AnnounceFailed \/ Finally
            BY <4>1, <4>7 DEF AnnounceUpload, RecordDone, AnnounceDone, RecordFailed,
                              AnnounceFailed, Finally, Notify, Pcs
      <4> QED BY <2>5, <4>2, <4>4, <4>5, <4>6, <4>7 DEF TaskStep
    <3> QED BY <2>3, <3>1
  <2>6. CASE ListenerStep \/ Publish \/ (\E e \in Events : Deliver(e)) \/ EditFails
               \/ OrphanWrites \/ UNCHANGED vars
        BY <2>4, <2>6 DEF ListenerStep, Subscribe, Listen, EditLands, WakeUp, Publish,
                          Deliver, EditFails, OrphanWrites, vars
  <2>7. CASE UploadFails \/ Raises \/ Abandon
        BY <2>0, <2>3, <2>7 DEF UploadFails, OnRefusal, Raises, Abandon, Goto, Task
  <2> QED BY <2>1, <2>2, <2>5, <2>6, <2>7, NextCases
<1> QED BY <1>1, <1>2, TypesHold, PTL DEF Spec

(* A task that has ended leaves no file, unless the thread of yt-dlp or     *)
(* py7zr goes on without it: the finally of download_task removes the       *)
(* directory.                                                               *)
THEOREM NothingLeft == Spec => []CleanUnlessOrphaned
<1>1. Init => CleanUnlessOrphaned
      BY DEF Init, CleanUnlessOrphaned
<1>2. TypeOK /\ CleanUnlessOrphaned /\ [Next]_vars => CleanUnlessOrphaned'
  <2> SUFFICES ASSUME TypeOK, CleanUnlessOrphaned, [Next]_vars
               PROVE  CleanUnlessOrphaned'
      OBVIOUS
  <2>0. task \in Task
        BY DEF TypeOK
  <2>1. CASE Finally
        BY <2>1 DEF Finally, Removed, CleanUnlessOrphaned
  <2>2. CASE OrphanWrites
        BY <2>2 DEF OrphanWrites, CleanUnlessOrphaned
  <2>3. ASSUME task'.pc # "ended"
        PROVE  CleanUnlessOrphaned'
        BY <2>3 DEF CleanUnlessOrphaned
  <2>4. ASSUME UNCHANGED <<task, dir, orphan>>
        PROVE  CleanUnlessOrphaned'
        BY <2>4 DEF CleanUnlessOrphaned
  <2>5. ASSUME NEW pc \in Pcs \ {"ended"}, Goto(pc)
        PROVE  CleanUnlessOrphaned'
        BY <2>0, <2>3, <2>5 DEF Goto, Task
  <2>6. CASE TaskStep /\ ~Finally
    <3>1. CASE Start \/ ReadSettings \/ AnnounceCompression \/ StopListening \/ DetectEncoder
          BY <2>5, <3>1 DEF Start, ReadSettings, AnnounceCompression, StopListening,
                            DetectEncoder, Notify, Pcs
    <3>2. CASE Encoded
          BY <2>0, <2>3, <3>2 DEF Encoded, Task
    <3>3. CASE HwEncode \/ Pass1 \/ Pass2
          BY <2>5, <3>2, <3>3 DEF HwEncode, Pass1, Pass1Result, Pass2, Pcs
    <3>4. CASE Download \/ Split \/ UploadPart
          BY <2>0, <2>3, <3>4 DEF Download, Split, UploadPart, At, Task
    <3>5. CASE CheckSize
          BY <2>0, <2>3, <2>5, <3>5 DEF CheckSize, Notify, Task, Pcs
    <3>6. CASE AnnounceUpload \/ RecordDone \/ AnnounceDone \/ RecordFailed \/ AnnounceFailed
          BY <2>5, <3>6 DEF AnnounceUpload, RecordDone, AnnounceDone, RecordFailed,
                            AnnounceFailed, Notify, Pcs
    <3> QED BY <2>6, <3>1, <3>3, <3>4, <3>5, <3>6 DEF TaskStep
  <2>7. CASE ListenerStep \/ Publish \/ (\E e \in Events : Deliver(e)) \/ EditFails
               \/ OtherEncode \/ UNCHANGED vars
        BY <2>4, <2>7 DEF ListenerStep, Subscribe, Listen, EditLands, WakeUp, Publish,
                          Deliver, EditFails, OtherEncode, vars
  <2>8. CASE UploadFails \/ Raises \/ Abandon
        BY <2>5, <2>8 DEF UploadFails, OnRefusal, Raises, Abandon, Pcs
  <2> QED BY <2>1, <2>2, <2>6, <2>7, <2>8, NextCases
<1> QED BY <1>1, <1>2, TypesHold, PTL DEF Spec

-----------------------------------------------------------------------------
(* What is sent                                                             *)

Early  == {"start", "download", "settings", "heartbeat", "compressing", "probe",
           "hw", "pass1", "pass2", "size", "split"}
Packed == {"ready", "upload", "uploaded"}
Late   == {"uploaded", "except", "failed", "finally", "ended"}

(* A part of an archive is where it belongs and no video; all fit.          *)
GoodParts ==
  \A i \in DOMAIN task.parts :
    /\ task.parts[i].size <= TelegramLimit
    /\ task.parts[i].n # 0 => task.parts[i].n = i /\ task.parts[i].name \notin Videos

GoodSent ==
  \A i \in DOMAIN sent :
    /\ sent[i].size <= TelegramLimit
    /\ sent[i].n # 0 => sent[i].n = i /\ ~sent[i].video

(* Nothing is packed too early, and only a large file into nothing.         *)
Order ==
  /\ task.pc \in Early => task.parts = << >>
  /\ task.pc = "split" => task.file.size > TelegramLimit
  /\ task.pc \in Packed /\ task.parts = << >> => task.file.size > TelegramLimit

Complete ==
  \/ task.parts = << >> /\ task.file.size > TelegramLimit
  \/ Len(sent) = Len(task.parts) /\ Len(sent) # 0

SendInv ==
  /\ Len(sent) = task.next - 1
  /\ task.next - 1 <= Len(task.parts)
  /\ GoodParts /\ GoodSent /\ Order
  /\ row = "DONE" => task.pc \in Late /\ Complete

LEMMA SendTypes ==
  ASSUME TypeOK
  PROVE  /\ task \in Task /\ task.pc \in Pcs /\ task.parts \in Seq(Item)
         /\ task.next \in Nat \ {0} /\ sent \in Seq(Item)
  BY DEF TypeOK, Task

(* A step that only goes on.                                                *)
LEMMA SendIfMoved ==
  ASSUME TypeOK, SendInv, NEW pc \in Pcs, Goto(pc), UNCHANGED <<sent, row>>,
         pc \in Early => task.pc \in Early,
         pc = "split" => task.file.size > TelegramLimit,
         pc \in Packed => task.pc \in Packed,
         row = "DONE" => pc \in Late
  PROVE  SendInv'
<1>1. /\ task'.pc = pc /\ task'.parts = task.parts /\ task'.next = task.next
      /\ task'.file = task.file
      BY SendTypes DEF Goto, Task
<1>2. GoodParts' /\ GoodSent'
      BY <1>1 DEF SendInv, GoodParts, GoodSent
<1>3. Order'
      BY <1>1 DEF SendInv, Order
<1>4. row' = "DONE" => task'.pc \in Late /\ Complete'
      BY <1>1 DEF SendInv, Complete
<1> QED BY <1>1, <1>2, <1>3, <1>4 DEF SendInv

LEMMA SendIfLeft ==
  ASSUME SendInv, UNCHANGED <<task, sent, row>>
  PROVE  SendInv'
  BY DEF SendInv, GoodParts, GoodSent, Order, Complete

(* A step up to the size, whose file may be another one.                    *)
LEMMA SendIfEarly ==
  ASSUME TypeOK, SendInv, task.pc \in Early, NEW pc \in Early \ {"split"},
         NEW f \in [name : Names, size : Nat], NEW b \in BOOLEAN,
         task' = [task EXCEPT !.pc = pc, !.file = f, !.encoded = b],
         UNCHANGED <<sent, row>>
  PROVE  SendInv'
<1>1. /\ task'.pc = pc /\ task'.parts = task.parts /\ task'.next = task.next
      BY SendTypes DEF Task
<1>2. row # "DONE" /\ task.parts = << >>
      BY DEF SendInv, Order, Early, Late
<1>3. GoodParts' /\ GoodSent' /\ Order'
      BY <1>1, <1>2 DEF SendInv, GoodParts, GoodSent, Order, Early, Packed
<1> QED BY <1>1, <1>2, <1>3 DEF SendInv

LEMMA SendIfEncoded ==
  ASSUME TypeOK, SendInv, task.pc \in Early, Encoded, UNCHANGED <<sent, row>>
  PROVE  SendInv'
<1>1. PICK f \in [name : Names, size : Nat] :
        task' = [task EXCEPT !.pc = "size", !.file = f, !.encoded = TRUE]
  <2>1. \A size \in Sizes : [name |-> OutputName(task.file.name), size |-> size] \in File
        BY DEF OutputName, File, Names
  <2> QED BY <2>1, FileTyped DEF Encoded
<1> QED BY <1>1, SendIfEarly DEF Early

LEMMA SendIfPacked ==
  ASSUME TypeOK, SendInv, task.pc \in {"size", "split"}, NEW parts \in Seq(Item),
         task' = [task EXCEPT !.pc = "ready", !.parts = parts],
         UNCHANGED <<sent, row>>,
         parts = << >> => task.file.size > TelegramLimit,
         \A i \in DOMAIN parts :
           /\ parts[i].size <= TelegramLimit
           /\ parts[i].n # 0 => parts[i].n = i /\ parts[i].name \notin Videos
  PROVE  SendInv'
<1>1. /\ task'.pc = "ready" /\ task'.parts = parts /\ task'.next = task.next
      /\ task'.file = task.file
      BY SendTypes DEF Task
<1>2. row # "DONE" /\ task.parts = << >>
      BY DEF SendInv, Order, Early, Late
<1>3. GoodParts' /\ GoodSent' /\ Order'
      BY <1>1 DEF SendInv, GoodParts, GoodSent, Order, Early, Packed
<1>4. task.next - 1 <= Len(parts)
      BY <1>2, SendTypes DEF SendInv
<1> QED BY <1>1, <1>2, <1>3, <1>4 DEF SendInv

LEMMA PartsNamed ==
  ASSUME NEW size \in Nat, NEW parts \in Parts(size), NEW i \in DOMAIN parts
  PROVE  parts[i].name = "x.7z"
  BY DEF Parts

LEMMA SendIfSent ==
  ASSUME TypeOK, SendInv, UploadPart
  PROVE  SendInv'
<1>0. /\ task.next <= Len(task.parts) /\ task.pc = "upload"
      /\ UNCHANGED row
      BY DEF UploadPart, At
<1> DEFINE item == task.parts[task.next]
<1>1. item \in Item /\ task.next \in DOMAIN task.parts
      BY <1>0, SendTypes
<1>2. PICK wanted \in BOOLEAN :
        sent' = Append(sent, [item EXCEPT !.video = wanted /\ AsVideo(item)])
      BY DEF UploadPart
<1> DEFINE new == [item EXCEPT !.video = wanted /\ AsVideo(item)]
<1>3. (wanted /\ AsVideo(item)) \in BOOLEAN
      BY Zenon DEF AsVideo
<1>4. /\ new \in Item /\ new.size = item.size /\ new.n = item.n
      /\ new.video = (wanted /\ AsVideo(item))
      BY <1>1, <1>3 DEF Item
<1>5. /\ item.size <= TelegramLimit
      /\ item.n # 0 => item.n = task.next /\ item.name \notin Videos
      BY <1>1 DEF SendInv, GoodParts
<1>6. new.n # 0 => new.n = task.next /\ ~new.video
      BY <1>4, <1>5 DEF AsVideo
<1> HIDE DEF new
<1>7. /\ Len(sent') = Len(sent) + 1 /\ Len(sent') = task.next
      /\ \A i \in DOMAIN sent : sent'[i] = sent[i]
      /\ sent'[task.next] = new
      BY <1>2, <1>4, SendTypes DEF SendInv, new
<1>8. \A i \in DOMAIN sent' : i \in DOMAIN sent \/ i = task.next
      BY <1>2, <1>4, <1>7, SendTypes DEF new
<1>9. GoodSent'
      BY <1>4, <1>5, <1>6, <1>7, <1>8 DEF SendInv, GoodSent
<1>10. task' = [task EXCEPT !.next = task.next + 1]
       BY DEF UploadPart
<1>11. /\ task'.pc = task.pc /\ task'.parts = task.parts /\ task'.next = task.next + 1
       /\ task'.file = task.file
       BY <1>10, SendTypes DEF Task
<1>12. GoodParts' /\ Order'
       BY <1>11 DEF SendInv, GoodParts, Order
<1>13. row # "DONE"
       BY <1>0 DEF SendInv, Late
<1> QED BY <1>0, <1>7, <1>9, <1>11, <1>12, <1>13, SendTypes DEF SendInv

LEMMA SendKept ==
  ASSUME TypeOK, SendInv, [Next]_vars
  PROVE  SendInv'
<1>0. task.pc \in Early => row # "DONE"
      BY DEF SendInv, Early, Late
<1>1. CASE Start \/ ReadSettings \/ AnnounceCompression \/ StopListening \/ DetectEncoder
  <2>1. PICK pc \in Early \ {"split"} : Goto(pc) /\ task.pc \in Early
        BY <1>1 DEF Start, ReadSettings, AnnounceCompression, StopListening,
                    DetectEncoder, Notify, At, Early
  <2>2. UNCHANGED <<sent, row>> /\ pc \in Pcs /\ pc \notin Packed
        BY <1>1 DEF Start, ReadSettings, AnnounceCompression, StopListening,
                    DetectEncoder, Early, Pcs, Packed
  <2> QED BY <1>0, <2>1, <2>2, SendIfMoved
<1>2. CASE Download
  <2>1. PICK f \in [name : Names, size : Nat] :
          task' = [task EXCEPT !.pc = "settings", !.file = f]
        BY <1>2, FileTyped DEF Download
  <2>2. task' = [task EXCEPT !.pc = "settings", !.file = f, !.encoded = task.encoded]
        BY <2>1, SendTypes DEF Task
  <2>3. task.encoded \in BOOLEAN
        BY SendTypes DEF Task
  <2> QED BY <1>2, <2>2, <2>3, SendIfEarly DEF Download, At, Early
<1>3. CASE HwEncode \/ Pass2
  <2>1. task.pc \in Early /\ UNCHANGED <<sent, row>>
        BY <1>3 DEF HwEncode, Pass2, At, Early
  <2>2. CASE Encoded
        BY <2>1, <2>2, SendIfEncoded
  <2>3. CASE Goto("pass1") \/ Goto("except")
        BY <1>0, <2>1, <2>3, SendIfMoved DEF Pcs, Early, Packed, Late
  <2> QED BY <1>3, <2>2, <2>3 DEF HwEncode, Pass2
<1>4. CASE Pass1
  <2>1. task.pc \in Early /\ UNCHANGED <<sent, row>>
        BY <1>4 DEF Pass1, At, Early
  <2>2. Goto("pass2") \/ Goto("except")
        BY <1>4 DEF Pass1, Pass1Result
  <2> QED BY <1>0, <2>1, <2>2, SendIfMoved DEF Pcs, Early, Packed, Late
<1>5. CASE CheckSize
  <2>1. task.pc = "size" /\ UNCHANGED <<sent, row>> /\ task.file.size \in Nat
        BY <1>5, SendTypes DEF CheckSize, At, Task
  <2>2. CASE task.file.size > TelegramLimit
        BY <1>0, <1>5, <2>1, <2>2, SendIfMoved
           DEF CheckSize, SizeNow, Notify, Pcs, Early, Packed, Late
  <2>3. CASE ~(task.file.size > TelegramLimit)
    <3> DEFINE whole == Whole(task.file)
    <3>1. whole \in Item /\ whole.size = task.file.size /\ whole.n = 0
          BY WholeTyped, SendTypes DEF Whole
    <3>2. task' = [task EXCEPT !.pc = "ready", !.parts = <<whole>>]
          BY <1>5, <2>3 DEF CheckSize, SizeNow
    <3> HIDE DEF whole
    <3>3. <<whole>> \in Seq(Item) /\ <<whole>> # << >>
          BY <3>1
    <3>4. \A i \in DOMAIN <<whole>> : <<whole>>[i] = whole
          OBVIOUS
    <3>5. task.file.size <= TelegramLimit
          BY <2>1, <2>3, DeliveryAssumption
    <3> QED BY <2>1, <3>1, <3>2, <3>3, <3>4, <3>5, SendIfPacked
  <2> QED BY <2>2, <2>3
<1>6. CASE Split
  <2>1. /\ task.pc = "split" /\ UNCHANGED <<sent, row>> /\ task.file.size \in Nat
        /\ task.file.size > TelegramLimit
        BY <1>6, SendTypes DEF Split, At, Task, SendInv, Order
  <2>2. PICK parts \in Parts(task.file.size) : \E found \in {parts, << >>} :
          task' = [task EXCEPT !.pc = "ready", !.parts = found]
        BY <1>6 DEF Split
  <2>5. PICK found \in {parts, << >>} :
          task' = [task EXCEPT !.pc = "ready", !.parts = found]
        BY <2>2
  <2>6. parts \in Seq(Item) /\ << >> \in Seq(Item)
        BY <2>1, <2>2, PartsTyped
  <2>3. found \in Seq(Item)
        BY <2>5, <2>6
  <2>4. \A i \in DOMAIN found :
          found[i].n = i /\ found[i].size <= TelegramLimit /\ found[i].name \notin Videos
        BY <2>1, <2>2, <2>5, PartsTyped, PartsNamed DEF Videos
  <2> QED BY <2>1, <2>3, <2>4, <2>5, SendIfPacked
<1>7. CASE AnnounceUpload
  <2>1. row # "DONE"
        BY <1>7 DEF AnnounceUpload, At, SendInv, Late
  <2> QED BY <1>7, <2>1, SendIfMoved DEF AnnounceUpload, Notify, At, Pcs, Early, Packed
<1>8. CASE RecordDone
  <2>1. /\ task.pc = "upload" /\ task.next > Len(task.parts) /\ row' = "DONE"
        /\ UNCHANGED sent /\ Goto("uploaded")
        BY <1>8 DEF RecordDone, At
  <2>2. /\ task'.pc = "uploaded" /\ task'.parts = task.parts /\ task'.next = task.next
        /\ task'.file = task.file
        BY <2>1, SendTypes DEF Goto, Task
  <2>3. Len(sent) = Len(task.parts)
        BY <2>1, SendTypes DEF SendInv
  <2>4. task.parts = << >> => task.file.size > TelegramLimit
        BY <2>1 DEF SendInv, Order, Packed
  <2>5. Complete'
        BY <2>1, <2>2, <2>3, <2>4, SendTypes DEF Complete
  <2>6. GoodParts' /\ GoodSent' /\ Order'
        BY <2>1, <2>2 DEF SendInv, GoodParts, GoodSent, Order, Early, Packed
  <2> QED BY <2>1, <2>2, <2>5, <2>6 DEF SendInv, Late
<1>9. CASE RecordFailed
  <2>1. /\ row' = "FAILED" /\ UNCHANGED sent /\ Goto("failed")
        BY <1>9 DEF RecordFailed
  <2>2. /\ task'.pc = "failed" /\ task'.parts = task.parts /\ task'.next = task.next
        /\ task'.file = task.file
        BY <2>1, SendTypes DEF Goto, Task
  <2>3. GoodParts' /\ GoodSent' /\ Order'
        BY <2>1, <2>2 DEF SendInv, GoodParts, GoodSent, Order, Early, Packed
  <2> QED BY <2>1, <2>2, <2>3 DEF SendInv
<1>10. CASE \/ AnnounceDone \/ AnnounceFailed \/ Finally
            \/ UploadFails \/ Raises \/ Abandon
  <2>1. PICK pc \in {"finally", "ended", "except"} : Goto(pc)
        BY <1>10 DEF AnnounceDone, AnnounceFailed, Finally, UploadFails, OnRefusal,
                     Raises, Abandon, Notify
  <2>2. UNCHANGED <<sent, row>>
        BY <1>10 DEF AnnounceDone, AnnounceFailed, Finally, UploadFails, Raises, Abandon
  <2> QED BY <2>1, <2>2, SendIfMoved DEF Pcs, Early, Packed, Late
<1>11. CASE \/ ListenerStep \/ Publish \/ (\E e \in Events : Deliver(e)) \/ EditFails
            \/ OtherEncode \/ OrphanWrites \/ UNCHANGED vars
       BY <1>11, SendIfLeft
          DEF ListenerStep, Subscribe, Listen, EditLands, WakeUp, Publish, Deliver,
              EditFails, OtherEncode, OrphanWrites, vars
<1> QED BY <1>1, <1>2, <1>3, <1>4, <1>5, <1>6, <1>7, <1>8, <1>9, <1>10, <1>11,
           SendIfSent, NextCases DEF TaskStep

LEMMA SendInvHolds == Spec => []SendInv
<1>1. Init => SendInv
  <2> SUFFICES ASSUME Init PROVE SendInv
      OBVIOUS
  <2>1. /\ task.parts = << >> /\ task.next = 1 /\ task.pc = "start" /\ sent = << >>
        /\ row = "RUNNING"
        BY DEF Init
  <2> QED BY <2>1 DEF SendInv, GoodParts, GoodSent, Order, Early, Packed
<1> QED BY <1>1, TypesHold, SendKept, PTL DEF Spec

(* Nothing larger than Telegram takes is uploaded, whatever size the encoder *)
(* makes the file (workers/download.py looks at the size of what is there). *)
THEOREM EveryUploadFits == Spec => []UploadsFit
<1>1. SendInv => UploadsFit
      BY DEF SendInv, GoodSent, UploadsFit
<1> QED BY <1>1, SendInvHolds, PTL

(* A job is DONE when its whole file is in the chat, itself or every part of *)
(* its archive once and in order.                                           *)
THEOREM DoneIsDelivered == Spec => []DeliveredWhole
<1>1. SendInv => DeliveredWhole
      BY DEF SendInv, GoodSent, Complete, DeliveredWhole
<1> QED BY <1>1, SendInvHolds, PTL

-----------------------------------------------------------------------------
(* The listener                                                             *)

Silent == listener.pc \in {"none", "stopped"}

(* From the compression on the listener is silent, and no text of its own   *)
(* is left where the file is split or sent.                                 *)
QuietInv ==
  /\ task.pc \in {"start", "download", "settings", "heartbeat", "compressing"} =>
       ~task.encoded
  /\ task.encoded \/ task.pc \in {"probe", "hw", "pass1", "pass2"} => Silent
  /\ CompressionSilences

LEMMA QuietIfElsewhere ==
  ASSUME task'.encoded => task.encoded \/ task.pc \in {"hw", "pass2"},
         task'.pc \in {"start", "download", "settings", "heartbeat", "compressing"} =>
           ~task'.encoded,
         task'.pc \in {"probe", "hw", "pass1", "pass2"} =>
           task.pc \in {"probe", "hw", "pass1", "pass2"},
         QuietInv, UNCHANGED listener,
         task'.encoded /\ (row' = "DONE" \/ task'.pc \in {"split", "upload"}) =>
           words' # "progress"
  PROVE  QuietInv'
  BY DEF QuietInv, Silent, CompressionSilences

LEMMA CancelSilences ==
  ASSUME CancelListener
  PROVE  Silent' /\ (Silent => UNCHANGED words)
  BY DEF CancelListener, Silent

LEMMA QuietKept ==
  ASSUME TypeOK, SendInv, QuietInv, [Next]_vars
  PROVE  QuietInv'
<1>0. /\ task.pc \in Early => row # "DONE"
      /\ row = "DONE" => task.pc \in Late
      BY DEF SendInv, Early, Late
<1> DEFINE Before == {"start", "download", "settings", "heartbeat", "compressing"}
           Coding == {"probe", "hw", "pass1", "pass2"}
<1>1. ASSUME NEW pc \in Pcs, Goto(pc)
      PROVE  task'.pc = pc /\ task'.encoded = task.encoded
      BY <1>1, SendTypes DEF Goto, Task
<1>2. CASE Start
  <2>1. task'.pc = "download" /\ ~task'.encoded /\ row' # "DONE"
        BY <1>0, <1>1, <1>2 DEF Start, Notify, At, Pcs, Early, QuietInv
  <2> QED BY <2>1 DEF QuietInv, CompressionSilences
<1>3. CASE Download
  <2>1. task'.pc = "settings" /\ ~task'.encoded /\ row' # "DONE"
        BY <1>0, <1>3, SendTypes DEF Download, At, Early, QuietInv, Task
  <2> QED BY <2>1 DEF QuietInv, CompressionSilences
<1>4. CASE ReadSettings \/ AnnounceCompression
  <2>1. /\ task'.pc \in {"heartbeat", "size", "compressing"} /\ ~task'.encoded
        BY <1>1, <1>4 DEF ReadSettings, AnnounceCompression, Notify, At, Pcs, QuietInv
  <2> QED BY <2>1 DEF QuietInv, CompressionSilences
<1>5. CASE StopListening
  <2>1. task'.pc = "probe" /\ ~task'.encoded /\ Silent'
        BY <1>1, <1>5, CancelSilences DEF StopListening, At, Pcs, QuietInv
  <2> QED BY <2>1 DEF QuietInv, CompressionSilences
<1>6. CASE DetectEncoder \/ Pass1
  <2>1. /\ task.pc \in Coding /\ task'.pc \in {"hw", "pass1", "pass2", "except"}
        /\ task'.encoded = task.encoded /\ row' # "DONE" /\ UNCHANGED listener
        BY <1>0, <1>1, <1>6 DEF DetectEncoder, Pass1, Pass1Result, At, Pcs, Early
  <2> QED BY <2>1 DEF QuietInv, Silent, CompressionSilences
<1>7. CASE HwEncode \/ Pass2
  <2>1. /\ task.pc \in Coding /\ row' # "DONE" /\ UNCHANGED listener
        BY <1>0, <1>7 DEF HwEncode, Pass2, At, Early
  <2>2. task'.pc \in {"size", "pass1", "except"}
    <3>1. CASE Encoded
          BY <3>1, SendTypes DEF Encoded, Task
    <3>2. CASE Goto("pass1") \/ Goto("except")
          BY <1>1, <3>2 DEF Pcs
    <3> QED BY <1>7, <3>1, <3>2 DEF HwEncode, Pass2
  <2> QED BY <2>1, <2>2 DEF QuietInv, Silent, CompressionSilences
<1>8. CASE CheckSize
  <2>1. /\ row' # "DONE" /\ UNCHANGED listener
        /\ task'.encoded = task.encoded
        /\ \/ task'.pc = "split" /\ words' = "splitting"
           \/ task'.pc = "ready"
        BY <1>0, <1>1, <1>8, SendTypes DEF CheckSize, Notify, At, Pcs, Early, Task
  <2> QED BY <2>1, QuietIfElsewhere
<1>9. CASE Split
  <2>1. /\ row' # "DONE" /\ UNCHANGED listener
        /\ task'.encoded = task.encoded /\ task'.pc = "ready"
        BY <1>0, <1>9, SendTypes DEF Split, At, Early, Task
  <2> QED BY <2>1, QuietIfElsewhere
<1>10. CASE AnnounceUpload \/ AnnounceDone \/ AnnounceFailed
  <2>1. /\ words' # "progress" /\ UNCHANGED listener
        /\ task'.encoded = task.encoded /\ task'.pc \in {"upload", "finally"}
        BY <1>1, <1>10 DEF AnnounceUpload, AnnounceDone, AnnounceFailed, Notify, Pcs
  <2> QED BY <2>1, QuietIfElsewhere
<1>11. CASE UploadPart
  <2>1. /\ UNCHANGED <<listener, row>> /\ words' \in {"uploading", words}
        /\ task'.encoded = task.encoded /\ task'.pc = "upload" /\ task.pc = "upload"
        BY <1>11, SendTypes DEF UploadPart, At, Task
  <2>2. task.encoded => words # "progress"
        BY <2>1 DEF QuietInv, CompressionSilences
  <2> QED BY <2>1, <2>2, QuietIfElsewhere
<1>12. CASE RecordDone \/ RecordFailed
  <2>1. /\ UNCHANGED <<listener, words>> /\ task'.encoded = task.encoded
        /\ \/ task.pc = "upload" /\ task'.pc = "uploaded"
           \/ row' = "FAILED" /\ task'.pc = "failed"
        BY <1>1, <1>12 DEF RecordDone, RecordFailed, At, Pcs
  <2>2. task.pc = "upload" /\ task.encoded => words # "progress"
        BY DEF QuietInv, CompressionSilences
  <2> QED BY <2>1, <2>2, QuietIfElsewhere
<1>13. CASE Finally
  <2>1. /\ task'.pc = "ended" /\ task'.encoded = task.encoded /\ UNCHANGED row
        /\ Silent' /\ (Silent => UNCHANGED words)
        BY <1>1, <1>13, CancelSilences DEF Finally, Pcs
  <2> QED BY <2>1 DEF QuietInv, CompressionSilences
<1>14. CASE UploadFails \/ Raises \/ Abandon
  <2>1. /\ task'.pc \in {"except", "finally"} /\ task'.encoded = task.encoded
        /\ UNCHANGED <<row, words, listener>>
        BY <1>1, <1>14 DEF UploadFails, OnRefusal, Raises, Abandon, Pcs
  <2>2. task.encoded /\ row = "DONE" => words # "progress"
        BY DEF QuietInv, CompressionSilences
  <2> QED BY <2>1, <2>2, QuietIfElsewhere
<1>15. CASE \/ ListenerStep \/ Publish \/ (\E e \in Events : Deliver(e)) \/ EditFails
            \/ OtherEncode \/ OrphanWrites \/ UNCHANGED vars
  <2>1. UNCHANGED <<task, row>>
        BY <1>15 DEF ListenerStep, Subscribe, Listen, EditLands, WakeUp, Publish, Deliver,
                     EditFails, OtherEncode, OrphanWrites, vars
  <2>2. Silent => Silent' /\ UNCHANGED words
        BY <1>15 DEF ListenerStep, Subscribe, Listen, EditLands, WakeUp, Publish, Deliver,
                     EditFails, OtherEncode, OrphanWrites, vars, Silent
  <2> QED BY <2>1, <2>2 DEF QuietInv, CompressionSilences
<1> QED BY <1>2, <1>3, <1>4, <1>5, <1>6, <1>7, <1>8, <1>9, <1>10, <1>11, <1>12,
           <1>13, <1>14, <1>15, NextCases DEF TaskStep

(* Once the file was compressed no progress of its download is written over *)
(* what the task says later: process_download cancels the listener first.   *)
THEOREM CompressionIsQuiet == Spec => []CompressionSilences
<1>1. Init => QuietInv
      BY DEF Init, QuietInv, Silent, CompressionSilences
<1>2. QuietInv => CompressionSilences
      BY DEF QuietInv
<1> QED BY <1>1, <1>2, TypesHold, SendInvHolds, QuietKept, PTL DEF Spec

(* No step leads back to the beginning.                                     *)
LEMMA StartsOnce ==
  ASSUME TypeOK, [Next]_vars
  PROVE  UNCHANGED task \/ task'.pc # "start"
<1>1. ASSUME NEW pc \in Pcs \ {"start"}, Goto(pc)
      PROVE  task'.pc # "start"
      BY <1>1, SendTypes DEF Goto, Task
<1>2. CASE Start \/ ReadSettings \/ AnnounceCompression \/ StopListening \/ DetectEncoder
      BY <1>1, <1>2 DEF Start, ReadSettings, AnnounceCompression, StopListening,
                        DetectEncoder, Notify, Pcs
<1>3. CASE Encoded
      BY <1>3, SendTypes DEF Encoded, Task
<1>4. CASE HwEncode \/ Pass1 \/ Pass2
      BY <1>1, <1>3, <1>4 DEF HwEncode, Pass1, Pass1Result, Pass2, Pcs
<1>5. CASE Download \/ Split \/ UploadPart
      BY <1>5, SendTypes DEF Download, Split, UploadPart, At, Task
<1>6. CASE CheckSize
      BY <1>1, <1>6, SendTypes DEF CheckSize, Notify, Task, Pcs
<1>7. CASE AnnounceUpload \/ RecordDone \/ AnnounceDone \/ RecordFailed
             \/ AnnounceFailed \/ Finally
      BY <1>1, <1>7 DEF AnnounceUpload, RecordDone, AnnounceDone, RecordFailed,
                        AnnounceFailed, Finally, Notify, Pcs
<1>8. CASE UploadFails \/ Raises \/ Abandon
      BY <1>1, <1>8 DEF UploadFails, OnRefusal, Raises, Abandon, Pcs
<1>9. CASE \/ ListenerStep \/ Publish \/ (\E e \in Events : Deliver(e)) \/ EditFails
           \/ OtherEncode \/ OrphanWrites \/ UNCHANGED vars
      BY <1>9 DEF ListenerStep, Subscribe, Listen, EditLands, WakeUp, Publish, Deliver,
                  EditFails, OtherEncode, OrphanWrites, vars
<1> QED BY <1>2, <1>4, <1>5, <1>6, <1>7, <1>8, <1>9, NextCases DEF TaskStep

(* How many edits there were, and may still be.                             *)
EditInv ==
  /\ task.pc = "start" => listener.pc = "none"
  /\ listener.edits <= MaxUpdates + 1
  /\ listener.pc # "stopped" => listener.edits <= MaxUpdates
  /\ listener.pc \in {"editing", "sleeping"} /\ listener.event # "full" =>
       listener.edits < MaxUpdates

LEMMA EditKept ==
  ASSUME TypeOK, EditInv, [Next]_vars
  PROVE  EditInv'
<1> USE StartsOnce
<1>0. /\ listener \in Listener /\ listener.edits \in Nat /\ MaxUpdates \in Nat
      BY TypeParts, DeliveryAssumption DEF Listener
<1>1. CASE UNCHANGED listener
      BY <1>1 DEF EditInv
<1>2. CASE CancelListener
      BY <1>0, <1>2 DEF CancelListener, EditInv
<1>3. CASE Start
  <2>1. /\ task'.pc = "download"
        /\ listener'.pc = "starting" /\ listener'.edits = listener.edits
        BY <1>0, <1>3, SendTypes DEF Start, Notify, Goto, Task, Listener
  <2>2. listener.edits <= MaxUpdates
        BY <1>3 DEF Start, At, EditInv
  <2> QED BY <1>0, <2>1, <2>2 DEF EditInv
<1>4. CASE Subscribe \/ (\E e \in Events : Deliver(e))
      BY <1>0, <1>4 DEF Subscribe, Deliver, EditInv, Listener
<1>5. CASE Listen
      BY <1>0, <1>5 DEF Listen, EditInv, Listener
<1>6. CASE EditLands
  <2>1. /\ listener'.pc = Resume.pc /\ listener'.edits = listener.edits + 1
        /\ listener.pc = "editing"
        BY <1>0, <1>6, ResumeTyped DEF EditLands, Listener
  <2> QED BY <1>0, <2>1, ResumeTyped DEF EditInv
<1>7. CASE EditFails
  <2>1. CASE listener' = [listener EXCEPT !.pc = "sleeping"]
        BY <1>0, <1>7, <2>1 DEF EditFails, EditInv, Listener
  <2>2. CASE listener' = Resume
        BY <1>0, <1>7, <2>2, ResumeTyped DEF EditFails, EditInv
  <2> QED BY <1>7, <2>1, <2>2 DEF EditFails
<1>8. CASE WakeUp
      BY <1>0, <1>8, ResumeTyped DEF WakeUp, EditInv
<1>9. CASE TaskStep
  <2>1. Start \/ CancelListener \/ UNCHANGED listener
        BY <1>9 DEF TaskStep, Download, ReadSettings, AnnounceCompression, StopListening,
                    DetectEncoder, HwEncode, Pass1, Pass2, CheckSize, Split,
                    AnnounceUpload, UploadPart, RecordDone, AnnounceDone, RecordFailed,
                    AnnounceFailed, Finally
  <2> QED BY <1>1, <1>2, <1>3, <2>1
<1>10. CASE \/ Publish \/ UploadFails \/ Raises \/ Abandon \/ OtherEncode
            \/ OrphanWrites \/ UNCHANGED vars
       BY <1>1, <1>10 DEF Publish, UploadFails, Raises, Abandon, OtherEncode,
                          OrphanWrites, vars
<1> QED BY <1>4, <1>5, <1>6, <1>7, <1>8, <1>9, <1>10, NextCases DEF ListenerStep

(* The progress message is edited MAX_UPDATES times and once more for the   *)
(* 100 % that ends the listener, however many files report 100 %.           *)
THEOREM EditsAreBounded == Spec => []EditsBounded
<1>1. Init => EditInv
      BY DeliveryAssumption DEF Init, EditInv
<1>2. EditInv => EditsBounded
      BY DEF EditInv, EditsBounded
<1> QED BY <1>1, <1>2, TypesHold, EditKept, PTL DEF Spec
=============================================================================
