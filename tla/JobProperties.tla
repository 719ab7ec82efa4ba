--------------------------- MODULE JobProperties ---------------------------
(* What the job pipeline must keep, and what its documentation says of it.  *)
EXTENDS JobPipeline

(* Every file stored with a job shows the media of the job's own URL, on    *)
(* whichever way it got there: its own upload, a sibling attempt's file in  *)
(* the shared directory, or a row the cache lookup found.                   *)
FileIsOfUrl ==
  \A j \in Jobs : db[j] # None /\ db[j].file # None => db[j].file.url = db[j].url

(* Outside YouTube the quality is fixed when the job is created, so a DONE  *)
(* row that the cache lookup can find is filed under the quality its file   *)
(* has: nobody is sent another quality than the one the key names.          *)
DirectKeyIsHonest ==
  \A j \in Jobs :
    db[j] # None /\ db[j].url \notin YouTube /\ db[j].file # None =>
      /\ db[j].file.q = db[j].fmt
      /\ db[j].hash \in {None, <<db[j].url, db[j].file.q>>}

(* A sweep that rolls back forgets the retry it has already enqueued, and   *)
(* only such a sweep does: apart from those a job is enqueued again at most *)
(* MaxRecoveries times, whatever crashes, timeouts and deletions there are. *)
RecoveryBounded == \A j \in Jobs : requeued[j] <= MaxRecoveries + aborted

(* Each file sent to the chat is paid for by one message that entered the   *)
(* queue from outside the workers: no crash, timeout or duplicate attempt   *)
(* makes one preflight message deliver twice.                               *)
DeliveryBounded == \A j \in Jobs : sent[j] <= 1 + clicks[j] + requeued[j]

(* Who has a job in hand: handlers, presses, messages and attempts.          *)
Holders(j) ==
  {<<"intake", m>> : m \in {x \in intake : x.job = j}}
    \cup {<<"pick", p>> : p \in {x \in picks : x[1] = j}}
    \cup {<<"queue", i>> : i \in {x \in DOMAIN queue : queue[x].job = j}}
    \cup {<<"attempt", w>> : w \in {x \in Workers : attempt[x] # Idle /\ attempt[x].msg.job = j}}

(* At most one handler, message or attempt has a job in hand.  Holds where  *)
(* heartbeats do not age under live work, sweeps do not roll back and the   *)
(* menu is pressed once; elsewhere AloneUntilHandedOutAgain does.           *)
SingleHolder == \A j \in Jobs : Cardinality(Holders(j)) <= 1

\* The job's work was given to a further attempt: by the sweep, which does
\* not know whether the one it gives up on still lives, or by a second press.
HandedOutAgain(j) == requeued[j] > 0 \/ clicks[j] > 1

(* Only the sweep and a second press multiply a job's work: until then one  *)
(* holder has it, whatever fails, dies or is rolled back, and nobody takes  *)
(* the downloaded file out of the job's directory before it is uploaded.    *)
AloneUntilHandedOutAgain ==
  \A j \in Jobs : ~HandedOutAgain(j) =>
    /\ Cardinality(Holders(j)) <= 1
    /\ \A w \in Workers :
         attempt[w].pc \in {"downloaded", "compressing"} /\ attempt[w].msg.job = j =>
           tmp[j] # None

\* Nobody works on the job and it does not wait for its user.
Unattended(j) == db[j] # None /\ Holders(j) = {} /\ menu[j] = "none"

(* Without faults every job nobody works on has ended or waits for its user.*)
NoneStranded ==
  \A j \in Jobs : Unattended(j) => ~IsActive(j)

(* README.md: "jobs survive bot crashes or system restarts".  A job nobody  *)
(* works on is one the sweep can find, which takes a heartbeat.             *)
JobsSurvive ==
  \A j \in Jobs : Unattended(j) /\ IsActive(j) => db[j].hb # "none"

(* models.py: url_hash is the hash of URL and quality, "used for content-    *)
(* aware caching", and who asks for the same URL and quality gets the       *)
(* cached result: what is filed under a key has the quality of that key.    *)
CacheKeyIsHonest ==
  \A m \in Message : \A k \in CacheHits(m) : db[k].file.q = m.q

-----------------------------------------------------------------------------
(* A job becomes CANCELLED only from PENDING or RUNNING, however long ago   *)
(* the /cancel handler has read it.                                         *)
CancelsOnlyActive ==
  [][\A j \in Jobs :
       db'[j] # None /\ db'[j].status = "CANCELLED" =>
         db[j] # None /\ (db[j].status \in Active \/ db[j].status = "CANCELLED")]_vars

(* No row comes from nothing: a row appears for a number just handed out or *)
(* from its own draft, and only then is it PENDING; a row once deleted or   *)
(* rolled back stays away, whatever tasks of it are still queued.           *)
NoRebirth ==
  [][\A j \in Jobs :
       /\ db[j] = None /\ db'[j] # None => j > created \/ draft[j] # None
       /\ db[j] # None /\ db'[j] # None /\ db'[j].status = "PENDING" =>
            db[j].status = "PENDING"]_vars

(* models.py: CANCELLED means "User cancelled via /cancel"; cancel.py tells *)
(* the user that the job "has been cancelled".                              *)
CancelledStays ==
  [][\A j \in Jobs :
       db[j] # None /\ db[j].status = "CANCELLED" /\ db'[j] # None =>
         db'[j].status = "CANCELLED"]_vars

(* A row that is not committed yet is unborn.                               *)
StatusOf(j) == IF db[j] # None THEN db[j].status
               ELSE IF j <= created /\ draft[j] = None THEN "GONE" ELSE "UNBORN"

(* A task does not look at a cancellation, and one whose last message to    *)
(* the chat fails calls a delivered job FAILED.                             *)
NotFinal == {"CANCELLED"} \X {"RUNNING", "DONE", "FAILED"} \cup {<<"DONE", "FAILED">>}

Contract == INSTANCE JobContract WITH Job <- Jobs,
                                      Overturned <- NotFinal,
                                      status <- [j \in Jobs |-> StatusOf(j)],
                                      again <- {j \in Jobs : HandedOutAgain(j)}

(* The statuses of the rows live as JobContract says: apart from NotFinal   *)
(* none changes after the end unless the job's work was handed out again,   *)
(* and none comes back after its deletion.                                  *)
ContractHolds == Contract!Spec

-----------------------------------------------------------------------------
(* Every job that is RUNNING with a heartbeat leaves RUNNING: attempts end, *)
(* and those that crash or time out are swept until the retries are spent.  *)
StartedJobsEnd ==
  \A j \in Jobs :
    (db[j] # None /\ db[j].status = "RUNNING" /\ db[j].hb # "none") ~>
      (db[j] = None \/ db[j].status # "RUNNING")

(* Without faults every new job ends or comes to ask its user something.    *)
RequestsAnswered ==
  \A j \in Jobs :
    IsActive(j) ~> (~IsActive(j) \/ menu[j] # "none")

(* Pressing a quality button leads to an ended job or a further question.   *)
PicksAnswered ==
  \A j \in Jobs :
    (\E q \in Qualities : <<j, q>> \in picks) ~>
      (~IsActive(j) \/ menu[j] = "confirm")

(* The large-file prompt asks "Proceed?" and offers Yes and Cancel: the job *)
(* does not stay RUNNING behind it for ever.                                *)
PromptsResolved ==
  \A j \in Jobs : (menu[j] = "confirm" /\ IsActive(j)) ~> ~IsActive(j)
=============================================================================
