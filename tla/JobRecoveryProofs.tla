------------------------- MODULE JobRecoveryProofs -------------------------
(* What the sweep, the handlers and the workers do with a job's messages:   *)
(* the sweep enqueues a job a bounded number of times, without faults no    *)
(* job is left that nobody works on, and each file sent used up a message.  *)
EXTENDS JobPipelineProofs, FiniteSetTheorems

USE ConstantAssumption

(* What the retry counter of a row, or of the copy the sweep holds, still   *)
(* owes for the messages already enqueued: one for the sweep under way, if  *)
(* it has handled the job, and one for every sweep that was rolled back.    *)
RetryInv ==
  /\ RecoveryBounded
  /\ ~sweep.on => sweep = EmptySweep
  /\ \A j \in Jobs :
       /\ db[j] # None =>
            requeued[j] <= db[j].retries + aborted
                             + (IF j \in sweep.dirty THEN 1 ELSE 0)
       /\ sweep.rows[j] # None =>
            /\ requeued[j] <= sweep.rows[j].retries + aborted
            /\ j \notin sweep.dirty
            /\ j <= created /\ draft[j] = None
       /\ j > created \/ draft[j] # None => requeued[j] = 0

LEMMA RetryInvInit == Init => RetryInv
  BY DEF Init, RetryInv, RecoveryBounded, EmptySweep

(* Numbers are handed out in order and a draft has a new one.               *)
LEMMA DraftSteps ==
  ASSUME TypeOK, [Next]_vars
  PROVE  /\ created' \in Nat /\ created' >= created
         /\ \A j \in Jobs : draft'[j] # None => draft[j] # None \/ j > created
<1> DEFINE Goal == /\ created' \in Nat /\ created' >= created
                   /\ \A j \in Jobs : draft'[j] # None => draft[j] # None \/ j > created
<1>1. created \in Nat
      BY DEF TypeOK
<1>2. CASE UNCHANGED <<created, draft>>
      BY <1>1, <1>2
<1>3. ASSUME NEW u \in Users, NEW url \in Urls, NEW q \in Qualities, Submit(u, url, q)
      PROVE  Goal
      BY <1>1, <1>3 DEF Submit
<1>4. ASSUME NEW u \in Users, NEW url \in Urls, NEW q \in Qualities, RedditQueue(u, url, q)
      PROVE  Goal
  <2>1. draft \in [Jobs -> Row \cup {None}]
        BY DEF TypeOK
  <2>2. draft' = [draft EXCEPT ![created + 1] = NewRow(u, url, q)] /\ created' = created + 1
        BY <1>4 DEF RedditQueue
  <2> QED BY <1>1, <2>1, <2>2 DEF Jobs
<1>5. ASSUME NEW u \in Users, RedditCommit(u) \/ RedditRollback(u)
      PROVE  Goal
      BY <1>1, <1>5 DEF RedditCommit, RedditRollback, Drafts
<1>6. CASE BotRestart
      BY <1>1, <1>6 DEF BotRestart
<1>7. ASSUME NEW u \in Users, CancelRead(u) \/ CancelFails(u) \/ CancelCommit(u) \/ ClearHistory(u)
      PROVE  UNCHANGED <<created, draft>>
      BY <1>7 DEF CancelRead, CancelFails, CancelCommit, ClearHistory
<1>8. ASSUME NEW w \in Workers, WorkerStep(w) \/ WorkerFault(w)
      PROVE  UNCHANGED <<created, draft>>
      BY <1>8, WorkersKeepBot DEF botVars
<1>9. ASSUME IntakeStep \/ MenuStep \/ SweepStep \/ \E j \in Jobs : HeartbeatAges(j)
      PROVE  UNCHANGED <<created, draft>>
      BY <1>9 DEF IntakeStep, Enqueue, EnqueueFails, MenuStep, Click,
           QualityPick, QualityPickFails, PickSwallowed,
           SweepStep, RecoverBegin, RecoverCommit,
           RecoverLost, RecoverAbort, RecoverJob, HeartbeatAges, botVars
<1>10. CASE UNCHANGED vars
      BY <1>2, <1>10 DEF vars
<1> QED BY <1>2, <1>3, <1>4, <1>5, <1>6, <1>7, <1>8, <1>9, <1>10 DEF Next, UserStep

(* A step that leaves the sweep and its history alone.                      *)
LEMMA RetryInvKept ==
  ASSUME TypeOK, TypeOK', DraftInv, RetryInv, [Next]_vars,
         UNCHANGED <<sweep, requeued, aborted>>
  PROVE  RetryInv'
<1>1. /\ \A j \in Jobs : RowEffect(j)
      /\ created' \in Nat /\ created' >= created /\ created \in Nat
      /\ \A j \in Jobs : draft'[j] # None => draft[j] # None \/ j > created
  <2>1. \A j \in Jobs : RowEffect(j)
        BY RowEffects
  <2>2. created \in Nat
        BY DEF TypeOK
  <2> QED BY <2>1, <2>2, DraftSteps
<1>2. RecoveryBounded' /\ (~sweep.on => sweep = EmptySweep)'
      BY DEF RetryInv, RecoveryBounded, EmptySweep
<1>3. ASSUME NEW j \in Jobs, db'[j] # None
      PROVE  requeued[j] <= db'[j].retries + aborted
                              + (IF j \in sweep.dirty THEN 1 ELSE 0)
  <2>1. /\ db'[j].retries \in Nat /\ aborted \in Nat /\ requeued[j] \in Nat
        /\ db[j] # None => db[j].retries \in Nat
        BY <1>3 DEF TypeOK, Row
  <2>2. CASE requeued[j] = 0
        BY <2>1, <2>2
  <2>3. CASE db[j] # None /\ db'[j].retries >= db[j].retries
        BY <2>1, <2>3 DEF RetryInv
  <2>4. requeued[j] = 0 \/ (db[j] # None /\ db'[j].retries >= db[j].retries)
    <3>1. RowEffect(j)
          BY <1>1
    <3>2. CASE db'[j] = db[j]
          BY <1>3, <2>1, <3>2
    <3>3. CASE j = created + 1 \/ draft[j] # None
          BY <1>1, <3>3 DEF RetryInv
    <3> QED BY <1>3, <3>1, <3>2, <3>3, RewrittenOrPicked DEF RowEffect
  <2> QED BY <2>2, <2>3, <2>4
<1>4. ASSUME NEW j \in Jobs, sweep.rows[j] # None
      PROVE  /\ requeued[j] <= sweep.rows[j].retries + aborted
             /\ j \notin sweep.dirty
             /\ j <= created' /\ draft'[j] = None
  <2>1. j <= created /\ draft[j] = None /\ j \in Nat
        BY <1>4 DEF RetryInv, Jobs
  <2>2. j <= created' /\ draft'[j] = None
        BY <1>1, <2>1
  <2> QED BY <1>4, <2>2 DEF RetryInv
<1>5. ASSUME NEW j \in Jobs, j > created' \/ draft'[j] # None
      PROVE  requeued[j] = 0
  <2>1. j > created \/ draft[j] # None
        BY <1>1, <1>5 DEF Jobs
  <2> QED BY <2>1 DEF RetryInv
<1> QED BY <1>2, <1>3, <1>4, <1>5 DEF RetryInv

(* The steps that use the sweep or its history.                             *)
LEMMA RetryInvBegin ==
  ASSUME TypeOK, DraftInv, RetryInv, RecoverBegin
  PROVE  RetryInv'
<1>1. /\ sweep'.on = TRUE /\ sweep'.dirty = {}
      /\ sweep'.rows = [j \in Jobs |-> IF IsStale(j) THEN db[j] ELSE None]
      /\ UNCHANGED <<db, draft, created, requeued, aborted>>
      BY DEF RecoverBegin, EmptySweep
<1>2. sweep.dirty = {}
      BY DEF RecoverBegin, RetryInv, EmptySweep
<1>3. \A j \in Jobs : IsStale(j) => db[j] # None
      BY DEF IsStale
<1>4. RecoveryBounded'
      BY <1>1 DEF RetryInv, RecoveryBounded
<1>5. ASSUME NEW j \in Jobs, db[j] # None
      PROVE  /\ requeued[j] <= db[j].retries + aborted + 0
             /\ j <= created /\ draft[j] = None
  <2>1. requeued[j] <= db[j].retries + aborted + 0
        BY <1>2, <1>5 DEF RetryInv
  <2> QED BY <1>5, <2>1 DEF DraftInv
<1>6. ASSUME NEW j \in Jobs, db[j] # None
      PROVE  requeued[j] <= db[j].retries + aborted
      BY <1>5, <1>6 DEF TypeOK, Row
<1>7. \A j \in Jobs : sweep'.rows[j] # None => sweep'.rows[j] = db[j] /\ db[j] # None
      BY <1>1, <1>3
<1>8. \A j \in Jobs : j > created \/ draft[j] # None => requeued[j] = 0
      BY DEF RetryInv
<1> QED BY <1>1, <1>4, <1>5, <1>6, <1>7, <1>8 DEF RetryInv

LEMMA RetryInvJob ==
  ASSUME TypeOK, RetryInv, NEW j \in Jobs, RecoverJob(j)
  PROVE  RetryInv'
<1> DEFINE row   == sweep.rows[j]
           spent == row.retries + 1 > MaxRecoveries
<1>1. /\ row # None /\ row \in Row /\ row.retries \in Nat
      /\ sweep.on
      /\ requeued[j] <= row.retries + aborted
      /\ j \notin sweep.dirty /\ j <= created /\ draft[j] = None
  <2>1. row # None
        BY DEF RecoverJob
  <2>2. row \in Row
        BY <2>1 DEF TypeOK, Sweep
  <2>3. sweep.on
        BY <2>1 DEF RetryInv, EmptySweep
  <2>4. row.retries \in Nat
        BY <2>2 DEF Row
  <2>5. /\ requeued[j] <= row.retries + aborted
        /\ j \notin sweep.dirty /\ j <= created /\ draft[j] = None
        BY <2>1 DEF RetryInv
  <2> QED BY <2>1, <2>2, <2>3, <2>4, <2>5
<1>2. /\ sweep'.on = sweep.on
      /\ sweep'.rows = [sweep.rows EXCEPT ![j] = None]
      /\ sweep'.dirty = sweep.dirty \cup {j}
      /\ UNCHANGED <<db, draft, created, aborted>>
      BY DEF RecoverJob, TypeOK, Sweep
<1>3. /\ sweep.rows \in [Jobs -> Row \cup {None}]
      /\ requeued \in [Jobs -> Nat] /\ aborted \in Nat /\ created \in Nat
      /\ \A k \in Jobs : db[k] # None => db[k].retries \in Nat
      BY DEF TypeOK, Sweep, Row
<1>4. \/ requeued' = requeued
      \/ ~spent /\ requeued' = [requeued EXCEPT ![j] = @ + 1]
      BY DEF RecoverJob
<1>5. ASSUME NEW k \in Jobs, k # j
      PROVE  requeued'[k] = requeued[k] /\ sweep'.rows[k] = sweep.rows[k]
             /\ (k \in sweep'.dirty <=> k \in sweep.dirty)
      BY <1>2, <1>3, <1>4, <1>5
<1>6. /\ requeued'[j] \in Nat
      /\ requeued'[j] <= requeued[j] + 1
      /\ requeued'[j] <= MaxRecoveries + aborted
      /\ j \in sweep'.dirty
      /\ sweep'.rows[j] = None
  <2>1. CASE requeued' = requeued
        BY <1>2, <1>3, <2>1 DEF RetryInv, RecoveryBounded
  <2>2. CASE ~spent /\ requeued' = [requeued EXCEPT ![j] = @ + 1]
    <3>1. requeued'[j] = requeued[j] + 1 /\ row.retries + 1 <= MaxRecoveries
          BY <1>1, <1>3, <2>2
    <3> QED BY <1>1, <1>2, <1>3, <3>1
  <2> QED BY <1>4, <2>1, <2>2
<1>7. RecoveryBounded'
  <2> SUFFICES ASSUME NEW k \in Jobs
               PROVE  requeued'[k] <= MaxRecoveries + aborted'
      BY DEF RecoveryBounded
  <2>1. requeued[k] <= MaxRecoveries + aborted
        BY DEF RetryInv, RecoveryBounded
  <2> QED BY <1>2, <1>5, <1>6, <2>1
<1>8. ASSUME NEW k \in Jobs
      PROVE  /\ db'[k] # None =>
                  requeued'[k] <= db'[k].retries + aborted'
                                   + (IF k \in sweep'.dirty THEN 1 ELSE 0)
             /\ sweep'.rows[k] # None =>
                  /\ requeued'[k] <= sweep'.rows[k].retries + aborted'
                  /\ k \notin sweep'.dirty
                  /\ k <= created' /\ draft'[k] = None
             /\ k > created' \/ draft'[k] # None => requeued'[k] = 0
  <2>1. CASE k # j
        BY <1>2, <1>5, <2>1 DEF RetryInv
  <2>2. CASE k = j
    <3>1. db[j] # None => requeued[j] <= db[j].retries + aborted
          BY <1>1, <1>3 DEF RetryInv
    <3>2. db[j] # None => requeued'[j] <= db[j].retries + aborted + 1
      <4>1. /\ requeued[j] \in Nat /\ aborted \in Nat
            /\ db[j] # None => db[j].retries \in Nat
            BY <1>3
      <4> QED BY <1>6, <3>1, <4>1
    <3>3. (IF j \in sweep'.dirty THEN 1 ELSE 0) = 1
          BY <1>6
    <3>4. ~(j > created) /\ draft[j] = None
          BY <1>1, <1>3 DEF Jobs
    <3>5. db' = db /\ draft' = draft /\ created' = created /\ aborted' = aborted
          BY <1>2
    <3> QED BY <1>6, <2>2, <3>2, <3>3, <3>4, <3>5
  <2> QED BY <2>1, <2>2
<1> QED BY <1>1, <1>2, <1>7, <1>8 DEF RetryInv

LEMMA RetryInvCommit ==
  ASSUME TypeOK, TypeOK', DraftInv, RetryInv, RecoverCommit
  PROVE  RetryInv'
<1>1. /\ sweep' = EmptySweep
      /\ UNCHANGED <<draft, created, requeued, aborted>>
      /\ \A j \in Jobs : db'[j] = IF j \in sweep.dirty \ SweepLost
                                     THEN Recovered(j) ELSE db[j]
      BY DEF RecoverCommit
<1>2. /\ EmptySweep.dirty = {} /\ \A j \in Jobs : EmptySweep.rows[j] = None
      BY DEF EmptySweep
<1>3. ASSUME NEW j \in Jobs, db'[j] # None
      PROVE  requeued[j] <= db'[j].retries + aborted
  <2>1. CASE j \in sweep.dirty \ SweepLost
    <3>1. db[j] # None /\ db[j] \in Row
          BY <2>1 DEF SweepLost, TypeOK
    <3>2. db'[j].retries = db[j].retries + 1 /\ db[j].retries \in Nat
          BY <1>1, <2>1, <3>1 DEF Recovered, Row
    <3>3. j \in sweep.dirty /\ (IF j \in sweep.dirty THEN 1 ELSE 0) = 1
          BY <2>1
    <3>4. requeued[j] <= db[j].retries + aborted + 1
          BY <3>1, <3>3 DEF RetryInv
    <3>5. requeued[j] \in Nat /\ aborted \in Nat
          BY DEF TypeOK
    <3> QED BY <3>2, <3>4, <3>5
  <2>2. CASE j \notin sweep.dirty \ SweepLost
    <3>1. db'[j] = db[j] /\ db[j] # None /\ j \notin sweep.dirty
          BY <1>1, <1>3, <2>2 DEF SweepLost
    <3>2. requeued[j] <= db[j].retries + aborted + 0
          BY <3>1 DEF RetryInv
    <3>3. db[j].retries \in Nat /\ aborted \in Nat
          BY <3>1 DEF TypeOK, Row
    <3> QED BY <3>1, <3>2, <3>3
  <2> QED BY <2>1, <2>2
<1>4. /\ \A j \in Jobs : db'[j] # None => db'[j].retries \in Nat
      /\ requeued \in [Jobs -> Nat] /\ aborted \in Nat
      BY DEF TypeOK, Row
<1>5. ASSUME NEW j \in Jobs
      PROVE  /\ requeued[j] <= MaxRecoveries + aborted
             /\ j > created \/ draft[j] # None => requeued[j] = 0
      BY DEF RetryInv, RecoveryBounded
<1>6. RecoveryBounded'
      BY <1>1, <1>5 DEF RecoveryBounded
<1>7. ASSUME NEW j \in Jobs, db'[j] # None
      PROVE  requeued'[j] <= db'[j].retries + aborted'
                               + (IF j \in sweep'.dirty THEN 1 ELSE 0)
  <2>1. sweep'.dirty = {}
        BY <1>1, <1>2
  <2> QED BY <1>1, <1>3, <1>4, <1>7, <2>1
<1> QED BY <1>1, <1>2, <1>5, <1>6, <1>7 DEF RetryInv

LEMMA RetryInvRollBack ==
  ASSUME TypeOK, RetryInv, RollBackSweep, UNCHANGED <<db, created, requeued>>,
         \A j \in Jobs : draft'[j] \in {draft[j], None}
  PROVE  RetryInv'
<1>1. /\ sweep' = EmptySweep /\ aborted' = aborted + 1 /\ aborted \in Nat
      BY DEF RollBackSweep, TypeOK
<1>2. /\ EmptySweep.dirty = {} /\ \A j \in Jobs : EmptySweep.rows[j] = None
      BY DEF EmptySweep
<1>3. /\ requeued \in [Jobs -> Nat]
      /\ \A j \in Jobs : db[j] # None => db[j].retries \in Nat
      BY DEF TypeOK, Row
<1>4. RecoveryBounded'
      BY <1>1, <1>3 DEF RetryInv, RecoveryBounded
<1>5. ASSUME NEW j \in Jobs, db[j] # None
      PROVE  requeued[j] <= db[j].retries + aborted'
  <2>1. requeued[j] <= db[j].retries + aborted + (IF j \in sweep.dirty THEN 1 ELSE 0)
        BY <1>5 DEF RetryInv
  <2> QED BY <1>1, <1>3, <1>5, <2>1
<1>6. ASSUME NEW j \in Jobs, j > created \/ draft'[j] # None
      PROVE  requeued[j] = 0
      BY <1>6 DEF RetryInv
<1> QED BY <1>1, <1>2, <1>4, <1>5, <1>6, <1>3 DEF RetryInv

LEMMA RetryInvStep ==
  ASSUME TypeOK, TypeOK', DraftInv, RetryInv, [Next]_vars
  PROVE  RetryInv'
<1>1. CASE UNCHANGED <<sweep, requeued, aborted>>
      BY <1>1, RetryInvKept
<1>2. CASE SweepStep
  <2>1. CASE RecoverLost \/ RecoverAbort
        BY <2>1, RetryInvRollBack DEF RecoverLost, RecoverAbort
  <2> QED BY <1>2, <2>1, RetryInvBegin, RetryInvJob, RetryInvCommit DEF SweepStep
<1>3. CASE BotRestart
  <2>1. CASE sweep.on
        BY <1>3, <2>1, RetryInvRollBack DEF BotRestart
  <2>2. CASE ~sweep.on
        BY <1>3, <1>1, <2>2 DEF BotRestart
  <2> QED BY <2>1, <2>2
<1>4. ASSUME NEW w \in Workers, WorkerStep(w) \/ WorkerFault(w)
      PROVE  UNCHANGED <<sweep, requeued, aborted>>
      BY <1>4, WorkersKeepBot DEF botVars
<1>5. ASSUME NEW u \in Users, UserStep(u)
      PROVE  UNCHANGED <<sweep, requeued, aborted>>
      BY <1>5 DEF UserStep, Submit, RedditQueue, RedditCommit, RedditRollback,
                  CancelRead, CancelFails, CancelCommit, ClearHistory
<1>6. ASSUME IntakeStep \/ MenuStep \/ \E j \in Jobs : HeartbeatAges(j)
      PROVE  UNCHANGED <<sweep, requeued, aborted>>
      BY <1>6 DEF IntakeStep, Enqueue, EnqueueFails, MenuStep, Click,
           QualityPick, QualityPickFails, PickSwallowed, HeartbeatAges, botVars
<1>7. CASE UNCHANGED vars
      BY <1>7, <1>1 DEF vars
<1> QED BY <1>1, <1>2, <1>3, <1>4, <1>5, <1>6, <1>7 DEF Next

(* However often attempts crash, time out or are duplicated, a job comes    *)
(* back MaxRecoveries times at most, plus once for every sweep that was     *)
(* rolled back after it had enqueued.                                       *)
THEOREM RecoveryIsBounded == Spec => []RecoveryBounded
<1>1. TypeOK /\ DraftInv /\ RetryInv /\ TypeOK' /\ [Next]_vars => RetryInv'
      BY RetryInvStep
<1>2. RetryInv => RecoveryBounded
      BY DEF RetryInv
<1> QED BY <1>1, <1>2, RetryInvInit, DraftInvariant, PTL DEF Spec

-----------------------------------------------------------------------------
(* Who has a job in hand.                                                   *)
Holds(w, j) == attempt[w] # Idle /\ attempt[w].msg.job = j

NoIntake(j) == \A m \in intake : m.job # j
NoPicks(j)  == \A p \in picks : p[1] # j
NoQueue(j)  == \A i \in DOMAIN queue : queue[i].job # j
NoHands(j)  == \A w \in Workers : ~Holds(w, j)

\* w works on j and has not stored its outcome.
Tends(w, j) ==
  attempt[w].pc \notin {"idle", "announce", "cleanup"} /\ attempt[w].msg.job = j

Attended(j) ==
  \/ menu[j] # "none"
  \/ ~NoIntake(j) \/ ~NoPicks(j) \/ ~NoQueue(j)
  \/ \E w \in Workers : Tends(w, j)

(* A row becomes active only in the hands of somebody, and whoever lets go  *)
(* of an active one leaves it to the queue or to its user.                  *)
StrandInv ==
  /\ \A j \in Jobs : draft[j] = None
  /\ faults = 0 => \A j \in Jobs : IsActive(j) => Attended(j)

LEMMA NoDrafts ==
  ASSUME "reddit" \notin Events, TypeOK, [Next]_vars, \A j \in Jobs : draft[j] = None
  PROVE  \A j \in Jobs : draft'[j] = None
<1>1. ASSUME NEW w \in Workers, WorkerStep(w) \/ WorkerFault(w)
      PROVE  UNCHANGED draft
      BY <1>1, WorkersKeepBot DEF botVars
<1>2. ASSUME NEW u \in Users, UserStep(u)
      PROVE  UNCHANGED draft
      BY <1>2 DEF UserStep, Submit, RedditQueue, RedditCommit, RedditRollback, Drafts,
                  CancelRead, CancelFails, CancelCommit, ClearHistory
<1>3. CASE BotRestart
      BY <1>3 DEF BotRestart
<1>4. ASSUME IntakeStep \/ MenuStep \/ SweepStep \/ \E j \in Jobs : HeartbeatAges(j)
      PROVE  UNCHANGED draft
      BY <1>4 DEF IntakeStep, Enqueue, EnqueueFails, MenuStep, Click,
           QualityPick, QualityPickFails, PickSwallowed,
           SweepStep, RecoverBegin, RecoverCommit,
           RecoverLost, RecoverAbort, RecoverJob, HeartbeatAges, botVars
<1> QED BY <1>1, <1>2, <1>3, <1>4 DEF Next, vars

\* The queue after a message has been put at its end.
LEMMA AppendParts ==
  ASSUME TypeOK, NEW m \in Message, queue' = Append(queue, m)
  PROVE  /\ DOMAIN queue' = DOMAIN queue \cup {Len(queue) + 1}
         /\ queue'[Len(queue) + 1] = m
         /\ \A i \in DOMAIN queue : queue'[i] = queue[i]
<1>1. queue \in Seq(Message)
      BY DEF TypeOK
<1>2. /\ Len(queue) \in Nat /\ DOMAIN queue = 1 .. Len(queue)
      /\ DOMAIN queue' = 1 .. Len(queue) + 1
      /\ queue'[Len(queue) + 1] = m
      /\ \A i \in DOMAIN queue : queue'[i] = queue[i]
      BY <1>1
<1> QED BY <1>2

LEMMA AppendKeeps ==
  ASSUME TypeOK, NEW m \in Message, queue' = Append(queue, m)
  PROVE  ~NoQueue(m.job)' /\ \A j \in Jobs : ~NoQueue(j) => ~NoQueue(j)'
<1> QED BY AppendParts DEF NoQueue

\* The worker steps.
LEMMA WorkersAttend ==
  ASSUME Unselectable = {}, TypeOK, NEW w \in Workers, WorkerStep(w),
         NEW k \in Jobs, IsActive(k) => Attended(k), IsActive(k)'
  PROVE  Attended(k)'
<1> DEFINE Others == \/ menu[k] # "none" \/ ~NoIntake(k) \/ ~NoPicks(k)
                     \/ \E v \in Workers : v # w /\ Tends(v, k)
<1>0. /\ UNCHANGED <<intake, picks>> /\ attempt \in [Workers -> Attempt]
      /\ db \in [Jobs -> Row \cup {None}]
      BY WorkersKeepBot DEF botVars, TypeOK
<1>1. Attended(k) => Others \/ ~NoQueue(k) \/ Tends(w, k)
      BY DEF Attended
<1>2. ASSUME Others, menu'[k] = "none" => menu[k] = "none",
             \A v \in Workers : v # w => attempt'[v] = attempt[v]
      PROVE  Attended(k)'
      BY <1>0, <1>2 DEF Attended, Tends, NoIntake, NoPicks
<1>3. CASE Receive(w)
  <2>1. PICK m \in Message : m = Head(queue) /\ m = queue[1] /\ 1 \in DOMAIN queue
        BY <1>3 DEF Receive, TypeOK
  <2>2. /\ attempt'[w].pc \notin {"idle", "announce", "cleanup"} /\ attempt'[w].msg = m
        /\ \A v \in Workers : v # w => attempt'[v] = attempt[v]
        /\ UNCHANGED <<menu, db>> /\ queue' = Tail(queue) /\ queue # << >>
        BY <1>0, <1>3, <2>1 DEF Receive
  <2>3. IsActive(k) /\ ~Tends(w, k)
        BY <1>3, <2>2 DEF IsActive, Tends, Receive, At
  <2>4. CASE ~NoQueue(k) /\ m.job # k
    <3>1. PICK i \in DOMAIN queue : queue[i].job = k
          BY <2>4 DEF NoQueue
    <3>2. /\ i \in Nat /\ i > 1 /\ i - 1 \in DOMAIN queue'
          /\ queue'[i - 1] = queue[i]
      <4>1. queue \in Seq(Message) /\ i \in 1 .. Len(queue) /\ queue' = Tail(queue)
            BY <2>2, <3>1 DEF TypeOK
      <4>2. i # 1
            BY <2>1, <2>4, <3>1
      <4> QED BY <4>1, <4>2
    <3> QED BY <3>1, <3>2 DEF NoQueue, Attended
  <2>5. CASE m.job = k
        BY <2>2, <2>5 DEF Attended, Tends
  <2> QED BY <1>1, <1>2, <2>2, <2>3, <2>4, <2>5
<1>4. CASE ~Receive(w)
  <2>1. PICK a : attempt' = [attempt EXCEPT ![w] = a]
        BY <1>4 DEF WorkerStep, PreflightStep, DownloadStep, CacheHit, CacheMiss,
           SendCached, RecordCached, Fetched, FetchFails, AskQuality, SelectFails,
           WarnLarge, Chain, Claim, Download, DownloadFails, Compress, Upload,
           UploadNothing, FileGone, RecordDone, Announce, RecordFailed, Cleanup,
           Goto, Ends
  <2>2. \A v \in Workers : v # w => attempt'[v] = attempt[v]
        BY <1>0, <2>1
  <2>3. attempt[w].pc # "idle"
        BY <1>4 DEF WorkerStep, PreflightStep, DownloadStep, CacheHit, CacheMiss,
           SendCached, RecordCached, Fetched, FetchFails, AskQuality, SelectFails,
           WarnLarge, Chain, Claim, Download, DownloadFails, Compress, Upload,
           UploadNothing, FileGone, RecordDone, Announce, RecordFailed, Cleanup, At
  <2>4. PICK m \in Message, j \in Jobs : m = attempt[w].msg /\ j = m.job
        BY <2>3 DEF TypeOK, Message
  <2>5. CASE CacheHit(w) \/ CacheMiss(w) \/ SendCached(w) \/ Download(w) \/ DownloadFails(w)
             \/ Upload(w) \/ UploadNothing(w) \/ FileGone(w)
    <3>1. UNCHANGED <<db, menu, queue>>
          BY <2>5 DEF CacheHit, CacheMiss, SendCached, Download, DownloadFails, Upload,
             UploadNothing, FileGone
    <3>2. /\ attempt'[w].pc \notin {"idle", "announce", "cleanup"}
          /\ attempt'[w].msg = m
          BY <1>0, <2>4, <2>5 DEF CacheHit, CacheMiss, SendCached, Download, DownloadFails,
             Upload, UploadNothing, FileGone, Goto, Attempt
    <3> QED BY <1>1, <1>2, <2>2, <2>4, <3>1, <3>2 DEF Attended, Tends, IsActive, NoQueue
  <2>6. CASE Fetched(w) \/ Claim(w) \/ Compress(w)
    <3>1. UNCHANGED <<menu, queue>> /\ (k # j => db'[k] = db[k])
          BY <1>0, <2>4, <2>6 DEF Fetched, Claim, Compress, UpdateRow
    <3>2. /\ attempt'[w].pc \notin {"idle", "announce", "cleanup"}
          /\ attempt'[w].msg = m
          BY <1>0, <2>4, <2>6 DEF Fetched, Claim, Compress, Goto, Attempt
    <3>3. CASE k = j
          BY <2>4, <3>2, <3>3 DEF Attended, Tends
    <3>4. CASE k # j
          BY <1>1, <1>2, <2>2, <2>4, <3>1, <3>4 DEF Attended, Tends, IsActive, NoQueue
    <3> QED BY <3>3, <3>4
  <2>7. CASE RecordCached(w) \/ FetchFails(w) \/ RecordDone(w) \/ RecordFailed(w)
    <3>1. UNCHANGED <<menu, queue>> /\ (k # j => db'[k] = db[k])
          BY <1>0, <2>4, <2>7 DEF RecordCached, FetchFails, RecordDone, RecordFailed,
             MarkFailed, UpdateRow
    <3>2. k = j /\ db[j] # None => db'[j].status \in {"DONE", "FAILED"}
      <4>1. CASE RecordCached(w) \/ RecordDone(w)
        <5>1. UpdateRow(j, [db[j] EXCEPT !.status = "DONE", !.file = attempt[w].file])
              BY <2>4, <4>1 DEF RecordCached, RecordDone
        <5>2. db[j] # None => db[j] \in Row
              BY <1>0
        <5>3. db[j] # None =>
                [db[j] EXCEPT !.status = "DONE", !.file = attempt[w].file].status = "DONE"
              BY <5>2 DEF Row
        <5> QED BY <1>0, <5>1, <5>3 DEF UpdateRow
      <4>2. CASE FetchFails(w) \/ RecordFailed(w)
        <5>1. UpdateRow(j, [db[j] EXCEPT !.status = "FAILED"])
              BY <2>4, <4>2 DEF FetchFails, RecordFailed, MarkFailed
        <5>2. db[j] # None => [db[j] EXCEPT !.status = "FAILED"].status = "FAILED"
              BY <1>0 DEF Row
        <5> QED BY <1>0, <5>1, <5>2 DEF UpdateRow
      <4> QED BY <2>7, <4>1, <4>2
    <3>3. k # j
      <4>1. db[j] = None => db'[j] = None
            BY <2>4, <2>7 DEF RecordCached, FetchFails, RecordDone, RecordFailed,
               MarkFailed, UpdateRow
      <4> QED BY <3>2, <4>1 DEF IsActive, Active
    <3> QED BY <1>1, <1>2, <2>2, <2>4, <3>1, <3>3 DEF Attended, Tends, IsActive, NoQueue
  <2>8. CASE AskQuality(w) \/ WarnLarge(w)
    <3>1. UNCHANGED <<db, queue>> /\ (k # j => menu'[k] = menu[k]) /\ menu'[j] # "none"
          BY <2>4, <2>8 DEF AskQuality, WarnLarge, TypeOK
    <3> QED BY <1>1, <1>2, <2>2, <2>4, <3>1 DEF Attended, Tends, IsActive, NoQueue
  <2>9. CASE Chain(w)
    <3> DEFINE n == [m EXCEPT !.task = "download"]
    <3>1. UNCHANGED <<db, menu>> /\ queue' = Append(queue, n) /\ n \in Message /\ n.job = j
          BY <2>4, <2>9 DEF Chain, Chained, Message
    <3> HIDE DEF n
    <3>2. ~NoQueue(j)' /\ (~NoQueue(k) => ~NoQueue(k)')
          BY <3>1, AppendKeeps
    <3> QED BY <1>1, <1>2, <2>2, <2>4, <3>1, <3>2 DEF Attended, Tends, IsActive
  <2>10. CASE SelectFails(w)
        BY <2>10 DEF SelectFails
  <2>11. CASE Announce(w) \/ Cleanup(w)
    <3>1. UNCHANGED <<db, menu, queue>> /\ ~Tends(w, k)
          BY <2>11 DEF Announce, Cleanup, At, Tends
    <3> QED BY <1>1, <1>2, <2>2, <3>1 DEF Attended, IsActive, NoQueue
  <2> QED BY <1>4, <2>5, <2>6, <2>7, <2>8, <2>9, <2>10, <2>11
          DEF WorkerStep, PreflightStep, DownloadStep
<1> QED BY <1>3, <1>4

\* The steps of the bot.
LEMMA BotAttends ==
  ASSUME "reddit" \notin Events, TypeOK, \A j \in Jobs : draft[j] = None,
         IntakeStep \/ MenuStep \/ SweepStep \/ (\E u \in Users : UserStep(u))
           \/ (\E j \in Jobs : HeartbeatAges(j)) \/ BotRestart,
         UNCHANGED faults,
         NEW k \in Jobs, IsActive(k) => Attended(k), IsActive(k)'
  PROVE  Attended(k)'
<1>0. /\ db \in [Jobs -> Row \cup {None}] /\ menu \in [Jobs -> {"none", "quality", "confirm"}]
      /\ \A kind : ~Fault(kind)
      BY DEF TypeOK, Fault
<1>1. ASSUME menu'[k] = menu[k], intake \subseteq intake', picks \subseteq picks',
             ~NoQueue(k) => ~NoQueue(k)', UNCHANGED attempt, IsActive(k)
      PROVE  Attended(k)'
      BY <1>1 DEF Attended, Tends, NoIntake, NoPicks
<1>2. ASSUME NEW u \in Users, UserStep(u)
      PROVE  Attended(k)'
  <2>1. ASSUME NEW url \in Urls, NEW pref \in Qualities, Submit(u, url, pref)
        PROVE  Attended(k)'
    <3>1. PICK q : /\ db' = [db EXCEPT ![created + 1] = NewRow(u, url, q)]
                   /\ intake' = intake \cup {Preflight(created + 1, url, q)}
          BY <2>1 DEF Submit
    <3>2. UNCHANGED <<menu, picks, queue, attempt>>
          BY <2>1 DEF Submit, workerVars
    <3>3. CASE k = created + 1
      <4>1. Preflight(created + 1, url, q).job = created + 1
            BY DEF Preflight
      <4>2. ~NoIntake(k)'
            BY <3>1, <3>3, <4>1 DEF NoIntake
      <4> QED BY <4>2 DEF Attended
    <3>4. CASE k # created + 1
          BY <1>0, <1>1, <3>1, <3>2, <3>4 DEF IsActive, NoQueue
    <3> QED BY <3>3, <3>4
  <2>2. CASE CancelRead(u) \/ CancelFails(u) \/ CancelCommit(u) \/ ClearHistory(u)
    <3>1. UNCHANGED <<menu, intake, picks, queue, attempt>>
          BY <2>2 DEF CancelRead, CancelFails, CancelCommit, ClearHistory, workerVars
    <3>2. IsActive(k)
          BY <1>0, <2>2 DEF CancelRead, CancelFails, CancelCommit, CancelRow, ClearHistory, IsActive,
             Active, Row
    <3> QED BY <1>1, <3>1, <3>2 DEF NoQueue
  <2>3. ~RedditCommit(u) /\ ~RedditRollback(u)
        BY DEF RedditCommit, RedditRollback, Drafts
  <2> QED BY <1>2, <2>1, <2>2, <2>3 DEF UserStep, RedditQueue
<1>3. CASE IntakeStep
  <2>1. PICK m \in Message : m \in intake /\ Enqueue(m)
        BY <1>0, <1>3 DEF IntakeStep, EnqueueFails, TypeOK
  <2>2. /\ UNCHANGED <<db, menu, picks, attempt>> /\ queue' = Append(queue, m)
        /\ intake' = intake \ {m}
        BY <2>1 DEF Enqueue, workerVars
  <2>3. ~NoQueue(m.job)' /\ (~NoQueue(k) => ~NoQueue(k)')
        BY <2>2, AppendKeeps
  <2>4. ~NoIntake(k) => m.job = k \/ ~NoIntake(k)'
        BY <2>2 DEF NoIntake
  <2> QED BY <2>2, <2>3, <2>4 DEF IsActive, Attended, Tends, NoPicks
<1>4. CASE MenuStep
  <2>1. ASSUME NEW j \in Jobs, NEW q \in Qualities, Click(j, q)
        PROVE  Attended(k)'
        BY <1>1, <2>1 DEF Click, workerVars, IsActive, NoQueue
  <2>2. ASSUME NEW j \in Jobs, NEW q \in Qualities, QualityPick(j, q)
        PROVE  Attended(k)'
    <3>1. /\ UNCHANGED <<queue, attempt>> /\ picks' = picks \ {<<j, q>>}
          /\ menu' = [menu EXCEPT ![j] = "none"]
          BY <2>2 DEF QualityPick, workerVars
    <3>2. CASE k # j
      <4>1. db'[k] = db[k] /\ intake \subseteq intake' /\ menu'[k] = menu[k]
            BY <1>0, <2>2, <3>1, <3>2 DEF QualityPick
      <4>2. ~NoPicks(k) => ~NoPicks(k)'
            BY <3>1, <3>2 DEF NoPicks
      <4> QED BY <3>1, <4>1, <4>2 DEF Attended, IsActive, Tends, NoIntake, NoQueue
    <3>3. CASE k = j
      <4>1. db[j] # None
            BY <2>2, <3>3 DEF QualityPick, IsActive
      <4>2. Preflight(j, db[j].url, q) \in intake'
            BY <2>2, <4>1 DEF QualityPick
      <4> QED BY <3>3, <4>2 DEF Preflight, Attended, NoIntake
    <3> QED BY <3>2, <3>3
  <2>3. \A p \in picks : p[1] \in Jobs /\ p[2] \in Qualities
        BY DEF TypeOK
  <2> QED BY <1>0, <1>4, <2>1, <2>2, <2>3 DEF MenuStep, QualityPickFails, PickSwallowed
<1>5. CASE SweepStep
  <2>1. /\ UNCHANGED <<menu, intake, picks, attempt>>
        BY <1>5 DEF SweepStep, RecoverBegin, RecoverCommit, RecoverLost, RecoverAbort,
                    RecoverJob, workerVars
  <2>2. IsActive(k)
    <3>1. CASE UNCHANGED db
          BY <3>1 DEF IsActive
    <3>2. CASE RecoverCommit
      <4>1. db'[k] = IF k \in sweep.dirty \ SweepLost THEN Recovered(k) ELSE db[k]
            BY <3>2 DEF RecoverCommit
      <4>2. CASE db'[k] = db[k]
            BY <4>2 DEF IsActive
      <4>3. CASE db[k] # None /\ db'[k] = Recovered(k)
        <5>1. db[k] \in Row
              BY <1>0, <4>3
        <5>2. db'[k].status = IF k \in sweep.dead THEN "FAILED" ELSE db[k].status
              BY <4>3, <5>1 DEF Recovered, Row
        <5> QED BY <4>3, <5>2 DEF IsActive, Active
      <4> QED BY <4>1, <4>2, <4>3 DEF SweepLost
    <3> QED BY <1>5, <3>1, <3>2 DEF SweepStep, RecoverBegin, RecoverLost, RecoverAbort,
            RecoverJob
  <2>3. ~NoQueue(k) => ~NoQueue(k)'
    <3>1. CASE UNCHANGED queue
          BY <3>1 DEF NoQueue
    <3>2. ASSUME NEW j \in Jobs, RecoverJob(j)
          PROVE  ~NoQueue(k) => ~NoQueue(k)'
      <4>1. PICK row \in Row : row = sweep.rows[j]
            BY <3>2 DEF RecoverJob, TypeOK, Sweep
      <4>2. Preflight(j, row.url, row.fmt) \in Message
            BY DEF Preflight, Message, Row
      <4> QED BY <3>1, <3>2, <4>1, <4>2, AppendKeeps DEF RecoverJob
    <3> QED BY <1>5, <3>1, <3>2 DEF SweepStep, RecoverBegin, RecoverCommit, RecoverLost,
               RecoverAbort
  <2> QED BY <1>1, <2>1, <2>2, <2>3
<1>6. ASSUME NEW j \in Jobs, HeartbeatAges(j)
      PROVE  Attended(k)'
  <2>1. UNCHANGED <<menu, intake, picks, queue, attempt>>
        BY <1>6 DEF HeartbeatAges, botVars, workerVars
  <2>2. IsActive(k)
        BY <1>0, <1>6 DEF HeartbeatAges, IsActive, Row
  <2> QED BY <1>1, <2>1, <2>2 DEF NoQueue
<1>7. ~BotRestart
      BY <1>0 DEF BotRestart
<1> QED BY <1>2, <1>3, <1>4, <1>5, <1>6, <1>7

LEMMA StrandInvStep ==
  ASSUME "reddit" \notin Events, Unselectable = {}, TypeOK, StrandInv, [Next]_vars
  PROVE  StrandInv'
<1> USE DEF StrandInv
<1>1. \A j \in Jobs : draft'[j] = None
      BY NoDrafts
<1>2. faults \in Nat
      BY DEF TypeOK
<1>3. CASE UNCHANGED vars
      BY <1>1, <1>3 DEF vars, IsActive, Attended, Tends, NoIntake, NoPicks, NoQueue
<1>4. ASSUME NEW w \in Workers, WorkerFault(w)
      PROVE  faults' # 0
      BY <1>2, <1>4 DEF WorkerFault, Raises, TimesOut, WorkerCrash, Fault
<1>5. ASSUME NEW w \in Workers, WorkerStep(w)
      PROVE  faults' = faults
      BY <1>5 DEF WorkerStep, Receive, PreflightStep, DownloadStep, CacheHit, CacheMiss,
         SendCached, RecordCached, Fetched, FetchFails, AskQuality, SelectFails,
         WarnLarge, Chain, Claim, Download, DownloadFails, Compress, Upload,
         UploadNothing, FileGone, RecordDone, Announce, RecordFailed, Cleanup
<1>6. ASSUME NEW kind, Fault(kind)
      PROVE  faults' # 0
      BY <1>2, <1>6 DEF Fault
<1>7. ASSUME NEW u \in Users, UserStep(u)
      PROVE  faults' = faults \/ faults' # 0
      BY <1>6, <1>7 DEF UserStep, Submit, RedditQueue, RedditCommit, RedditRollback,
           CancelRead, CancelFails, CancelCommit, ClearHistory
<1>8. ASSUME IntakeStep \/ MenuStep \/ (\E j \in Jobs : HeartbeatAges(j)) \/ BotRestart
      PROVE  faults' = faults \/ faults' # 0
      BY <1>6, <1>8 DEF IntakeStep, Enqueue, EnqueueFails, MenuStep, Click,
           QualityPick, QualityPickFails, PickSwallowed, HeartbeatAges, BotRestart
<1>9. ASSUME SweepStep
      PROVE  faults' = faults \/ faults' # 0
      BY <1>6, <1>9 DEF SweepStep, RecoverBegin, RecoverCommit, RecoverLost,
           RecoverAbort, RecoverJob
<1>10. ASSUME Next, faults' = 0, NEW k \in Jobs, IsActive(k)'
      PROVE  Attended(k)'
  <2>1. faults' = faults /\ (IsActive(k) => Attended(k))
        BY <1>4, <1>5, <1>7, <1>8, <1>9, <1>10 DEF Next
  <2> QED BY <1>4, <1>10, <2>1, WorkersAttend, BotAttends DEF Next
<1> QED BY <1>1, <1>3, <1>10

(* As long as there is no fault, a job nobody works on has ended or waits   *)
(* for its user, where posts are not queued before their rows are committed *)
(* and every request has a format: neither the sweep nor a cancellation,    *)
(* a deletion or a second press of the menu strands one.                    *)
THEOREM NobodyIsStranded ==
  ASSUME "reddit" \notin Events, Unselectable = {}
  PROVE  Spec => [](faults = 0 => NoneStranded)
<1>1. Init => StrandInv
      BY DEF Init, StrandInv, IsActive
<1>2. TypeOK /\ StrandInv /\ [Next]_vars => StrandInv'
      BY StrandInvStep
<1>3. ASSUME StrandInv, faults = 0, NEW j \in Jobs, Unattended(j)
      PROVE  ~IsActive(j)
  <2>1. menu[j] = "none" /\ Holders(j) = {}
        BY <1>3 DEF Unattended
  <2>2. NoIntake(j) /\ NoPicks(j) /\ NoQueue(j)
        BY <2>1 DEF Holders, NoIntake, NoPicks, NoQueue
  <2>3. ASSUME NEW w \in Workers, Tends(w, j)
        PROVE  FALSE
    <3>1. attempt[w] # Idle /\ attempt[w].msg.job = j
          BY <2>3 DEF Tends, Idle
    <3>2. <<"attempt", w>> \in Holders(j)
          BY <3>1 DEF Holders
    <3> QED BY <2>1, <3>2
  <2> QED BY <1>3, <2>1, <2>2, <2>3 DEF StrandInv, Attended
<1>4. StrandInv => (faults = 0 => NoneStranded)
      BY <1>3 DEF NoneStranded
<1> QED BY <1>1, <1>2, <1>4, TypeCorrect, PTL DEF Spec

-----------------------------------------------------------------------------
(* What may still send a file of job j.                                     *)
Owing == {"cache", "send", "fetch", "route", "claim", "download", "downloaded",
          "compressing"}

Owes(w, j) == attempt[w].pc \in Owing /\ attempt[w].msg.job = j

Tokens(j) ==
  {<<"intake", m>> : m \in {x \in intake : x.job = j}}
    \cup {<<"pick", p>> : p \in {x \in picks : x[1] = j}}
    \cup {<<"queue", i>> : i \in {x \in DOMAIN queue : queue[x].job = j}}
    \cup {<<"attempt", w>> : w \in {x \in Workers : Owes(x, j)}}

\* The messages that entered the queue from outside the workers, or will.
Due(j) == (IF j <= created THEN 1 ELSE 0) + clicks[j] + requeued[j]

(* What was sent and what may still send is covered by what came in.        *)
Covered(j) ==
  /\ IsFiniteSet(Tokens(j))
  /\ sent[j] + Cardinality(Tokens(j)) <= Due(j)

DeliveryInv == \A j \in Jobs : Covered(j)

LEMMA DueTypes ==
  ASSUME TypeOK, TypeOK', NEW j \in Jobs
  PROVE  Due(j) \in Nat /\ sent[j] \in Nat /\ Due(j)' \in Nat /\ sent'[j] \in Nat
<1>1. clicks[j] \in Nat /\ requeued[j] \in Nat /\ sent[j] \in Nat
      BY DEF TypeOK
<1>2. clicks'[j] \in Nat /\ requeued'[j] \in Nat /\ sent'[j] \in Nat
      BY DEF TypeOK
<1> QED BY <1>1, <1>2 DEF Due

LEMMA Fewer ==
  ASSUME NEW S, IsFiniteSet(S), NEW T, T \subseteq S
  PROVE  /\ IsFiniteSet(T) /\ Cardinality(T) <= Cardinality(S)
         /\ Cardinality(S) \in Nat /\ Cardinality(T) \in Nat
<1>1. IsFiniteSet(T) /\ Cardinality(T) <= Cardinality(S)
      BY FS_Subset
<1> QED BY <1>1, FS_CardinalityType

LEMMA OneMore ==
  ASSUME NEW S, IsFiniteSet(S), NEW y, NEW T, T \subseteq S \cup {y}
  PROVE  /\ IsFiniteSet(T) /\ Cardinality(T) <= Cardinality(S) + 1
         /\ Cardinality(S) \in Nat /\ Cardinality(T) \in Nat
<1>1. Cardinality(S) \in Nat
      BY FS_CardinalityType
<1>2. /\ IsFiniteSet(S \cup {y})
      /\ Cardinality(S \cup {y}) = IF y \in S THEN Cardinality(S) ELSE Cardinality(S) + 1
      BY FS_AddElement
<1>3. Cardinality(S \cup {y}) <= Cardinality(S) + 1 /\ Cardinality(S \cup {y}) \in Nat
      BY <1>1, <1>2
<1>4. /\ IsFiniteSet(T) /\ Cardinality(T) <= Cardinality(S \cup {y})
      /\ Cardinality(T) \in Nat
      BY <1>2, Fewer
<1> QED BY <1>1, <1>3, <1>4

LEMMA OneLess ==
  ASSUME NEW S, IsFiniteSet(S), NEW x \in S
  PROVE  /\ IsFiniteSet(S \ {x}) /\ Cardinality(S \ {x}) + 1 = Cardinality(S)
         /\ Cardinality(S) \in Nat /\ Cardinality(S \ {x}) \in Nat
<1>1. IsFiniteSet(S \ {x}) /\ Cardinality(S \ {x}) = Cardinality(S) - 1
      BY FS_RemoveElement
<1>2. Cardinality(S) \in Nat /\ Cardinality(S \ {x}) \in Nat
      BY <1>1, FS_CardinalityType
<1> QED BY <1>1, <1>2

\* Nothing new that may send.
LEMMA NoGain ==
  ASSUME TypeOK, TypeOK', NEW j \in Jobs, Covered(j), Tokens(j)' \subseteq Tokens(j),
         sent'[j] = sent[j], Due(j)' >= Due(j)
  PROVE  Covered(j)'
<1>1. /\ IsFiniteSet(Tokens(j)') /\ Cardinality(Tokens(j)') <= Cardinality(Tokens(j))
      /\ Cardinality(Tokens(j)) \in Nat /\ Cardinality(Tokens(j)') \in Nat
      BY Fewer DEF Covered
<1> QED BY <1>1, DueTypes DEF Covered

\* One more, which something from outside pays for.
LEMMA OneGained ==
  ASSUME TypeOK, TypeOK', NEW j \in Jobs, Covered(j), NEW y,
         Tokens(j)' \subseteq Tokens(j) \cup {y},
         sent'[j] = sent[j], Due(j)' >= Due(j) + 1
  PROVE  Covered(j)'
<1>1. /\ IsFiniteSet(Tokens(j)') /\ Cardinality(Tokens(j)') <= Cardinality(Tokens(j)) + 1
      /\ Cardinality(Tokens(j)) \in Nat /\ Cardinality(Tokens(j)') \in Nat
      BY OneMore DEF Covered
<1> QED BY <1>1, DueTypes DEF Covered

\* One for another.
LEMMA OneReplaced ==
  ASSUME TypeOK, TypeOK', NEW j \in Jobs, Covered(j), NEW x, NEW y,
         x \in Tokens(j), Tokens(j)' \subseteq (Tokens(j) \ {x}) \cup {y},
         sent'[j] = sent[j], Due(j)' >= Due(j)
  PROVE  Covered(j)'
<1>1. /\ IsFiniteSet(Tokens(j) \ {x})
      /\ Cardinality(Tokens(j) \ {x}) + 1 = Cardinality(Tokens(j))
      /\ Cardinality(Tokens(j)) \in Nat
      BY OneLess DEF Covered
<1>2. /\ IsFiniteSet(Tokens(j)')
      /\ Cardinality(Tokens(j)') <= Cardinality(Tokens(j) \ {x}) + 1
      /\ Cardinality(Tokens(j)') \in Nat
      BY <1>1, OneMore
<1> QED BY <1>1, <1>2, DueTypes DEF Covered

\* One is spent on a file.
LEMMA OneSpent ==
  ASSUME TypeOK, TypeOK', NEW j \in Jobs, Covered(j), NEW x,
         x \in Tokens(j), Tokens(j)' \subseteq Tokens(j) \ {x},
         sent'[j] = sent[j] + 1, Due(j)' >= Due(j)
  PROVE  Covered(j)'
<1>1. /\ IsFiniteSet(Tokens(j) \ {x})
      /\ Cardinality(Tokens(j) \ {x}) + 1 = Cardinality(Tokens(j))
      /\ Cardinality(Tokens(j)) \in Nat /\ Cardinality(Tokens(j) \ {x}) \in Nat
      BY OneLess DEF Covered
<1>2. /\ IsFiniteSet(Tokens(j)')
      /\ Cardinality(Tokens(j)') <= Cardinality(Tokens(j) \ {x})
      /\ Cardinality(Tokens(j)') \in Nat
      BY <1>1, Fewer
<1> QED BY <1>1, <1>2, DueTypes DEF Covered

\* The head of the queue becomes an attempt and the others move up.
LEMMA ReceiveCovers ==
  ASSUME TypeOK, TypeOK', NEW w \in Workers, Receive(w), NEW j \in Jobs, Covered(j)
  PROVE  Covered(j)'
<1>1. PICK m \in Message : m = Head(queue) /\ m = queue[1] /\ 1 \in DOMAIN queue
      BY DEF Receive, TypeOK
<1>2. /\ UNCHANGED <<intake, picks, sent, created, clicks, requeued>>
      /\ \A v \in Workers : v # w => attempt'[v] = attempt[v]
      /\ attempt'[w].msg = m /\ attempt[w].pc = "idle"
      BY <1>1 DEF Receive, botVars, TypeOK, At
<1>3. \A i \in DOMAIN queue' : /\ i \in Nat /\ i >= 1 /\ i + 1 \in DOMAIN queue
                               /\ queue'[i] = queue[i + 1]
      BY DEF Receive, TypeOK
<1> DEFINE S == Tokens(j)'
           T == Tokens(j)
           f == [x \in S |-> IF x[1] = "queue" THEN <<"queue", x[2] + 1>>
                             ELSE IF x = <<"attempt", w>> THEN <<"queue", 1>> ELSE x]
<1>4. ASSUME NEW x \in S
      PROVE  /\ f[x] \in T
             /\ \/ \E i \in Nat : i >= 1 /\ x = <<"queue", i>> /\ f[x] = <<"queue", i + 1>>
                \/ x = <<"attempt", w>> /\ f[x] = <<"queue", 1>>
                \/ x[1] # "queue" /\ x # <<"attempt", w>> /\ f[x] = x
  <2>1. CASE \E i \in DOMAIN queue' : queue'[i].job = j /\ x = <<"queue", i>>
        BY <1>3, <2>1 DEF Tokens
  <2>2. CASE \E n \in intake' : n.job = j /\ x = <<"intake", n>>
        BY <1>2, <2>2 DEF Tokens
  <2>3. CASE \E p \in picks' : p[1] = j /\ x = <<"pick", p>>
        BY <1>2, <2>3 DEF Tokens
  <2>4. CASE \E v \in Workers : Owes(v, j)' /\ x = <<"attempt", v>>
    <3>1. PICK v \in Workers : Owes(v, j)' /\ x = <<"attempt", v>>
          BY <2>4
    <3>2. CASE v = w
      <4>1. m.job = j
            BY <1>2, <3>1, <3>2 DEF Owes
      <4> QED BY <1>1, <3>1, <3>2, <4>1 DEF Tokens
    <3>3. CASE v # w
      <4>1. Owes(v, j)
            BY <1>2, <3>1, <3>3 DEF Owes
      <4> QED BY <3>1, <3>3, <4>1 DEF Tokens
    <3> QED BY <3>2, <3>3
  <2> QED BY <2>1, <2>2, <2>3, <2>4 DEF Tokens
<1>5. f \in Injection(S, T)
  <2>1. f \in [S -> T]
        BY <1>4
  <2>2. \A x, y \in S : f[x] = f[y] => x = y
        BY <1>4
  <2> QED BY <2>1, <2>2 DEF Injection, IsInjective
<1> HIDE DEF f
<1>6. IsFiniteSet(S) /\ Cardinality(S) <= Cardinality(T)
      BY <1>5, FS_Injection DEF Covered
<1>7. Cardinality(S) \in Nat /\ Cardinality(T) \in Nat
      BY <1>6, FS_CardinalityType DEF Covered
<1>8. sent'[j] = sent[j] /\ Due(j)' = Due(j)
      BY <1>2 DEF Due
<1> QED BY <1>6, <1>7, <1>8, DueTypes DEF Covered

\* A worker step other than Receive: what it does to the tokens of its slot.
LEMMA SlotTokens ==
  ASSUME TypeOK, NEW w \in Workers, NEW j \in Jobs,
         UNCHANGED <<intake, picks, queue>>,
         \A v \in Workers : v # w => attempt'[v] = attempt[v]
  PROVE  /\ Tokens(j)' \subseteq Tokens(j) \cup {<<"attempt", w>>}
         /\ ~Owes(w, j)' => Tokens(j)' \subseteq Tokens(j) \ {<<"attempt", w>>}
         /\ (Owes(w, j)' => Owes(w, j)) => Tokens(j)' \subseteq Tokens(j)
         /\ Owes(w, j) => <<"attempt", w>> \in Tokens(j)
<1>1. \A v \in Workers : v # w => (Owes(v, j)' <=> Owes(v, j))
      BY DEF Owes
<1> QED BY <1>1 DEF Tokens

LEMMA WorkersCover ==
  ASSUME TypeOK, TypeOK', NEW w \in Workers, WorkerStep(w) \/ WorkerFault(w),
         NEW j \in Jobs, Covered(j)
  PROVE  Covered(j)'
<1>0. /\ UNCHANGED <<intake, picks, created, clicks, requeued>>
      /\ Due(j)' = Due(j) /\ Due(j) \in Nat
      BY WorkersKeepBot, DueTypes DEF botVars, Due
<1>1. CASE Receive(w)
      BY <1>1, ReceiveCovers
<1>2. CASE ~Receive(w)
  <2>1. attempt \in [Workers -> Attempt] /\ sent \in [Jobs -> Nat]
        BY DEF TypeOK
  <2>2. PICK a : attempt' = [attempt EXCEPT ![w] = a]
        BY <1>2 DEF WorkerStep, PreflightStep, DownloadStep, CacheHit, CacheMiss,
           SendCached, RecordCached, Fetched, FetchFails, AskQuality, SelectFails,
           WarnLarge, Chain, Claim, Download, DownloadFails, Compress, Upload,
           UploadNothing, FileGone, RecordDone, Announce, RecordFailed, Cleanup,
           WorkerFault, Raises, TimesOut, WorkerCrash, Goto, Ends
  <2>3. \A v \in Workers : v # w => attempt'[v] = attempt[v]
        BY <2>1, <2>2
  <2>4. CASE Chain(w)
    <3>1. PICK m \in Message : m = attempt[w].msg /\ attempt[w].pc = "route"
          BY <2>4 DEF Chain, At, TypeOK
    <3> DEFINE n == [m EXCEPT !.task = "download"]
    <3>2. n \in Message /\ n.job = m.job /\ queue' = Append(queue, n)
          BY <2>4, <3>1 DEF Chain, Chained, Message
    <3>3. attempt'[w].pc = "idle" /\ sent' = sent
          BY <2>1, <2>4 DEF Chain, Ends, Idle
    <3> HIDE DEF n
    <3>4. /\ DOMAIN queue' = DOMAIN queue \cup {Len(queue) + 1}
          /\ queue'[Len(queue) + 1] = n
          /\ \A i \in DOMAIN queue : queue'[i] = queue[i]
          BY <3>2, AppendParts
    <3>5. \A v \in Workers : Owes(v, j)' => v # w /\ Owes(v, j)
          BY <2>3, <3>3 DEF Owes, Owing
    <3>6. CASE n.job = j
      <4>1. Owes(w, j) /\ <<"attempt", w>> \in Tokens(j)
            BY <3>1, <3>2, <3>6 DEF Owes, Owing, Tokens
      <4>2. Tokens(j)' \subseteq (Tokens(j) \ {<<"attempt", w>>})
                                    \cup {<<"queue", Len(queue) + 1>>}
            BY <1>0, <3>4, <3>5 DEF Tokens
      <4>3. PICK x, y : /\ x \in Tokens(j)
                        /\ Tokens(j)' \subseteq (Tokens(j) \ {x}) \cup {y}
            BY <4>1, <4>2
      <4>4. sent'[j] = sent[j] /\ Due(j)' >= Due(j)
            BY <1>0, <3>3
      <4> QED BY <4>3, <4>4, OneReplaced
    <3>7. CASE n.job # j
      <4>1. Tokens(j)' \subseteq Tokens(j)
            BY <1>0, <3>4, <3>5, <3>7 DEF Tokens
      <4> QED BY <1>0, <3>3, <4>1, NoGain
    <3> QED BY <3>6, <3>7
  <2>5. CASE SendCached(w) \/ Upload(w)
    <3>1. PICK m \in Message : m = attempt[w].msg /\ attempt[w].pc \in Owing
          BY <2>5 DEF SendCached, Upload, At, Owing, TypeOK
    <3>2. /\ attempt'[w].pc \notin Owing /\ UNCHANGED queue
          /\ sent' = [sent EXCEPT ![m.job] = sent[m.job] + 1]
          BY <2>1, <2>5, <3>1 DEF SendCached, Upload, Goto, Attempt, Owing
    <3>3. Tokens(j)' \subseteq Tokens(j) \ {<<"attempt", w>>}
          BY <1>0, <2>3, <3>2, SlotTokens DEF Owes
    <3>4. CASE m.job = j
      <4>1. <<"attempt", w>> \in Tokens(j)
            BY <3>1, <3>4 DEF Owes, Tokens
      <4>2. sent'[j] = sent[j] + 1
            BY <2>1, <3>2, <3>4
      <4> QED BY <1>0, <3>3, <4>1, <4>2, OneSpent
    <3>5. CASE m.job # j
      <4>1. sent'[j] = sent[j]
            BY <2>1, <3>2, <3>5
      <4> QED BY <1>0, <3>3, <4>1, NoGain
    <3> QED BY <3>4, <3>5
  <2>6. CASE ~Chain(w) /\ ~SendCached(w) /\ ~Upload(w)
    <3>1. UNCHANGED <<queue, sent>>
          BY <1>2, <2>6 DEF WorkerStep, PreflightStep, DownloadStep, CacheHit, CacheMiss,
             RecordCached, Fetched, FetchFails, AskQuality, SelectFails,
             WarnLarge, Claim, Download, DownloadFails, Compress,
             UploadNothing, FileGone, RecordDone, Announce, RecordFailed, Cleanup,
             WorkerFault, Raises, TimesOut, WorkerCrash
    <3>2. attempt'[w].pc \in Owing =>
            attempt[w].pc \in Owing /\ attempt'[w].msg = attempt[w].msg
      <4>1. CASE PreflightStep(w)
            BY <1>2, <2>1, <2>6, <4>1 DEF PreflightStep, CacheHit, CacheMiss,
             RecordCached, Fetched, FetchFails, AskQuality, SelectFails, WarnLarge,
             Goto, Ends, Idle, Attempt, At, Owing
      <4>2. CASE DownloadStep(w)
            BY <1>2, <2>1, <2>6, <4>2 DEF DownloadStep, Claim, Download, DownloadFails,
             Compress, UploadNothing, FileGone, RecordDone, Announce, RecordFailed,
             Cleanup, Goto, Ends, Idle, Attempt, At, Owing
      <4>3. CASE WorkerFault(w)
            BY <2>1, <4>3 DEF WorkerFault, Raises, TimesOut, WorkerCrash,
             Goto, Ends, Idle, Attempt, At, Owing
      <4> QED BY <1>2, <4>1, <4>2, <4>3 DEF WorkerStep
    <3>3. Tokens(j)' \subseteq Tokens(j)
          BY <1>0, <2>3, <3>1, <3>2, SlotTokens DEF Owes
    <3> QED BY <1>0, <3>1, <3>3, NoGain
  <2> QED BY <2>4, <2>5, <2>6
<1> QED BY <1>1, <1>2

\* The steps of the bot that hand on what has come in, or let more in.
LEMMA IntakeCovers ==
  ASSUME TypeOK, TypeOK', NEW m \in intake, Enqueue(m) \/ EnqueueFails(m),
         NEW j \in Jobs, Covered(j)
  PROVE  Covered(j)'
<1>0. /\ UNCHANGED <<picks, attempt, sent, created, clicks, requeued>>
      /\ intake' = intake \ {m} /\ m \in Message
      BY DEF Enqueue, EnqueueFails, workerVars, TypeOK
<1>1. sent'[j] = sent[j] /\ Due(j)' >= Due(j)
      BY <1>0, DueTypes DEF Due
<1>2. \A w \in Workers : Owes(w, j)' <=> Owes(w, j)
      BY <1>0 DEF Owes
<1>3. CASE Enqueue(m) /\ m.job = j
  <2>1. /\ DOMAIN queue' = DOMAIN queue \cup {Len(queue) + 1}
        /\ queue'[Len(queue) + 1] = m
        /\ \A i \in DOMAIN queue : queue'[i] = queue[i]
        BY <1>0, <1>3 DEF Enqueue, TypeOK
  <2>2. PICK x, y : x = <<"intake", m>> /\ y = <<"queue", Len(queue) + 1>>
        OBVIOUS
  <2>3. x \in Tokens(j)
        BY <1>3, <2>2 DEF Tokens
  <2>4. Tokens(j)' \subseteq (Tokens(j) \ {x}) \cup {y}
        BY <1>0, <1>2, <2>1, <2>2 DEF Tokens
  <2> QED BY <1>1, <2>3, <2>4, OneReplaced
<1>4. CASE EnqueueFails(m) \/ m.job # j
  <2>1. Tokens(j)' \subseteq Tokens(j)
    <3>1. CASE UNCHANGED queue
          BY <1>0, <1>2, <3>1 DEF Tokens
    <3>2. CASE m.job # j /\ queue' = Append(queue, m)
      <4>1. /\ DOMAIN queue' = DOMAIN queue \cup {Len(queue) + 1}
            /\ queue'[Len(queue) + 1] = m
            /\ \A i \in DOMAIN queue : queue'[i] = queue[i]
            BY <1>0, <3>2 DEF TypeOK
      <4> QED BY <1>0, <1>2, <3>2, <4>1 DEF Tokens
    <3> QED BY <1>4, <3>1, <3>2 DEF Enqueue, EnqueueFails
  <2> QED BY <1>1, <2>1, NoGain
<1> QED BY <1>3, <1>4

LEMMA MenuCovers ==
  ASSUME TypeOK, TypeOK', MenuStep, NEW j \in Jobs, Covered(j)
  PROVE  Covered(j)'
<1>1. ASSUME NEW k \in Jobs, NEW q \in Qualities, Click(k, q)
      PROVE  Covered(j)'
  <2>1. /\ UNCHANGED <<intake, queue, attempt, sent, created, requeued>>
        /\ picks' = picks \cup {<<k, q>>} /\ clicks' = [clicks EXCEPT ![k] = clicks[k] + 1]
        BY <1>1 DEF Click, workerVars
  <2>2. /\ sent'[j] = sent[j] /\ clicks[j] \in Nat /\ requeued[j] \in Nat
        /\ clicks'[j] = IF k = j THEN clicks[j] + 1 ELSE clicks[j]
        BY <2>1 DEF TypeOK
  <2>3. \A w \in Workers : Owes(w, j)' <=> Owes(w, j)
        BY <2>1 DEF Owes
  <2>4. CASE k = j
    <3>1. Tokens(j)' \subseteq Tokens(j) \cup {<<"pick", <<k, q>>>>}
          BY <2>1, <2>3 DEF Tokens
    <3>2. Due(j)' >= Due(j) + 1
          BY <2>1, <2>2, <2>4 DEF Due
    <3> QED BY <2>2, <3>1, <3>2, OneGained
  <2>5. CASE k # j
    <3>1. Tokens(j)' \subseteq Tokens(j)
          BY <2>1, <2>3, <2>5 DEF Tokens
    <3>2. Due(j)' >= Due(j)
          BY <2>1, <2>2, <2>5 DEF Due
    <3> QED BY <2>2, <3>1, <3>2, NoGain
  <2> QED BY <2>4, <2>5
<1>2. ASSUME NEW k \in Jobs, NEW q \in Qualities, <<k, q>> \in picks,
             QualityPick(k, q) \/ QualityPickFails(k, q) \/ PickSwallowed(k, q)
      PROVE  Covered(j)'
  <2>1. /\ UNCHANGED <<queue, attempt, sent, created, clicks, requeued>>
        /\ picks' = picks \ {<<k, q>>}
        /\ intake' \subseteq intake \cup {Preflight(k, db[k].url, q)}
        BY <1>2 DEF QualityPick, QualityPickFails, PickSwallowed, workerVars
  <2>2. sent'[j] = sent[j] /\ Due(j)' >= Due(j)
        BY <2>1, DueTypes DEF Due
  <2>3. \A w \in Workers : Owes(w, j)' <=> Owes(w, j)
        BY <2>1 DEF Owes
  <2>4. Preflight(k, db[k].url, q).job = k /\ <<k, q>>[1] = k
        BY DEF Preflight
  <2>5. CASE k = j
    <3>1. PICK x, y, n : /\ n = Preflight(k, db[k].url, q)
                         /\ x = <<"pick", <<k, q>>>> /\ y = <<"intake", n>>
          OBVIOUS
    <3>2. x \in Tokens(j)
          BY <1>2, <2>4, <2>5, <3>1 DEF Tokens
    <3>3. Tokens(j)' \subseteq (Tokens(j) \ {x}) \cup {y}
          BY <2>1, <2>3, <3>1 DEF Tokens
    <3> QED BY <2>2, <3>2, <3>3, OneReplaced
  <2>6. CASE k # j
    <3>1. Tokens(j)' \subseteq Tokens(j)
          BY <2>1, <2>3, <2>4, <2>6 DEF Tokens
    <3> QED BY <2>2, <3>1, NoGain
  <2> QED BY <2>5, <2>6
<1>3. \A p \in Jobs \X Qualities :
        p[1] \in Jobs /\ p[2] \in Qualities /\ p = <<p[1], p[2]>>
      OBVIOUS
<1>4. picks \subseteq Jobs \X Qualities
      BY DEF TypeOK
<1> QED BY <1>1, <1>2, <1>3, <1>4 DEF MenuStep

LEMMA UserCovers ==
  ASSUME TypeOK, TypeOK', NEW u \in Users, UserStep(u), NEW j \in Jobs, Covered(j)
  PROVE  Covered(j)'
<1>0. created \in Nat /\ j \in Nat
      BY DEF TypeOK, Jobs
<1>1. CASE UNCHANGED <<created, intake, queue>>
  <2>1. UNCHANGED <<picks, attempt, sent, clicks, requeued>>
        BY DEF UserStep, Submit, RedditQueue, RedditCommit, RedditRollback, CancelRead, CancelFails,
               CancelCommit, ClearHistory, workerVars
  <2>2. Tokens(j)' = Tokens(j)
        BY <1>1, <2>1 DEF Tokens, Owes
  <2>3. Due(j)' >= Due(j)
        BY <1>1, <2>1, DueTypes DEF Due
  <2> QED BY <2>1, <2>2, <2>3, NoGain
<1>2. ASSUME NEW url \in Urls, NEW pref \in Qualities,
             Submit(u, url, pref) \/ RedditQueue(u, url, pref)
      PROVE  Covered(j)'
  <2>1. PICK n \in Jobs : n = created + 1
        BY <1>2 DEF Submit, RedditQueue, TypeOK, Jobs
  <2>2. PICK q \in Qualities :
          /\ created' = n /\ UNCHANGED <<picks, attempt, sent, clicks, requeued>>
          /\ \/ intake' = intake \cup {Preflight(n, url, q)} /\ UNCHANGED queue
             \/ queue' = Append(queue, Preflight(n, url, q)) /\ UNCHANGED intake
        BY <1>2, <2>1 DEF Submit, RedditQueue, workerVars, ConstantAssumption
  <2>0. Preflight(n, url, q) \in Message /\ Preflight(n, url, q).job = n
        BY DEF Preflight, Message
  <2>3. PICK m \in Message : m = Preflight(n, url, q) /\ m.job = n
        BY <2>0
  <2>4. \A w \in Workers : Owes(w, j)' <=> Owes(w, j)
        BY <2>2 DEF Owes
  <2>5. queue' = Append(queue, m) =>
          /\ DOMAIN queue' = DOMAIN queue \cup {Len(queue) + 1}
          /\ queue'[Len(queue) + 1] = m
          /\ \A i \in DOMAIN queue : queue'[i] = queue[i]
        BY AppendParts
  <2>6. clicks[j] \in Nat /\ requeued[j] \in Nat /\ sent'[j] = sent[j]
        BY <2>2 DEF TypeOK
  <2>7. CASE n = j
    <3>1. PICK y : Tokens(j)' \subseteq Tokens(j) \cup {y}
      <4>1. CASE UNCHANGED queue /\ intake' = intake \cup {m}
        <5>1. Tokens(j)' \subseteq Tokens(j) \cup {<<"intake", m>>}
              BY <2>2, <2>4, <4>1 DEF Tokens
        <5> QED BY <5>1
      <4>2. CASE UNCHANGED intake /\ queue' = Append(queue, m)
        <5>1. Tokens(j)' \subseteq Tokens(j) \cup {<<"queue", Len(queue) + 1>>}
              BY <2>2, <2>4, <2>5, <4>2 DEF Tokens
        <5> QED BY <5>1
      <4> QED BY <2>2, <2>3, <4>1, <4>2
    <3>2. Due(j)' >= Due(j) + 1
          BY <1>0, <2>1, <2>2, <2>6, <2>7 DEF Due
    <3> QED BY <2>6, <3>1, <3>2, OneGained
  <2>8. CASE n # j
    <3>1. Tokens(j)' \subseteq Tokens(j)
          BY <2>2, <2>3, <2>4, <2>5, <2>8 DEF Tokens
    <3>2. Due(j)' >= Due(j)
          BY <1>0, <2>1, <2>2, <2>6 DEF Due
    <3> QED BY <2>6, <3>1, <3>2, NoGain
  <2> QED BY <2>7, <2>8
<1> QED BY <1>1, <1>2 DEF UserStep, RedditCommit, RedditRollback, CancelRead, CancelFails,
           CancelCommit, ClearHistory

LEMMA SweepCovers ==
  ASSUME TypeOK, TypeOK', SweepStep, NEW j \in Jobs, Covered(j)
  PROVE  Covered(j)'
<1>0. UNCHANGED <<created, intake, picks, clicks, attempt, sent>>
      BY DEF SweepStep, RecoverBegin, RecoverCommit, RecoverLost, RecoverAbort,
             RecoverJob, workerVars
<1>1. /\ \A w \in Workers : Owes(w, j)' <=> Owes(w, j)
      /\ clicks[j] \in Nat /\ requeued[j] \in Nat /\ sent'[j] = sent[j]
      BY <1>0 DEF Owes, TypeOK
<1>2. CASE UNCHANGED <<queue, requeued>>
  <2>1. Tokens(j)' \subseteq Tokens(j)
        BY <1>0, <1>1, <1>2 DEF Tokens
  <2>2. Due(j)' >= Due(j)
        BY <1>0, <1>2, DueTypes DEF Due
  <2> QED BY <1>1, <2>1, <2>2, NoGain
<1>3. ASSUME NEW k \in Jobs, RecoverJob(k), ~UNCHANGED <<queue, requeued>>
      PROVE  Covered(j)'
  <2>1. PICK row \in Row : row = sweep.rows[k]
        BY <1>3 DEF RecoverJob, TypeOK, Sweep
  <2>0. row.url \in Urls /\ row.fmt \in Qualities
        BY DEF Row
  <2>9. Preflight(k, row.url, row.fmt) \in Message /\ Preflight(k, row.url, row.fmt).job = k
        BY <2>0 DEF Preflight, Message
  <2>2. PICK m \in Message : m = Preflight(k, row.url, row.fmt) /\ m.job = k
        BY <2>9
  <2>3. queue' = Append(queue, m) /\ requeued' = [requeued EXCEPT ![k] = requeued[k] + 1]
        BY <1>3, <2>1, <2>2 DEF RecoverJob
  <2>4. /\ DOMAIN queue' = DOMAIN queue \cup {Len(queue) + 1}
        /\ queue'[Len(queue) + 1] = m
        /\ \A i \in DOMAIN queue : queue'[i] = queue[i]
        BY <2>3, AppendParts
  <2>5. requeued'[j] = IF k = j THEN requeued[j] + 1 ELSE requeued[j]
        BY <2>3 DEF TypeOK
  <2>6. CASE k = j
    <3>1. Tokens(j)' \subseteq Tokens(j) \cup {<<"queue", Len(queue) + 1>>}
          BY <1>0, <1>1, <2>4 DEF Tokens
    <3>2. PICK y : Tokens(j)' \subseteq Tokens(j) \cup {y}
          BY <3>1
    <3>3. Due(j)' >= Due(j) + 1
          BY <1>0, <1>1, <2>5, <2>6 DEF Due
    <3> QED BY <1>1, <3>2, <3>3, OneGained
  <2>7. CASE k # j
    <3>1. Tokens(j)' \subseteq Tokens(j)
          BY <1>0, <1>1, <2>2, <2>4, <2>7 DEF Tokens
    <3>2. Due(j)' >= Due(j)
          BY <1>0, <1>1, <2>5, <2>7 DEF Due
    <3> QED BY <1>1, <3>1, <3>2, NoGain
  <2> QED BY <2>6, <2>7
<1> QED BY <1>2, <1>3 DEF SweepStep, RecoverBegin, RecoverCommit, RecoverLost, RecoverAbort

LEMMA DeliveryInvStep ==
  ASSUME TypeOK, TypeOK', DeliveryInv, [Next]_vars
  PROVE  DeliveryInv'
<1> SUFFICES ASSUME NEW j \in Jobs PROVE Covered(j)'
    BY DEF DeliveryInv
<1>0. Covered(j)
      BY DEF DeliveryInv
<1>1. CASE (\E k \in Jobs : HeartbeatAges(k)) \/ BotRestart \/ UNCHANGED vars
  <2>1. /\ UNCHANGED <<created, clicks, queue, attempt, sent, requeued>>
        /\ intake' \subseteq intake /\ picks' \subseteq picks
        BY <1>1 DEF HeartbeatAges, BotRestart, botVars, workerVars, vars
  <2>2. Tokens(j)' \subseteq Tokens(j)
        BY <2>1 DEF Tokens, Owes
  <2>3. Due(j)' >= Due(j)
        BY <2>1, DueTypes DEF Due
  <2> QED BY <1>0, <2>1, <2>2, <2>3, NoGain
<1> QED BY <1>0, <1>1, WorkersCover, UserCovers, IntakeCovers, MenuCovers, SweepCovers
        DEF Next, IntakeStep

(* Each file sent was paid for by a message from outside the workers: no    *)
(* crash, timeout, restart, duplicate attempt or sweep under live work      *)
(* makes one message deliver twice, for every number of them.               *)
THEOREM DeliveriesAreBounded == Spec => []DeliveryBounded
<1>1. Init => DeliveryInv
  <2> SUFFICES ASSUME Init, NEW j \in Jobs PROVE Covered(j)
      BY DEF DeliveryInv
  <2>1. Tokens(j) = {}
        BY DEF Init, Tokens, Owes, Owing, Idle
  <2>2. sent[j] = 0 /\ Due(j) \in Nat
        BY DEF Init, Due
  <2> QED BY <2>1, <2>2, FS_EmptySet DEF Covered
<1>2. TypeOK /\ TypeOK' /\ DeliveryInv /\ [Next]_vars => DeliveryInv'
      BY DeliveryInvStep
<1>3. ASSUME TypeOK, DeliveryInv, NEW j \in Jobs
      PROVE  sent[j] <= 1 + clicks[j] + requeued[j]
  <2>1. Cardinality(Tokens(j)) \in Nat /\ sent[j] + Cardinality(Tokens(j)) <= Due(j)
        BY <1>3, FS_CardinalityType DEF DeliveryInv, Covered
  <2>2. sent[j] \in Nat /\ clicks[j] \in Nat /\ requeued[j] \in Nat
        BY <1>3 DEF TypeOK
  <2> QED BY <2>1, <2>2 DEF Due
<1>4. TypeOK /\ DeliveryInv => DeliveryBounded
      BY <1>3 DEF DeliveryBounded
<1> QED BY <1>1, <1>2, <1>4, TypeCorrect, PTL DEF Spec
=============================================================================
