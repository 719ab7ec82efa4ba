---------------------------- MODULE JobContract ----------------------------
(***************************************************************************)
(* What database/models.py promises of a job's status, whatever the        *)
(* machinery behind it does: a job is PENDING, then RUNNING, and ends as   *)
(* DONE, FAILED or CANCELLED; an end is final, unless it is listed as one  *)
(* that may be overturned or the job's work was handed out again; only a   *)
(* job that has not ended is cancelled; and a row that was deleted or      *)
(* rolled back does not come back.  One transaction may do the same to     *)
(* several jobs.                                                           *)
(***************************************************************************)
CONSTANTS
  Job,
  Overturned   \* pairs: an end, and what may follow it after all

VARIABLES
  status,      \* of each job
  again        \* the jobs whose work was given to a further attempt

contractVars == <<status, again>>

Active == {"PENDING", "RUNNING"}
Ended  == {"DONE", "FAILED", "CANCELLED"}

Init ==
  /\ status = [j \in Job |-> "UNBORN"]
  /\ again = {}

\* The statuses job j may leave for the status To.
LeftFor(j, To) ==
  Active \cup {end \in Ended : <<end, To>> \in Overturned}
         \cup IF j \in again /\ To # "CANCELLED" THEN Ended ELSE {}

Move(S, To) ==
  /\ status' = [j \in Job |-> IF j \in S THEN To ELSE status[j]]
  /\ UNCHANGED again

Create(S)      == (\A j \in S : status[j] = "UNBORN") /\ Move(S, "PENDING")
Advance(S, To) == (\A j \in S : status[j] \in LeftFor(j, To)) /\ Move(S, To)
Start(S)       == Advance(S, "RUNNING")
End(S)         == \E how \in Ended : Advance(S, how)
Delete(S)      == (\A j \in S : status[j] # "GONE") /\ Move(S, "GONE")
HandOut(S)     == again' = again \cup S /\ UNCHANGED status

Next == \E S \in SUBSET Job :
          Create(S) \/ Start(S) \/ End(S) \/ Delete(S) \/ HandOut(S)

Spec == Init /\ [][Next]_contractVars
=============================================================================
