----------------------------- MODULE ProxyPool -----------------------------
(***************************************************************************)
(* utils/proxy.py: the table of proxies, the rotation among the ACTIVE     *)
(* ones, the two ways the outcome of a use is recorded, and the bot's      *)
(* health-check loop.  Who else uses proxies is left to the module that    *)
(* extends this one.                                                       *)
(*                                                                         *)
(* A record is made by reading the row, computing in Python and committing *)
(* the columns that changed: two steps, so that records of one proxy may   *)
(* overlap.  No code of the repository writes DISABLED or TESTING or       *)
(* deletes a proxy, so the statuses are ACTIVE and DEAD.                   *)
(***************************************************************************)
EXTENDS Naturals

CONSTANTS
  Proxies,     \* endpoints (host, port, username), unique in the table
  DeadAfter,   \* 3 in record_proxy_failure; also stands for any larger count
  RoundRobin,  \* is rotation_strategy "round_robin", or one of the others?
  MaxTrouble,  \* bound: endpoints that come up or go down, database errors,
               \* restarts and dying tasks in a behaviour
  None         \* SQL NULL, no proxy, no cookie

ASSUME PoolAssumption ==
  /\ DeadAfter \in Nat \ {0}
  /\ RoundRobin \in BOOLEAN
  /\ MaxTrouble \in Nat

ASSUME NoneIsNoProxy == None \notin Proxies

VARIABLES
  proxy,     \* the table: status and consecutive_failures
  later,     \* last_used_at: those used since each was, or at all if it never was
  up,        \* does the endpoint work?  The world's state, not the program's
  check,     \* the health check of each proxy
  raced,     \* history: proxies two of whose records overlapped
  trouble    \* for MaxTrouble

poolVars == <<proxy, later, up, check, raced, trouble>>

Statuses == {"none", "ACTIVE", "DEAD"}
Row      == [status : Statuses, fails : 0 .. DeadAfter]
Kinds    == {"success", "failure"}
Check    == [pc : {"idle", "probe", "read", "commit"}, kind : Kinds,
             seen : Row \cup {None}]

NoCheck == [pc |-> "idle", kind |-> "success", seen |-> None]

PoolTypeOK ==
  /\ proxy \in [Proxies -> Row]
  /\ later \in [Proxies -> SUBSET Proxies]
  /\ up \in [Proxies -> BOOLEAN]
  /\ check \in [Proxies -> Check]
  /\ \A p \in Proxies : check[p].pc = "commit" => check[p].seen \in Row
  /\ raced \in SUBSET Proxies
  /\ trouble \in Nat

PoolInit ==
  /\ proxy = [p \in Proxies |-> [status |-> "none", fails |-> 0]]
  /\ later = [p \in Proxies |-> {}]
  /\ up \in [Proxies -> BOOLEAN]
  /\ check = [p \in Proxies |-> NoCheck]
  /\ raced = {}
  /\ trouble = 0

Trouble == trouble < MaxTrouble /\ trouble' = trouble + 1

-----------------------------------------------------------------------------
(* Selection *)

ActiveProxies == {p \in Proxies : proxy[p].status = "ACTIVE"}

\* Mistake: the order of last_used_at reversed.
NewestActive == {p \in ActiveProxies : \A q \in ActiveProxies : q \notin later[p]}

\* Mistake: nobody looks whether there was a proxy.
OldestOrNone ==
  IF ActiveProxies = {} THEN {None}
  ELSE {p \in ActiveProxies : \A q \in ActiveProxies : p \notin later[q]}

\* _select_proxy: the ACTIVE one of the smallest last_used_at, any of those
\* never used if there are some.  The strategies that order by counters or at
\* random may return any.
Candidates ==
  {p \in ActiveProxies : RoundRobin => \A q \in ActiveProxies : p \notin later[q]}

\* get_proxy_for_url: last_used_at becomes the newest of all.
MarkUsed(p) ==
  [q \in Proxies |-> IF q = p THEN {} ELSE later[q] \cup {p}]

-----------------------------------------------------------------------------
(* Records *)

\* Mistake: a threshold one too high.
RecordedLate(row, seen, kind) ==
  IF kind = "success"
    THEN [status |-> IF seen.status = "DEAD" THEN "ACTIVE" ELSE row.status,
          fails  |-> IF seen.fails # 0 THEN 0 ELSE row.fails]
    ELSE [status |-> IF seen.fails >= DeadAfter THEN "DEAD" ELSE row.status,
          fails  |-> IF seen.fails < DeadAfter THEN seen.fails + 1 ELSE DeadAfter]

\* record_proxy_success and record_proxy_failure: the row after the commit of
\* a record that had read "seen".  A column whose value did not change is not
\* in the UPDATE.
Recorded(row, seen, kind) ==
  IF kind = "success"
    THEN [status |-> IF seen.status = "DEAD" THEN "ACTIVE" ELSE row.status,
          fails  |-> IF seen.fails # 0 THEN 0 ELSE row.fails]
    ELSE [status |-> IF seen.fails + 1 >= DeadAfter /\ seen.status # "DEAD"
                       THEN "DEAD" ELSE row.status,
          fails  |-> IF seen.fails < DeadAfter THEN seen.fails + 1 ELSE DeadAfter]

-----------------------------------------------------------------------------
(* The admin adds proxies, the world breaks and mends them *)

\* handle_proxy_add_finish: a second row for an endpoint violates
\* uq_proxy_endpoint.
AddProxy(p) ==
  /\ proxy[p].status = "none"
  /\ proxy' = [proxy EXCEPT ![p] = [status |-> "ACTIVE", fails |-> 0]]
  /\ UNCHANGED <<later, up, check, raced, trouble>>

Flip(p) ==
  /\ Trouble
  /\ up' = [up EXCEPT ![p] = ~@]
  /\ UNCHANGED <<proxy, later, check, raced>>

-----------------------------------------------------------------------------
(* The health-check loop *)

\* Mistake: look after the proxies in rotation only.
ChecksActiveOnly == {p \in Proxies : proxy[p].status = "ACTIVE"}

\* _run_health_checks: every proxy that is not DISABLED.
Checked == {p \in Proxies : proxy[p].status \in {"ACTIVE", "DEAD"}}

\* A probe gives up after 10 s and a round follows the last one after 300 s:
\* no check of the last round is left.
HealthRound ==
  /\ \A p \in Proxies : check[p] = NoCheck
  /\ Checked # {}
  /\ check' = [p \in Proxies |->
                 IF p \in Checked THEN [NoCheck EXCEPT !.pc = "probe"]
                                  ELSE NoCheck]
  /\ UNCHANGED <<proxy, later, up, raced, trouble>>

\* _health_check_single: the request through the proxy ...
Probe(p) ==
  /\ check[p].pc = "probe"
  /\ check' = [check EXCEPT
                 ![p].pc   = "read",
                 ![p].kind = IF up[p] THEN "success" ELSE "failure"]
  /\ UNCHANGED <<proxy, later, up, raced, trouble>>

\* ... and the record of its outcome, in two steps.
CheckRead(p, overlap) ==
  /\ check[p].pc = "read"
  /\ check' = [check EXCEPT ![p].pc = "commit", ![p].seen = proxy[p]]
  /\ raced' = IF overlap THEN raced \cup {p} ELSE raced
  /\ UNCHANGED <<proxy, later, up, trouble>>

CheckCommit(p) ==
  /\ check[p].pc = "commit"
  /\ proxy' = [proxy EXCEPT ![p] = Recorded(@, check[p].seen, check[p].kind)]
  /\ check' = [check EXCEPT ![p] = NoCheck]
  /\ UNCHANGED <<later, up, raced, trouble>>

\* A success whose record raises is recorded as a failure: the record is made
\* inside the try of the request.
CheckCommitFails(p) ==
  /\ check[p].pc = "commit"
  /\ Trouble
  /\ check' = [check EXCEPT
                 ![p] = IF check[p].kind = "success"
                          THEN [pc |-> "read", kind |-> "failure", seen |-> None]
                          ELSE NoCheck]
  /\ UNCHANGED <<proxy, later, up, raced>>

\* ProxyPool.stop, or the bot dies: the loop and its checks are gone until
\* start begins the next loop.
RestartPool ==
  /\ Trouble
  /\ \E p \in Proxies : check[p] # NoCheck
  /\ check' = [p \in Proxies |-> NoCheck]
  /\ UNCHANGED <<proxy, later, up, raced>>
=============================================================================
