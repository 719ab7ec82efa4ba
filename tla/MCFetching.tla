----------------------------- MODULE MCFetching -----------------------------
(* Two proxies, in behaviours of three kinds: one call to any site and the   *)
(* health loop; two calls that overlap; and requests for formats, which have *)
(* no state in common with the proxies.                                      *)
EXTENDS Fetching, Formats

CONSTANTS p1, p2, c1, c2, null

VARIABLE scene  \* the kind of the behaviour

MCInit ==
  /\ Init
  /\ request = {}
  /\ scene \in {"one call", "two calls", "formats"}
  /\ up[p1] \/ ~up[p2]
  /\ scene = "formats" => up = [p \in Proxies |-> TRUE]

OneCall == Next /\ UNCHANGED <<call[c2], request>>

\* Calls to a proxied site without cookies, between two rounds of the health
\* loop: a call succeeds exactly when its proxy works, unless its task dies.
TwoCalls ==
  /\ Next
  /\ \A c \in Calls :
       /\ call'[c].site \in {None, "mobile"}
       /\ call'[c].kind = "failure" => call[c].proxy # None /\ ~up[call[c].proxy]
  /\ trouble' # trouble => \E c \in Calls : Die(c)
  /\ UNCHANGED <<up, check, request>>

MCNext ==
  /\ UNCHANGED scene
  /\ \/ scene = "one call" /\ OneCall
     \/ scene = "two calls" /\ TwoCalls
     \/ scene = "formats" /\ (Ask \/ Answer) /\ UNCHANGED vars

\* No more than the fairness of Fetching: some check goes on while any can, and
\* the second call and the health loop each have their kind.
MCFairness ==
  /\ WF_vars(CallStep(c1))
  /\ WF_vars(scene = "two calls" /\ CallStep(c2))
  /\ WF_vars(scene = "one call" /\ (StartRound \/ \E p \in Proxies : CheckStep(p)))

MCSpec == MCInit /\ [][MCNext]_<<vars, request, scene>> /\ MCFairness
=============================================================================
