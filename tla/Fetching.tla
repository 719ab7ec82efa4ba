------------------------------ MODULE Fetching ------------------------------
(***************************************************************************)
(* utils/ytdlp.py against the proxy pool: the calls of fetch_metadata and  *)
(* download_media that the workers' tasks have under way, each with the    *)
(* proxy and the cookie file it was given, its attempts and the record of  *)
(* its outcome.  The two functions take the same steps.                    *)
(***************************************************************************)
EXTENDS ProxyPool

CONSTANTS
  Calls   \* the calls under way at once

ASSUME NoneIsNoCookie == None \notin {"good", "expired"}

VARIABLES
  call    \* what each of them is doing

vars == <<poolVars, call>>

-----------------------------------------------------------------------------
(* What the code takes a URL for *)

\* "mobile" stands for m.youtube.com and every other subdomain; "mention" for
\* a URL of another site with youtube.com in its path or query.
Sites == {"youtube", "mobile", "mention", "tiktok"}

\* get_proxy_for_url: the network location contains the name.
ProxiedSite(s) == s \in {"youtube", "mobile"}

\* _normalize_domain and _platform_key: the network location is the name.
PlatformKey(s) ==
  IF s \in {"youtube", "tiktok"} THEN s ELSE "generic"

\* build_ydl_opts: the URL contains the name.
LooksYouTube(s) == s \in {"youtube", "mobile", "mention"}

\* get_cookie_file: a working file, one the site no longer accepts, or none.
CookieFiles(s) ==
  IF PlatformKey(s) = "generic" THEN {None} ELSE {"good", "expired", None}

\* cookiefile in the options.
CookieOption(s, cookie) == IF LooksYouTube(s) THEN cookie ELSE None

-----------------------------------------------------------------------------
(* Types *)

\* Why the last attempt failed: the cookies, or anything else (the proxy, the
\* content, the database).
Causes == {"none", "cookie", "other"}

\* cookies: "good", "expired" or None, as the attempt under way uses them.
Call == [pc     : {"idle", "mark", "cookie", "extract", "read", "commit",
                   "done", "failed"},
         site   : Sites \cup {None},
         proxy  : Proxies \cup {None},
         cookie : {"good", "expired", None},
         kind   : Kinds,
         seen   : Row \cup {None},
         cause  : Causes]

NoCall == [pc |-> "idle", site |-> None, proxy |-> None, cookie |-> None,
           kind |-> "success", seen |-> None, cause |-> "none"]

TypeOK ==
  /\ PoolTypeOK
  /\ call \in [Calls -> Call]
  /\ \A c \in Calls :
       /\ call[c].pc \in {"mark", "read", "commit"} => call[c].proxy \in Proxies
       /\ call[c].pc = "commit" => call[c].seen \in Row

Init == PoolInit /\ call = [c \in Calls |-> NoCall]

-----------------------------------------------------------------------------
(* Before the first attempt *)

\* get_proxy_for_url: the SELECT, in a session of its own.  Without an ACTIVE
\* proxy, or for another site, the connection will be direct.
Select(c, s) ==
  LET found == IF ProxiedSite(s) THEN Candidates ELSE {}
  IN  /\ call[c].pc = "idle"
      /\ \/ /\ found = {}
            /\ call' = [call EXCEPT ![c] = [NoCall EXCEPT !.pc = "cookie",
                                                          !.site = s]]
         \/ \E p \in found :
              call' = [call EXCEPT ![c] = [NoCall EXCEPT !.pc = "mark",
                                             !.site = s, !.proxy = p]]
      /\ UNCHANGED poolVars

\* get_proxy_for_url: the UPDATE of last_used_at.
Mark(c) ==
  /\ call[c].pc = "mark"
  /\ later' = MarkUsed(call[c].proxy)
  /\ call' = [call EXCEPT ![c].pc = "cookie"]
  /\ UNCHANGED <<proxy, up, check, raced, trouble>>

\* get_cookie_file and build_ydl_opts.
TakeCookie(c) ==
  /\ call[c].pc = "cookie"
  /\ \E file \in CookieFiles(call[c].site) :
       call' = [call EXCEPT ![c].pc     = "extract",
                            ![c].site   = None,
                            ![c].cookie = CookieOption(call[c].site, file)]
  /\ UNCHANGED poolVars

\* Two active rows of the platform: the query raises, outside every try.
CookieRowsRaise(c) ==
  /\ call[c].pc = "cookie"
  /\ PlatformKey(call[c].site) # "generic"
  /\ call' = [call EXCEPT ![c] = [NoCall EXCEPT !.pc = "failed",
                                                !.cause = "other"]]
  /\ UNCHANGED poolVars

-----------------------------------------------------------------------------
(* Attempts *)

\* What stands in the way of the attempt; the content may, on top of that.
Obstacles(c) ==
  (IF call[c].cookie = "expired" THEN {"cookie"} ELSE {}) \cup
  (IF call[c].proxy # None /\ ~up[call[c].proxy] THEN {"other"} ELSE {})

\* The outcome is recorded if a proxy was used.
Record(c, kind, cause) ==
  call' = [call EXCEPT
             ![c].pc    = IF call[c].proxy # None THEN "read"
                          ELSE IF kind = "success" THEN "done" ELSE "failed",
             ![c].kind  = kind,
             ![c].cookie = None,
             ![c].cause = cause]

\* extract_info returns.
ExtractOk(c) ==
  /\ call[c].pc = "extract"
  /\ Obstacles(c) = {}
  /\ Record(c, "success", "none")
  /\ UNCHANGED poolVars

\* Mistakes: try again with the same cookies; give up at once.
RetryAsBefore(c, cause) ==
  IF call[c].cookie # None THEN UNCHANGED call ELSE Record(c, "failure", cause)
GiveUp(c, cause) == Record(c, "failure", cause)

\* A DownloadError or YtDlpAuthError: try once more without cookies.
RetryWithoutCookie(c, cause) ==
  IF call[c].cookie # None
    THEN call' = [call EXCEPT ![c].cookie = None]
    ELSE Record(c, "failure", cause)

ExtractError(c) ==
  /\ call[c].pc = "extract"
  /\ \E cause \in Obstacles(c) \cup {"other"} : RetryWithoutCookie(c, cause)
  /\ UNCHANGED poolVars

\* Any other exception: no second attempt.
ExtractRaises(c) ==
  /\ call[c].pc = "extract"
  /\ Trouble
  /\ Record(c, "failure", "other")
  /\ UNCHANGED <<proxy, later, up, check, raced>>

-----------------------------------------------------------------------------
(* The record of the outcome *)

\* Another record of p has been read and not committed.
RecordOpen(p) ==
  \/ check[p].pc = "commit"
  \/ \E c \in Calls : call[c].pc = "commit" /\ call[c].proxy = p

RecordRead(c) ==
  LET p == call[c].proxy
  IN  /\ call[c].pc = "read"
      /\ call' = [call EXCEPT ![c].pc = "commit", ![c].seen = proxy[p]]
      /\ raced' = IF RecordOpen(p) THEN raced \cup {p} ELSE raced
      /\ UNCHANGED <<proxy, later, up, check, trouble>>

RecordCommit(c) ==
  LET p == call[c].proxy
  IN  /\ call[c].pc = "commit"
      /\ proxy' = [proxy EXCEPT ![p] = Recorded(@, call[c].seen, call[c].kind)]
      /\ call' = [call EXCEPT
                    ![c] = [NoCall EXCEPT
                              !.pc = IF call[c].kind = "success"
                                       THEN "done" ELSE "failed",
                              !.cause = call[c].cause]]
      /\ UNCHANGED <<later, up, check, raced, trouble>>

\* The record of a success raises inside the try of the attempt: the call
\* fails, and the proxy that worked is charged with a failure.
RecordFails(c) ==
  /\ call[c].pc = "commit"
  /\ Trouble
  /\ call' = [call EXCEPT
                ![c] = IF call[c].kind = "success"
                         THEN [@ EXCEPT !.pc = "read", !.kind = "failure",
                                        !.seen = None, !.cause = "other"]
                         ELSE [NoCall EXCEPT !.pc = "failed",
                                             !.cause = call[c].cause]]
  /\ UNCHANGED <<proxy, later, up, check, raced>>

\* The task goes on with the result, or with the exception.
Return(c) ==
  /\ call[c].pc \in {"done", "failed"}
  /\ call' = [call EXCEPT ![c] = NoCall]
  /\ UNCHANGED poolVars

\* The task is cancelled by its timeout, or its worker dies.
Die(c) ==
  /\ call[c].pc # "idle"
  /\ Trouble
  /\ call' = [call EXCEPT ![c] = NoCall]
  /\ UNCHANGED <<proxy, later, up, check, raced>>

-----------------------------------------------------------------------------
CallStep(c) ==
  \/ Mark(c) \/ TakeCookie(c) \/ CookieRowsRaise(c)
  \/ ExtractOk(c) \/ ExtractError(c)
  \/ RecordRead(c) \/ RecordCommit(c)
  \/ Return(c)

CheckStep(p) ==
  /\ Probe(p) \/ CheckRead(p, RecordOpen(p)) \/ CheckCommit(p)
  /\ UNCHANGED call

StartRound == HealthRound /\ UNCHANGED call

PoolEvent(p) ==
  /\ AddProxy(p) \/ Flip(p) \/ CheckCommitFails(p) \/ RestartPool
  /\ UNCHANGED call

Next ==
  \/ \E c \in Calls : \/ \E s \in Sites : Select(c, s)
                      \/ CallStep(c)
                      \/ ExtractRaises(c) \/ RecordFails(c) \/ Die(c)
  \/ \E p \in Proxies : CheckStep(p) \/ PoolEvent(p)
  \/ StartRound

Spec == Init /\ [][Next]_vars

\* Event loops run: a call and a check that can go on do, and the health loop
\* sleeps for a while and then starts its next round.  Nobody must ask for a
\* download, add a proxy or break one.
Fairness ==
  /\ \A c \in Calls : WF_vars(CallStep(c))
  /\ \A p \in Proxies : WF_vars(CheckStep(p))
  /\ WF_vars(StartRound)

FairSpec == Spec /\ Fairness

-----------------------------------------------------------------------------
(* Properties *)

\* The status of a proxy says what its strikes say, DEAD exactly from the
\* third on, unless two records of it ever overlapped: the read and the write
\* of record_proxy_success and record_proxy_failure are the only weak spot.
StatusAgrees ==
  \A p \in Proxies \ raced :
    proxy[p].status = "DEAD" <=> proxy[p].fails >= DeadAfter

\* No call fails because of cookies the site no longer accepts: the last
\* attempt is always made without them.
ExpiredCookieHarmless ==
  \A c \in Calls : call[c].pc = "failed" => call[c].cause # "cookie"

\* Whatever overlaps: a proxy that is in the table and works from some point on
\* is in rotation again and again, the loop brings it back from DEAD.
WorkingProxyReturns ==
  \A p \in Proxies :
    <>[](proxy[p].status # "none" /\ up[p]) => []<>(proxy[p].status = "ACTIVE")

\* Round robin starves no proxy: one that stays ACTIVE while calls keep being
\* given proxies is given to a call again and again, whatever calls die between
\* the SELECT and the UPDATE and whatever proxies join or leave the rotation.
RotationReachesAll ==
  \A p \in Proxies :
    /\ <>[](proxy[p].status = "ACTIVE")
    /\ []<>(\E c \in Calls : call[c].pc = "mark")
    => []<>(\E c \in Calls : call[c].pc = "mark" /\ call[c].proxy = p)

\* Every call comes to an end.
CallsEnd == \A c \in Calls : call[c].pc # "idle" ~> call[c].pc = "idle"
=============================================================================
