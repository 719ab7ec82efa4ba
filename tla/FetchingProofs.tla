--------------------------- MODULE FetchingProofs ---------------------------
(* Fetching for any proxies, calls, threshold and strategy: the types, the  *)
(* agreement of strikes and status, the harmlessness of stale cookies, and  *)
(* the choice of formats for any lists, heights and sizes.                  *)
EXTENDS Fetching, Formats, FiniteSetTheorems, TLAPS

(* The steps, by what they touch.                                           *)
CallEvent(c) ==
  \/ \E s \in Sites : Select(c, s)
  \/ CallStep(c)
  \/ ExtractRaises(c) \/ RecordFails(c) \/ Die(c)

LEMMA NextCases ==
  ASSUME Next
  PROVE  \/ \E c \in Calls : CallEvent(c)
         \/ \E p \in Proxies : CheckStep(p) \/ PoolEvent(p)
         \/ StartRound
  BY DEF Next, CallEvent

-----------------------------------------------------------------------------
(* Types                                                                    *)

LEMMA NoCallTyped == NoCall \in Call
  BY DEF NoCall, Call, Kinds, Causes

LEMMA NoCheckTyped == NoCheck \in Check
  BY DEF NoCheck, Check, Kinds

LEMMA RecordedTyped ==
  ASSUME NEW row \in Row, NEW seen \in Row, NEW kind \in Kinds
  PROVE  Recorded(row, seen, kind) \in Row
<1>1. DeadAfter \in Nat \ {0}
      BY PoolAssumption
<1>2. 0 \in 0 .. DeadAfter
      BY <1>1
<1>3. (IF seen.fails < DeadAfter THEN seen.fails + 1 ELSE DeadAfter) \in 0 .. DeadAfter
      BY <1>1 DEF Row
<1> QED BY <1>2, <1>3 DEF Recorded, Row, Statuses

LEMMA CandidatesTyped == Candidates \subseteq Proxies
  BY DEF Candidates, ActiveProxies

(* A call that is typed before a step of its own is typed after it.         *)
LEMMA CallTyped ==
  ASSUME TypeOK, NEW c \in Calls, NEW new \in Call,
         call' = [call EXCEPT ![c] = new],
         new.pc \in {"mark", "read", "commit"} => new.proxy \in Proxies,
         new.pc = "commit" => new.seen \in Row
  PROVE  /\ call' \in [Calls -> Call]
         /\ \A d \in Calls :
              /\ call'[d].pc \in {"mark", "read", "commit"} => call'[d].proxy \in Proxies
              /\ call'[d].pc = "commit" => call'[d].seen \in Row
  BY DEF TypeOK

LEMMA InitTyped == Init => TypeOK
<1> SUFFICES ASSUME Init PROVE TypeOK
    OBVIOUS
<1>1. DeadAfter \in Nat
      BY PoolAssumption
<1>2. [status |-> "none", fails |-> 0] \in Row
      BY <1>1 DEF Row, Statuses
<1>3. PoolTypeOK
  <2>1. proxy \in [Proxies -> Row]
        BY <1>2 DEF Init, PoolInit
  <2>2. check \in [Proxies -> Check] /\ \A p \in Proxies : check[p].pc # "commit"
        BY NoCheckTyped DEF Init, PoolInit, NoCheck
  <2> QED BY <2>1, <2>2 DEF Init, PoolInit, PoolTypeOK
<1>4. /\ call \in [Calls -> Call]
      /\ \A c \in Calls : call[c].pc = "idle"
      BY NoCallTyped DEF Init, NoCall
<1> QED BY <1>3, <1>4 DEF TypeOK

LEMMA CallKeepsTypes ==
  ASSUME TypeOK, NEW c \in Calls, CallEvent(c)
  PROVE  TypeOK'
<1> DEFINE old == call[c]
<1>0. /\ old \in Call /\ call = [call EXCEPT ![c] = old]
      /\ PoolTypeOK
      BY DEF TypeOK
<1>1. ASSUME NEW s \in Sites, Select(c, s)
      PROVE  TypeOK'
  <2>1. PICK new \in Call :
          /\ call' = [call EXCEPT ![c] = new]
          /\ new.pc # "commit"
          /\ new.pc \in {"mark", "read"} => new.proxy \in Proxies
    <3> DEFINE direct == [NoCall EXCEPT !.pc = "cookie", !.site = s]
               through(p) == [NoCall EXCEPT !.pc = "mark", !.site = s, !.proxy = p]
    <3>1. direct \in Call /\ direct.pc = "cookie"
          BY DEF NoCall, Call, Kinds, Causes
    <3>2. \A p \in Proxies : /\ through(p) \in Call
                             /\ through(p).pc = "mark" /\ through(p).proxy = p
          BY DEF NoCall, Call, Kinds, Causes
    <3>3. CASE call' = [call EXCEPT ![c] = direct]
          BY <3>1, <3>3
    <3>4. CASE \E p \in Candidates : call' = [call EXCEPT ![c] = through(p)]
      <4>1. PICK p \in Proxies : call' = [call EXCEPT ![c] = through(p)]
            BY <3>4, CandidatesTyped
      <4>2. through(p) \in Call /\ through(p).pc = "mark" /\ through(p).proxy = p
            BY <3>2
      <4> QED BY <4>1, <4>2
    <3> QED BY <1>1, <3>3, <3>4 DEF Select
  <2>2. PoolTypeOK'
        BY <1>0, <1>1 DEF Select, poolVars, PoolTypeOK
  <2> QED BY <2>1, <2>2, CallTyped DEF TypeOK
<1>2. ASSUME Mark(c) PROVE TypeOK'
  <2>1. old.proxy \in Proxies
        BY <1>2 DEF Mark, TypeOK
  <2>2. later' \in [Proxies -> SUBSET Proxies]
        BY <1>0, <1>2, <2>1 DEF Mark, MarkUsed, PoolTypeOK
  <2>3. PoolTypeOK'
        BY <1>0, <1>2, <2>2 DEF Mark, PoolTypeOK
  <2>4. /\ [old EXCEPT !.pc = "cookie"] \in Call
        /\ call' = [call EXCEPT ![c] = [old EXCEPT !.pc = "cookie"]]
        /\ [old EXCEPT !.pc = "cookie"].pc = "cookie"
        BY <1>0, <1>2 DEF Mark, Call
  <2> QED BY <2>3, <2>4, CallTyped DEF TypeOK
<1>3. ASSUME TakeCookie(c) PROVE TypeOK'
  <2>1. PICK file \in CookieFiles(old.site) :
          call' = [call EXCEPT ![c] = [old EXCEPT !.pc = "extract", !.site = None,
                                         !.cookie = CookieOption(old.site, file)]]
        BY <1>3 DEF TakeCookie
  <2>2. CookieOption(old.site, file) \in {"good", "expired", None}
        BY DEF CookieFiles, CookieOption
  <2>3. PoolTypeOK'
        BY <1>0, <1>3 DEF TakeCookie, poolVars, PoolTypeOK
  <2> DEFINE new == [old EXCEPT !.pc = "extract", !.site = None,
                                !.cookie = CookieOption(old.site, file)]
  <2>4. new \in Call /\ new.pc = "extract"
        BY <1>0, <2>2 DEF Call
  <2> QED BY <2>1, <2>3, <2>4, CallTyped DEF TypeOK
<1>4. ASSUME NEW kind \in Kinds, NEW cause \in Causes, Record(c, kind, cause), PoolTypeOK'
      PROVE  TypeOK'
  <2> DEFINE new == [old EXCEPT
                       !.pc = IF old.proxy # None THEN "read"
                              ELSE IF kind = "success" THEN "done" ELSE "failed",
                       !.kind = kind, !.cookie = None, !.cause = cause]
  <2>1. call' = [call EXCEPT ![c] = new]
        BY <1>4 DEF Record
  <2>2. /\ new \in Call /\ new.pc # "commit" /\ new.pc # "mark"
        /\ new.pc = "read" => old.proxy # None
        /\ new.proxy = old.proxy
        BY <1>0 DEF Call
  <2>3. old.proxy # None => old.proxy \in Proxies
        BY <1>0 DEF Call
  <2> QED BY <1>4, <2>1, <2>2, <2>3, CallTyped DEF TypeOK
<1>5. CASE ExtractOk(c)
      BY <1>0, <1>4, <1>5 DEF ExtractOk, poolVars, PoolTypeOK, Kinds, Causes
<1>6. CASE ExtractError(c)
  <2>1. PICK cause \in Obstacles(c) \cup {"other"} : RetryWithoutCookie(c, cause)
        BY <1>6 DEF ExtractError
  <2>2. cause \in Causes
        BY DEF Obstacles, Causes
  <2>3. PoolTypeOK'
        BY <1>0, <1>6 DEF ExtractError, poolVars, PoolTypeOK
  <2>4. CASE call' = [call EXCEPT ![c].cookie = None]
    <3>1. /\ [old EXCEPT !.cookie = None] \in Call
          /\ call' = [call EXCEPT ![c] = [old EXCEPT !.cookie = None]]
          /\ [old EXCEPT !.cookie = None].pc = "extract"
          BY <1>0, <1>6, <2>4 DEF Call, ExtractError
    <3> QED BY <2>3, <3>1, CallTyped DEF TypeOK
  <2>5. "failure" \in Kinds
        BY DEF Kinds
  <2> QED BY <1>4, <2>1, <2>2, <2>3, <2>4, <2>5 DEF RetryWithoutCookie
<1>7. CASE ExtractRaises(c)
      BY <1>0, <1>4, <1>7 DEF ExtractRaises, PoolTypeOK, Kinds, Causes, Trouble
<1>8. ASSUME RecordRead(c) PROVE TypeOK'
  <2> DEFINE new == [old EXCEPT !.pc = "commit", !.seen = proxy[old.proxy]]
  <2>1. old.proxy \in Proxies
        BY <1>8 DEF RecordRead, TypeOK
  <2>2. proxy[old.proxy] \in Row
        BY <1>0, <2>1 DEF PoolTypeOK
  <2>3. call' = [call EXCEPT ![c] = new]
        BY <1>8 DEF RecordRead
  <2>4. new \in Call /\ new.proxy = old.proxy /\ new.seen \in Row
        BY <1>0, <2>2 DEF Call
  <2>5. raced' \in SUBSET Proxies
        BY <1>0, <1>8, <2>1 DEF RecordRead, PoolTypeOK
  <2>6. PoolTypeOK'
        BY <1>0, <1>8, <2>5 DEF RecordRead, PoolTypeOK
  <2> QED BY <2>1, <2>3, <2>4, <2>6, CallTyped DEF TypeOK
<1>9. ASSUME RecordCommit(c) PROVE TypeOK'
  <2> DEFINE p == old.proxy
             new == [NoCall EXCEPT !.pc = IF old.kind = "success" THEN "done" ELSE "failed",
                                   !.cause = old.cause]
  <2>1. p \in Proxies /\ old.seen \in Row /\ old.kind \in Kinds /\ old.cause \in Causes
        BY <1>0, <1>9 DEF RecordCommit, TypeOK, Call
  <2>2. proxy[p] \in Row
        BY <1>0, <2>1 DEF PoolTypeOK
  <2>3. Recorded(proxy[p], old.seen, old.kind) \in Row
        BY <2>1, <2>2, RecordedTyped
  <2>4. proxy' = [proxy EXCEPT ![p] = Recorded(proxy[p], old.seen, old.kind)]
        BY <1>9 DEF RecordCommit
  <2>5. proxy' \in [Proxies -> Row]
        BY <1>0, <2>3, <2>4 DEF PoolTypeOK
  <2>6. PoolTypeOK'
        BY <1>0, <1>9, <2>5 DEF RecordCommit, PoolTypeOK
  <2>7. call' = [call EXCEPT ![c] = new]
        BY <1>9 DEF RecordCommit
  <2>8. new \in Call /\ new.pc \in {"done", "failed"}
        BY <2>1 DEF NoCall, Call, Kinds
  <2> QED BY <2>6, <2>7, <2>8, CallTyped DEF TypeOK
<1>10. ASSUME RecordFails(c) PROVE TypeOK'
  <2> DEFINE again == [old EXCEPT !.pc = "read", !.kind = "failure",
                                  !.seen = None, !.cause = "other"]
             end   == [NoCall EXCEPT !.pc = "failed", !.cause = old.cause]
  <2>1. old.proxy \in Proxies
        BY <1>10 DEF RecordFails, TypeOK
  <2>2. again \in Call /\ again.pc = "read" /\ again.proxy = old.proxy
        BY <1>0 DEF Call, Kinds, Causes
  <2>3. end \in Call /\ end.pc = "failed"
        BY <1>0 DEF NoCall, Call, Kinds
  <2>4. \/ call' = [call EXCEPT ![c] = again]
        \/ call' = [call EXCEPT ![c] = end]
        BY <1>10 DEF RecordFails
  <2>5. PoolTypeOK'
        BY <1>0, <1>10 DEF RecordFails, PoolTypeOK, Trouble
  <2> QED BY <2>1, <2>2, <2>3, <2>4, <2>5, CallTyped DEF TypeOK
<1>11. CASE CookieRowsRaise(c)
  <2> DEFINE new == [NoCall EXCEPT !.pc = "failed", !.cause = "other"]
  <2>1. new \in Call /\ new.pc = "failed"
        BY DEF NoCall, Call, Kinds, Causes
  <2>2. call' = [call EXCEPT ![c] = new] /\ PoolTypeOK'
        BY <1>0, <1>11 DEF CookieRowsRaise, poolVars, PoolTypeOK
  <2> QED BY <2>1, <2>2, CallTyped DEF TypeOK
<1>12. CASE Return(c) \/ Die(c)
  <2>1. call' = [call EXCEPT ![c] = NoCall] /\ PoolTypeOK'
        BY <1>0, <1>12 DEF Return, Die, poolVars, PoolTypeOK, Trouble
  <2> QED BY <2>1, NoCallTyped, CallTyped DEF TypeOK, NoCall
<1> QED BY <1>1, <1>2, <1>3, <1>5, <1>6, <1>7, <1>8, <1>9, <1>10, <1>11, <1>12
        DEF CallEvent, CallStep

LEMMA PoolKeepsTypes ==
  ASSUME TypeOK, NEW p \in Proxies, CheckStep(p) \/ PoolEvent(p)
  PROVE  TypeOK'
<1>0. PoolTypeOK /\ UNCHANGED call
      BY DEF TypeOK, CheckStep, PoolEvent
<1>1. SUFFICES PoolTypeOK'
      BY <1>0 DEF TypeOK
<1>2. check[p] \in Check /\ proxy[p] \in Row
      BY <1>0 DEF PoolTypeOK
<1>3. ASSUME NEW new \in Check, check' = [check EXCEPT ![p] = new],
             new.pc = "commit" => new.seen \in Row
      PROVE  /\ check' \in [Proxies -> Check]
             /\ \A q \in Proxies : check'[q].pc = "commit" => check'[q].seen \in Row
      BY <1>0, <1>3 DEF PoolTypeOK
<1>4. CASE Probe(p)
  <2> DEFINE new == [check[p] EXCEPT !.pc = "read",
                                     !.kind = IF up[p] THEN "success" ELSE "failure"]
  <2>1. new \in Check /\ new.pc = "read" /\ check' = [check EXCEPT ![p] = new]
        BY <1>2, <1>4 DEF Probe, Check, Kinds
  <2> QED BY <1>0, <1>3, <1>4, <2>1 DEF Probe, PoolTypeOK
<1>5. CASE CheckRead(p, RecordOpen(p))
  <2> DEFINE new == [check[p] EXCEPT !.pc = "commit", !.seen = proxy[p]]
  <2>1. new \in Check /\ new.seen \in Row /\ check' = [check EXCEPT ![p] = new]
        BY <1>2, <1>5 DEF CheckRead, Check
  <2> QED BY <1>0, <1>3, <1>5, <2>1 DEF CheckRead, PoolTypeOK
<1>6. CASE CheckCommit(p)
  <2>1. check[p].seen \in Row /\ check[p].kind \in Kinds
        BY <1>0, <1>2, <1>6 DEF CheckCommit, PoolTypeOK, Check
  <2>2. Recorded(proxy[p], check[p].seen, check[p].kind) \in Row
        BY <1>2, <2>1, RecordedTyped
  <2>3. proxy' \in [Proxies -> Row]
        BY <1>0, <1>6, <2>2 DEF CheckCommit, PoolTypeOK
  <2>4. check' = [check EXCEPT ![p] = NoCheck] /\ NoCheck.pc = "idle"
        BY <1>6 DEF CheckCommit, NoCheck
  <2> QED BY <1>0, <1>3, <1>6, <2>3, <2>4, NoCheckTyped DEF CheckCommit, PoolTypeOK
<1>7. CASE CheckCommitFails(p)
  <2>1. /\ [pc |-> "read", kind |-> "failure", seen |-> None] \in Check
        /\ NoCheck.pc = "idle"
        BY DEF Check, Kinds, NoCheck
  <2> QED BY <1>0, <1>3, <1>7, <2>1, NoCheckTyped
          DEF CheckCommitFails, PoolTypeOK, Trouble
<1>8. CASE RestartPool
      BY <1>0, <1>8, NoCheckTyped DEF RestartPool, PoolTypeOK, Trouble, NoCheck
<1>9. CASE AddProxy(p)
  <2>1. [status |-> "ACTIVE", fails |-> 0] \in Row
        BY PoolAssumption DEF Row, Statuses
  <2> QED BY <1>0, <1>9, <2>1 DEF AddProxy, PoolTypeOK
<1>10. CASE Flip(p)
      BY <1>0, <1>10 DEF Flip, PoolTypeOK, Trouble
<1> QED BY <1>4, <1>5, <1>6, <1>7, <1>8, <1>9, <1>10 DEF CheckStep, PoolEvent

LEMMA RoundKeepsTypes ==
  ASSUME TypeOK, StartRound
  PROVE  TypeOK'
<1>1. [NoCheck EXCEPT !.pc = "probe"] \in Check
      BY DEF NoCheck, Check, Kinds
<1>2. /\ check' \in [Proxies -> Check]
      /\ \A p \in Proxies : check'[p].pc # "commit"
      BY <1>1, NoCheckTyped DEF StartRound, HealthRound, NoCheck
<1> QED BY <1>2 DEF TypeOK, PoolTypeOK, StartRound, HealthRound

LEMMA StepKeepsTypes == TypeOK /\ [Next]_vars => TypeOK'
<1>1. CASE UNCHANGED vars
      BY <1>1 DEF vars, poolVars, TypeOK, PoolTypeOK, RecordOpen
<1> QED BY <1>1, NextCases, CallKeepsTypes, PoolKeepsTypes, RoundKeepsTypes

(* The proxies, the calls and the health checks stay of their types,        *)
(* whatever fails, dies and overlaps (utils/proxy.py, utils/ytdlp.py).      *)
THEOREM TypesHold == Spec => []TypeOK
<1> QED BY InitTyped, StepKeepsTypes, PTL DEF Spec

-----------------------------------------------------------------------------
(* Stale cookies                                                            *)

(* No record blames the cookies: an outcome is recorded only for an attempt *)
(* without any.                                                             *)
NoneBlamed == \A c \in Calls : call[c].cause # "cookie"

LEMMA CallBlamesNone ==
  ASSUME TypeOK, NoneBlamed, NEW c \in Calls, CallEvent(c)
  PROVE  NoneBlamed'
<1>0. call \in [Calls -> Call] /\ NoCall.cause = "none"
      BY DEF TypeOK, NoCall
<1>1. CASE \E s \in Sites : Select(c, s)
  <2>1. /\ call'[c].cause = "none"
        /\ \A d \in Calls \ {c} : call'[d] = call[d]
        BY <1>0, <1>1 DEF Select, NoCall
  <2> QED BY <2>1 DEF NoneBlamed
<1>2. CASE Mark(c) \/ TakeCookie(c)
  <2>1. /\ call'[c].cause = call[c].cause
        /\ \A d \in Calls \ {c} : call'[d] = call[d]
        BY <1>0, <1>2 DEF Mark, TakeCookie, Call
  <2> QED BY <2>1 DEF NoneBlamed
<1>3. ASSUME NEW kind, NEW cause, cause # "cookie", Record(c, kind, cause)
      PROVE  NoneBlamed'
      BY <1>0, <1>3 DEF Record, NoneBlamed, Call
<1>4. CASE ExtractOk(c) \/ ExtractRaises(c)
      BY <1>3, <1>4 DEF ExtractOk, ExtractRaises
<1>5. CASE ExtractError(c)
  <2>1. PICK cause \in Obstacles(c) \cup {"other"} : RetryWithoutCookie(c, cause)
        BY <1>5 DEF ExtractError
  <2>2. CASE call[c].cookie # None
        BY <1>0, <2>1, <2>2 DEF RetryWithoutCookie, NoneBlamed, Call
  <2>3. CASE call[c].cookie = None
    <3>1. cause # "cookie"
          BY <2>1, <2>3, NoneIsNoCookie DEF Obstacles
    <3> QED BY <1>3, <2>1, <2>3, <3>1 DEF RetryWithoutCookie
  <2> QED BY <2>2, <2>3
<1>6. CASE RecordRead(c)
  <2>1. /\ call'[c].cause = call[c].cause
        /\ \A d \in Calls \ {c} : call'[d] = call[d]
        BY <1>0, <1>6 DEF RecordRead, Call
  <2> QED BY <2>1 DEF NoneBlamed
<1>9. CASE RecordFails(c)
  <2>1. /\ call'[c].cause \in {"other", call[c].cause}
        /\ \A d \in Calls \ {c} : call'[d] = call[d]
        BY <1>0, <1>9 DEF RecordFails, Call, NoCall
  <2> QED BY <2>1 DEF NoneBlamed
<1>7. CASE RecordCommit(c)
  <2>1. /\ call'[c].cause = call[c].cause
        /\ \A d \in Calls \ {c} : call'[d] = call[d]
        BY <1>0, <1>7 DEF RecordCommit, NoCall
  <2> QED BY <2>1 DEF NoneBlamed
<1>10. CASE CookieRowsRaise(c)
  <2>1. /\ call'[c].cause = "other"
        /\ \A d \in Calls \ {c} : call'[d] = call[d]
        BY <1>0, <1>10 DEF CookieRowsRaise, NoCall
  <2> QED BY <2>1 DEF NoneBlamed
<1>8. CASE Return(c) \/ Die(c)
  <2>1. call' = [call EXCEPT ![c] = NoCall]
        BY <1>8 DEF Return, Die
  <2> QED BY <1>0, <2>1 DEF NoneBlamed
<1> QED BY <1>1, <1>2, <1>4, <1>5, <1>6, <1>7, <1>8, <1>9, <1>10
        DEF CallEvent, CallStep

LEMMA StepBlamesNone == TypeOK /\ NoneBlamed /\ [Next]_vars => NoneBlamed'
<1>1. CASE UNCHANGED call
      BY <1>1 DEF NoneBlamed
<1>2. CASE UNCHANGED vars
      BY <1>1, <1>2 DEF vars
<1> QED BY <1>1, <1>2, NextCases, CallBlamesNone DEF CheckStep, PoolEvent, StartRound

(* No call fails because of cookies the site no longer accepts: fetch_metadata *)
(* and download_media make their last attempt without cookies.              *)
THEOREM StaleCookiesHarmless == Spec => []ExpiredCookieHarmless
<1>1. Init => NoneBlamed
      BY DEF Init, NoneBlamed, NoCall
<1>2. NoneBlamed => ExpiredCookieHarmless
      BY DEF NoneBlamed, ExpiredCookieHarmless
<1> QED BY <1>1, <1>2, TypesHold, StepBlamesNone, PTL DEF Spec

-----------------------------------------------------------------------------
(* Strikes and status                                                       *)

CallOpen(c, p)  == call[c].pc = "commit" /\ call[c].proxy = p
CheckOpen(p)    == check[p].pc = "commit"
Consistent(row) == row.status = "DEAD" <=> row.fails >= DeadAfter

(* The records of p that were read have read what p still is, and are one at *)
(* most.                                                                    *)
Alone(p) ==
  /\ CheckOpen(p) => check[p].seen = proxy[p] /\ \A c \in Calls : ~CallOpen(c, p)
  /\ \A c \in Calls : CallOpen(c, p) =>
       call[c].seen = proxy[p] /\ \A d \in Calls : CallOpen(d, p) => d = c

Sound(p) == p \notin raced => Consistent(proxy[p]) /\ Alone(p)

(* Only proxies of the table are used and checked.                          *)
InTable ==
  /\ \A p \in Proxies : check[p].pc # "idle" => proxy[p].status # "none"
  /\ \A c \in Calls, p \in Proxies :
       call[c].proxy = p => proxy[p].status # "none"

StrikesInv == TypeOK /\ InTable /\ \A p \in Proxies : Sound(p)

(* A record that read the row as it is leaves strikes and status in         *)
(* agreement.                                                               *)
LEMMA RecordedConsistent ==
  ASSUME NEW row \in Row, NEW kind \in Kinds, Consistent(row)
  PROVE  Consistent(Recorded(row, row, kind))
<1>1. DeadAfter \in Nat \ {0} /\ row.fails \in 0 .. DeadAfter
      BY PoolAssumption DEF Row
<1>2. CASE kind = "success"
      BY <1>1, <1>2 DEF Recorded, Consistent
<1>3. CASE kind = "failure"
      BY <1>1, <1>3 DEF Recorded, Consistent
<1> QED BY <1>2, <1>3 DEF Kinds

(* A row of the table stays in the table.                                   *)
LEMMA RecordedInTable ==
  ASSUME NEW row \in Row, NEW seen \in Row, NEW kind, row.status # "none"
  PROVE  Recorded(row, seen, kind).status # "none"
  BY DEF Recorded, Row

LEMMA InTableKept ==
  ASSUME TypeOK, InTable, [Next]_vars
  PROVE  InTable'
<1> DEFINE Listed(p) == proxy[p].status # "none"
<1>0. /\ proxy \in [Proxies -> Row] /\ check \in [Proxies -> Check]
      /\ call \in [Calls -> Call]
      /\ NoCall.proxy = None /\ NoCheck.pc = "idle" /\ None \notin Proxies
      BY NoneIsNoProxy DEF TypeOK, PoolTypeOK, NoCall, NoCheck
<1>1. \A p \in Proxies : Listed(p) => proxy'[p].status # "none"
  <2>1. CASE UNCHANGED proxy
        BY <2>1
  <2>2. ASSUME NEW p \in Proxies, NEW row \in Row, row.status # "none",
               proxy' = [proxy EXCEPT ![p] = row]
        PROVE  <1>1
        BY <1>0, <2>2
  <2>3. ASSUME NEW c \in Calls, RecordCommit(c)
        PROVE  <1>1
    <3>1. /\ call[c].proxy \in Proxies /\ call[c].seen \in Row /\ call[c].kind \in Kinds
          BY <2>3 DEF RecordCommit, TypeOK, Call
    <3> DEFINE row == Recorded(proxy[call[c].proxy], call[c].seen, call[c].kind)
    <3>2. Listed(call[c].proxy)
          BY <2>3, <3>1 DEF InTable
    <3>3. proxy[call[c].proxy] \in Row
          BY <1>0, <3>1
    <3>4. row \in Row /\ row.status # "none"
          BY <3>1, <3>2, <3>3, RecordedTyped, RecordedInTable
    <3>5. proxy' = [proxy EXCEPT ![call[c].proxy] = row]
          BY <2>3 DEF RecordCommit
    <3> QED BY <2>2, <3>1, <3>4, <3>5
  <2>4. ASSUME NEW p \in Proxies, CheckCommit(p)
        PROVE  <1>1
    <3>1. /\ check[p].seen \in Row /\ check[p].kind \in Kinds /\ proxy[p] \in Row
          BY <1>0, <2>4 DEF CheckCommit, TypeOK, PoolTypeOK, Check
    <3> DEFINE row == Recorded(proxy[p], check[p].seen, check[p].kind)
    <3>2. Listed(p)
          BY <2>4 DEF CheckCommit, InTable
    <3>3. row \in Row /\ row.status # "none"
          BY <3>1, <3>2, RecordedTyped, RecordedInTable
    <3>4. proxy' = [proxy EXCEPT ![p] = row]
          BY <2>4 DEF CheckCommit
    <3> QED BY <2>2, <3>3, <3>4
  <2>5. ASSUME NEW p \in Proxies, AddProxy(p)
        PROVE  <1>1
        BY <1>0, <2>5 DEF AddProxy
  <2>6. ASSUME NEW c \in Calls, CallEvent(c)
        PROVE  <1>1
    <3>1. RecordCommit(c) \/ UNCHANGED proxy
          BY <2>6 DEF CallEvent, CallStep, Select, Mark, TakeCookie, CookieRowsRaise,
                      ExtractOk, ExtractError, ExtractRaises, RecordRead,
                      RecordFails, Return, Die, poolVars
    <3> QED BY <2>1, <2>3, <3>1
  <2>7. ASSUME NEW p \in Proxies, CheckStep(p) \/ PoolEvent(p)
        PROVE  <1>1
    <3>1. CheckCommit(p) \/ AddProxy(p) \/ UNCHANGED proxy
          BY <2>7 DEF CheckStep, PoolEvent, Probe, CheckRead, Flip,
                      CheckCommitFails, RestartPool
    <3> QED BY <2>1, <2>4, <2>5, <3>1
  <2>8. CASE StartRound \/ UNCHANGED vars
        BY <2>1, <2>8 DEF StartRound, HealthRound, vars, poolVars
  <2> QED BY <2>6, <2>7, <2>8, NextCases
<1>2. \A p \in Proxies : check'[p].pc # "idle" => Listed(p)
  <2>1. CASE UNCHANGED check
        BY <2>1 DEF InTable
  <2>2. CASE StartRound
        BY <1>0, <2>2 DEF StartRound, HealthRound, Checked
  <2>3. ASSUME NEW p \in Proxies, CheckStep(p) \/ PoolEvent(p)
        PROVE  <1>2
    <3>1. CASE RestartPool
          BY <1>0, <3>1 DEF RestartPool
    <3>2. CASE AddProxy(p) \/ Flip(p)
          BY <2>1, <3>2 DEF AddProxy, Flip
    <3>3. CASE Probe(p) \/ CheckRead(p, RecordOpen(p)) \/ CheckCommit(p) \/ CheckCommitFails(p)
      <4>1. check[p].pc # "idle"
            BY <3>3 DEF Probe, CheckRead, CheckCommit, CheckCommitFails
      <4>2. \A q \in Proxies \ {p} : check'[q] = check[q]
            BY <1>0, <3>3 DEF Probe, CheckRead, CheckCommit, CheckCommitFails
      <4> QED BY <4>1, <4>2 DEF InTable
    <3> QED BY <2>3, <3>1, <3>2, <3>3 DEF CheckStep, PoolEvent
  <2>4. ASSUME NEW c \in Calls, CallEvent(c)
        PROVE  UNCHANGED check
        BY <2>4 DEF CallEvent, CallStep, Select, Mark, TakeCookie, CookieRowsRaise,
                    ExtractOk, ExtractError, ExtractRaises, RecordRead, RecordCommit,
                    RecordFails, Return, Die, poolVars
  <2>5. CASE UNCHANGED vars
        BY <2>1, <2>5 DEF vars, poolVars
  <2> QED BY <2>1, <2>2, <2>3, <2>4, <2>5, NextCases
<1>3. \A c \in Calls, p \in Proxies : call'[c].proxy = p => Listed(p)
  <2>1. CASE UNCHANGED call
        BY <2>1 DEF InTable
  <2>2. ASSUME NEW c \in Calls, CallEvent(c)
        PROVE  <1>3
    <3>1. \A d \in Calls \ {c} : call'[d] = call[d]
          BY <1>0, <2>2
             DEF CallEvent, CallStep, Select, Mark, TakeCookie, CookieRowsRaise,
                 ExtractOk, ExtractError, ExtractRaises, Record, RetryWithoutCookie,
                 RecordRead, RecordCommit, RecordFails, Return, Die
    <3>2. CASE \E s \in Sites : Select(c, s)
      <4> DEFINE through(s, p) == [NoCall EXCEPT !.pc = "mark", !.site = s, !.proxy = p]
      <4>0. \A s, p : through(s, p).proxy = p
            BY DEF NoCall
      <4>1. call'[c].proxy \in Candidates \cup {None}
        <5>1. CASE \E s \in Sites : call' = [call EXCEPT ![c] = [NoCall EXCEPT !.pc = "cookie",
                                                                             !.site = s]]
              BY <1>0, <5>1 DEF NoCall
        <5>2. CASE \E s \in Sites, p \in Candidates : call' = [call EXCEPT ![c] = through(s, p)]
              BY <1>0, <4>0, <5>2
        <5> QED BY <3>2, <5>1, <5>2 DEF Select
      <4> QED BY <1>0, <3>1, <4>1 DEF InTable, Candidates, ActiveProxies
    <3>3. CASE ~\E s \in Sites : Select(c, s)
      <4>1. call'[c].proxy \in {call[c].proxy, None}
        <5>1. CASE Mark(c) \/ TakeCookie(c) \/ RecordRead(c)
              BY <1>0, <5>1 DEF Mark, TakeCookie, RecordRead, Call
        <5>2. CASE CookieRowsRaise(c) \/ RecordCommit(c) \/ Return(c) \/ Die(c)
          <6> DEFINE ended(pc, cause) == [NoCall EXCEPT !.pc = pc, !.cause = cause]
          <6>1. \A pc, cause : ended(pc, cause).proxy = None
                BY DEF NoCall
          <6>2. \/ call' = [call EXCEPT ![c] = NoCall]
                \/ call' = [call EXCEPT ![c] = ended("failed", "other")]
                \/ call' = [call EXCEPT ![c] = ended(IF call[c].kind = "success" THEN "done"
                                                    ELSE "failed", call[c].cause)]
                BY <5>2 DEF CookieRowsRaise, RecordCommit, Return, Die
          <6> HIDE DEF ended
          <6> QED BY <1>0, <6>1, <6>2
        <5>3. CASE RecordFails(c)
              BY <1>0, <5>3 DEF RecordFails, NoCall, Call
        <5>4. ASSUME NEW kind, NEW cause, Record(c, kind, cause)
              PROVE  <4>1
              BY <1>0, <5>4 DEF Record, Call
        <5>5. CASE ExtractOk(c) \/ ExtractRaises(c)
              BY <5>4, <5>5 DEF ExtractOk, ExtractRaises
        <5>6. CASE ExtractError(c)
              BY <1>0, <5>4, <5>6 DEF ExtractError, RetryWithoutCookie, Call
        <5> QED BY <2>2, <3>3, <5>1, <5>2, <5>3, <5>5, <5>6 DEF CallEvent, CallStep
      <4> QED BY <1>0, <3>1, <4>1 DEF InTable
    <3> QED BY <3>2, <3>3
  <2>3. CASE UNCHANGED vars
        BY <2>1, <2>3 DEF vars
  <2> QED BY <2>1, <2>2, <2>3, NextCases DEF CheckStep, PoolEvent, StartRound
<1> QED BY <1>1, <1>2, <1>3 DEF InTable

(* A step that opens no record of p and leaves its row alone.               *)
LEMMA SoundIfLeft ==
  ASSUME NEW p \in Proxies, Sound(p), raced \subseteq raced', proxy'[p] = proxy[p],
         check'[p].pc = "commit" => check'[p] = check[p],
         \A c \in Calls : call'[c].pc = "commit" => call'[c] = call[c]
  PROVE  Sound(p)'
<1>1. SUFFICES ASSUME p \notin raced' PROVE Consistent(proxy'[p]) /\ Alone(p)'
      BY DEF Sound
<1>2. Consistent(proxy[p]) /\ Alone(p)
      BY <1>1 DEF Sound
<1>3. CheckOpen(p)' => CheckOpen(p) /\ check'[p].seen = check[p].seen
      BY DEF CheckOpen
<1>4. \A c \in Calls : CallOpen(c, p)' => CallOpen(c, p) /\ call'[c].seen = call[c].seen
      BY DEF CallOpen
<1>5. Alone(p)'
  <2>1. CheckOpen(p)' => check'[p].seen = proxy'[p] /\ \A c \in Calls : ~CallOpen(c, p)'
        BY <1>2, <1>3, <1>4 DEF Alone
  <2>2. \A c \in Calls : CallOpen(c, p)' =>
          call'[c].seen = proxy'[p] /\ \A d \in Calls : CallOpen(d, p)' => d = c
        BY <1>2, <1>4 DEF Alone
  <2> QED BY <2>1, <2>2 DEF Alone
<1> QED BY <1>2, <1>5

(* A step after which no record of p is open.                               *)
LEMMA SoundIfClosed ==
  ASSUME NEW p \in Proxies,
         p \notin raced' => Consistent(proxy'[p]),
         p \notin raced' => check'[p].pc # "commit",
         p \notin raced' => \A c \in Calls : ~CallOpen(c, p)'
  PROVE  Sound(p)'
  BY DEF Sound, Alone, CheckOpen, CallOpen

LEMMA SoundKept ==
  ASSUME StrikesInv, [Next]_vars
  PROVE  \A p \in Proxies : Sound(p)'
<1>0. /\ TypeOK /\ InTable /\ \A p \in Proxies : Sound(p)
      /\ proxy \in [Proxies -> Row] /\ check \in [Proxies -> Check]
      /\ call \in [Calls -> Call]
      /\ NoCheck.pc = "idle" /\ NoCall.pc = "idle"
      BY DEF StrikesInv, TypeOK, PoolTypeOK, NoCheck, NoCall
<1>1. ASSUME NEW c \in Calls, CallEvent(c), ~RecordRead(c), ~RecordCommit(c)
      PROVE  \A p \in Proxies : Sound(p)'
  <2>1. UNCHANGED <<proxy, check, raced>>
        BY <1>1 DEF CallEvent, CallStep, Select, Mark, TakeCookie, CookieRowsRaise,
                    ExtractOk, ExtractError, ExtractRaises, RecordFails, Return, Die,
                    poolVars
  <2>2. \A d \in Calls \ {c} : call'[d] = call[d]
        BY <1>0, <1>1
           DEF CallEvent, CallStep, Select, Mark, TakeCookie, CookieRowsRaise,
               ExtractOk, ExtractError, ExtractRaises, Record, RetryWithoutCookie,
               RecordFails, Return, Die
  <2>3. call'[c].pc # "commit"
    <3>1. CASE \E s \in Sites : Select(c, s)
      <4> DEFINE direct(s) == [NoCall EXCEPT !.pc = "cookie", !.site = s]
                 through(s, p) == [NoCall EXCEPT !.pc = "mark", !.site = s, !.proxy = p]
      <4>1. \A s, p : direct(s).pc = "cookie" /\ through(s, p).pc = "mark"
            BY DEF NoCall
      <4>2. \/ \E s \in Sites : call' = [call EXCEPT ![c] = direct(s)]
            \/ \E s \in Sites, p \in Candidates : call' = [call EXCEPT ![c] = through(s, p)]
            BY <3>1 DEF Select
      <4> HIDE DEF direct, through
      <4> QED BY <1>0, <4>1, <4>2
    <3>2. CASE Mark(c) \/ TakeCookie(c)
          BY <1>0, <3>2 DEF Mark, TakeCookie, Call
    <3>3. CASE CookieRowsRaise(c) \/ Return(c) \/ Die(c)
      <4>1. \A cause : [NoCall EXCEPT !.pc = "failed", !.cause = cause].pc = "failed"
            BY DEF NoCall
      <4> QED BY <1>0, <3>3, <4>1 DEF CookieRowsRaise, Return, Die
    <3>4. ASSUME NEW kind, NEW cause, Record(c, kind, cause)
          PROVE  call'[c].pc # "commit"
          BY <1>0, <3>4 DEF Record, Call
    <3>5. CASE ExtractOk(c) \/ ExtractRaises(c)
          BY <3>4, <3>5 DEF ExtractOk, ExtractRaises
    <3>6. CASE ExtractError(c)
      <4>1. CASE UNCHANGED proxy /\ call' = [call EXCEPT ![c].cookie = None]
            BY <1>0, <3>6, <4>1 DEF ExtractError, Call
      <4> QED BY <2>1, <3>4, <3>6, <4>1 DEF ExtractError, RetryWithoutCookie
    <3>7. CASE RecordFails(c)
      <4>1. [NoCall EXCEPT !.pc = "failed", !.cause = call[c].cause].pc = "failed"
            BY DEF NoCall
      <4>2. [call[c] EXCEPT !.pc = "read", !.kind = "failure",
                            !.seen = None, !.cause = "other"].pc = "read"
            BY <1>0 DEF Call
      <4> QED BY <1>0, <3>7, <4>1, <4>2 DEF RecordFails
    <3> QED BY <1>1, <3>1, <3>2, <3>3, <3>5, <3>6, <3>7 DEF CallEvent, CallStep
  <2> QED BY <1>0, <2>1, <2>2, <2>3, SoundIfLeft
<1>2. ASSUME NEW c \in Calls, RecordRead(c)
      PROVE  \A p \in Proxies : Sound(p)'
  <2>0. PICK p \in Proxies : call[c].proxy = p
        BY <1>0, <1>2 DEF RecordRead, TypeOK
  <2>1. /\ call'[c].pc = "commit" /\ call'[c].seen = proxy[p] /\ call'[c].proxy = p
        /\ \A d \in Calls \ {c} : call'[d] = call[d]
        /\ UNCHANGED <<proxy, check>> /\ raced \subseteq raced'
        BY <1>0, <1>2, <2>0 DEF RecordRead, Call
  <2>2. RecordOpen(p) => p \in raced'
        BY <1>2, <2>0 DEF RecordRead
  <2>3. Sound(p)'
    <3>1. CASE RecordOpen(p)
          BY <2>2, <3>1 DEF Sound
    <3>2. CASE ~RecordOpen(p)
      <4>1. \A d \in Calls : CallOpen(d, p)' => d = c
            BY <2>1, <3>2 DEF RecordOpen, CallOpen
      <4>2. check'[p].pc # "commit"
            BY <2>1, <3>2 DEF RecordOpen
      <4>3. p \notin raced' => Consistent(proxy'[p])
            BY <1>0, <2>1 DEF Sound
      <4>4. \A d \in Calls : CallOpen(d, p)' => call'[d].seen = proxy'[p]
            BY <2>1, <4>1
      <4> QED BY <4>1, <4>2, <4>3, <4>4 DEF Sound, Alone, CheckOpen
    <3> QED BY <3>1, <3>2
  <2>4. ASSUME NEW q \in Proxies \ {p}
        PROVE  Sound(q)'
    <3>1. \A d \in Calls : CallOpen(d, q)' => CallOpen(d, q) /\ call'[d].seen = call[d].seen
          BY <2>1, <2>4 DEF CallOpen
    <3>2. q \notin raced' => Consistent(proxy[q]) /\ Alone(q)
          BY <1>0, <2>1 DEF Sound
    <3>3. /\ CheckOpen(q)' <=> CheckOpen(q)
          /\ check'[q].seen = check[q].seen /\ proxy'[q] = proxy[q]
          BY <2>1 DEF CheckOpen
    <3>4. Alone(q) => Alone(q)'
      <4>1. Alone(q) /\ CheckOpen(q)' =>
              check'[q].seen = proxy'[q] /\ \A d \in Calls : ~CallOpen(d, q)'
            BY <3>1, <3>3 DEF Alone
      <4>2. Alone(q) => \A d \in Calls : CallOpen(d, q)' =>
              call'[d].seen = proxy'[q] /\ \A e \in Calls : CallOpen(e, q)' => e = d
            BY <3>1, <3>3 DEF Alone
      <4> QED BY <4>1, <4>2 DEF Alone
    <3> QED BY <3>2, <3>3, <3>4 DEF Sound
  <2> QED BY <2>3, <2>4
<1>3. ASSUME NEW c \in Calls, RecordCommit(c)
      PROVE  \A p \in Proxies : Sound(p)'
  <2>0. PICK p \in Proxies : call[c].proxy = p
        BY <1>0, <1>3 DEF RecordCommit, TypeOK
  <2> DEFINE row == Recorded(proxy[p], call[c].seen, call[c].kind)
             pc  == IF call[c].kind = "success" THEN "done" ELSE "failed"
  <2>1. /\ call[c].kind \in Kinds /\ CallOpen(c, p)
        /\ proxy' = [proxy EXCEPT ![p] = row] /\ UNCHANGED <<check, raced>>
        BY <1>0, <1>3, <2>0 DEF RecordCommit, Call, CallOpen
  <2>2. call' = [call EXCEPT ![c] = [NoCall EXCEPT !.pc = pc, !.cause = call[c].cause]]
        BY <1>3 DEF RecordCommit
  <2>3. [NoCall EXCEPT !.pc = pc, !.cause = call[c].cause].pc # "commit"
        BY DEF NoCall
  <2>4. /\ call'[c].pc # "commit"
        /\ \A d \in Calls \ {c} : call'[d] = call[d]
        BY <1>0, <2>2, <2>3
  <2>5. ASSUME p \notin raced'
        PROVE  /\ Consistent(proxy'[p]) /\ check'[p].pc # "commit"
               /\ \A d \in Calls : ~CallOpen(d, p)'
    <3>1. Consistent(proxy[p]) /\ Alone(p)
          BY <1>0, <2>1, <2>5 DEF Sound
    <3>2. call[c].seen = proxy[p] /\ proxy[p] \in Row
          BY <1>0, <2>1, <3>1 DEF Alone
    <3>3. Consistent(row)
          BY <2>1, <3>1, <3>2, RecordedConsistent
    <3>4. \A d \in Calls : ~CallOpen(d, p)'
          BY <2>1, <2>4, <3>1 DEF Alone, CallOpen
    <3>5. check'[p].pc # "commit"
          BY <2>1, <3>1 DEF Alone, CheckOpen
    <3>6. proxy'[p] = row
          BY <1>0, <2>1
    <3> QED BY <3>3, <3>4, <3>5, <3>6
  <2>6. Sound(p)'
        BY <2>1, <2>5, SoundIfClosed
  <2>7. \A q \in Proxies \ {p} : Sound(q)'
        BY <1>0, <2>1, <2>4, SoundIfLeft
  <2> QED BY <2>6, <2>7
<1>4. ASSUME NEW p \in Proxies, CheckRead(p, RecordOpen(p)), UNCHANGED call
      PROVE  \A q \in Proxies : Sound(q)'
  <2>1. /\ check'[p].pc = "commit" /\ check'[p].seen = proxy[p]
        /\ \A q \in Proxies \ {p} : check'[q] = check[q]
        /\ UNCHANGED <<proxy, call>> /\ raced \subseteq raced'
        /\ RecordOpen(p) => p \in raced'
        BY <1>0, <1>4 DEF CheckRead, Check
  <2>2. Sound(p)'
    <3>1. CASE RecordOpen(p)
          BY <2>1, <3>1 DEF Sound
    <3>2. CASE ~RecordOpen(p)
      <4>1. \A c \in Calls : ~CallOpen(c, p)'
            BY <2>1, <3>2 DEF RecordOpen, CallOpen
      <4>2. p \notin raced' => Consistent(proxy'[p])
            BY <1>0, <2>1 DEF Sound
      <4> QED BY <2>1, <4>1, <4>2 DEF Sound, Alone
    <3> QED BY <3>1, <3>2
  <2> QED BY <1>0, <2>1, <2>2, SoundIfLeft
<1>5. ASSUME NEW p \in Proxies, CheckCommit(p), UNCHANGED call
      PROVE  \A q \in Proxies : Sound(q)'
  <2> DEFINE row == Recorded(proxy[p], check[p].seen, check[p].kind)
  <2>1. /\ check[p].kind \in Kinds /\ CheckOpen(p)
        /\ proxy'[p] = row /\ \A q \in Proxies \ {p} : proxy'[q] = proxy[q]
        /\ check'[p].pc # "commit" /\ \A q \in Proxies \ {p} : check'[q] = check[q]
        /\ UNCHANGED <<call, raced>>
        BY <1>0, <1>5 DEF CheckCommit, Check, CheckOpen
  <2>2. ASSUME p \notin raced'
        PROVE  Consistent(proxy'[p]) /\ \A c \in Calls : ~CallOpen(c, p)'
    <3>1. Consistent(proxy[p]) /\ Alone(p)
          BY <1>0, <2>1, <2>2 DEF Sound
    <3>2. check[p].seen = proxy[p] /\ proxy[p] \in Row
          BY <1>0, <2>1, <3>1 DEF Alone
    <3>3. Consistent(row)
          BY <2>1, <3>1, <3>2, RecordedConsistent
    <3>4. \A c \in Calls : ~CallOpen(c, p)'
          BY <2>1, <3>1 DEF Alone, CallOpen
    <3> QED BY <2>1, <3>3, <3>4
  <2>3. Sound(p)'
        BY <2>1, <2>2, SoundIfClosed
  <2> QED BY <1>0, <2>1, <2>3, SoundIfLeft
<1>6. ASSUME NEW p \in Proxies, AddProxy(p), UNCHANGED call
      PROVE  \A q \in Proxies : Sound(q)'
  <2>1. /\ proxy'[p] = [status |-> "ACTIVE", fails |-> 0]
        /\ \A q \in Proxies \ {p} : proxy'[q] = proxy[q]
        /\ UNCHANGED <<check, call, raced>>
        BY <1>0, <1>6 DEF AddProxy
  <2>2. Consistent([status |-> "ACTIVE", fails |-> 0])
        BY PoolAssumption DEF Consistent
  <2>3. check'[p].pc # "commit" /\ \A c \in Calls : ~CallOpen(c, p)'
        BY <1>0, <1>6, <2>1 DEF AddProxy, InTable, CallOpen
  <2>4. Sound(p)'
        BY <2>1, <2>2, <2>3, SoundIfClosed
  <2> QED BY <1>0, <2>1, <2>4, SoundIfLeft
<1>7. ASSUME NEW p \in Proxies, UNCHANGED call,
             Probe(p) \/ Flip(p) \/ CheckCommitFails(p) \/ RestartPool
      PROVE  \A q \in Proxies : Sound(q)'
  <2>1. \A q \in Proxies : check'[q].pc = "commit" => check'[q] = check[q]
    <3>1. CASE Probe(p)
          BY <1>0, <3>1 DEF Probe, Check
    <3>2. CASE Flip(p) \/ CheckCommitFails(p) \/ RestartPool
          BY <1>0, <3>2 DEF Flip, CheckCommitFails, RestartPool
    <3> QED BY <1>7, <3>1, <3>2
  <2>2. UNCHANGED <<proxy, raced, call>>
        BY <1>7 DEF Probe, Flip, CheckCommitFails, RestartPool
  <2> QED BY <1>0, <2>1, <2>2, SoundIfLeft
<1>8. CASE StartRound
  <2>1. [NoCheck EXCEPT !.pc = "probe"].pc = "probe"
        BY DEF NoCheck
  <2>2. \A q \in Proxies : check'[q].pc # "commit"
        BY <1>0, <1>8, <2>1 DEF StartRound, HealthRound
  <2>3. UNCHANGED <<proxy, raced, call>>
        BY <1>8 DEF StartRound, HealthRound
  <2> QED BY <1>0, <2>2, <2>3, SoundIfLeft
<1>9. CASE UNCHANGED vars
      BY <1>0, <1>9, SoundIfLeft DEF vars, poolVars
<1>10. ASSUME NEW p \in Proxies, CheckStep(p) \/ PoolEvent(p)
       PROVE  \A q \in Proxies : Sound(q)'
       BY <1>4, <1>5, <1>6, <1>7, <1>10 DEF CheckStep, PoolEvent
<1> QED BY <1>1, <1>2, <1>3, <1>8, <1>9, <1>10, NextCases

(* A proxy is DEAD exactly from the third strike on, unless two records of  *)
(* it overlapped: record_proxy_success and record_proxy_failure read and    *)
(* write the row without a lock.                                            *)
THEOREM StrikesAndStatusAgree == Spec => []StatusAgrees
<1>1. Init => StrikesInv
  <2> SUFFICES ASSUME Init PROVE StrikesInv
      OBVIOUS
  <2>1. /\ \A p \in Proxies : /\ proxy[p] = [status |-> "none", fails |-> 0]
                              /\ check[p].pc = "idle"
        /\ \A c \in Calls : call[c].pc = "idle" /\ call[c].proxy = None
        BY DEF Init, PoolInit, NoCheck, NoCall
  <2>2. Consistent([status |-> "none", fails |-> 0])
        BY PoolAssumption DEF Consistent
  <2>3. \A p \in Proxies : Sound(p)
        BY <2>1, <2>2 DEF Sound, Alone, CheckOpen, CallOpen
  <2>4. InTable
        BY <2>1, NoneIsNoProxy DEF InTable
  <2> QED BY <2>3, <2>4, InitTyped DEF StrikesInv
<1>2. StrikesInv /\ [Next]_vars => StrikesInv'
  <2> SUFFICES ASSUME StrikesInv, [Next]_vars PROVE StrikesInv'
      OBVIOUS
  <2>1. TypeOK' /\ InTable'
        BY StepKeepsTypes, InTableKept DEF StrikesInv
  <2>2. \A p \in Proxies : Sound(p)'
        BY SoundKept
  <2> QED BY <2>1, <2>2 DEF StrikesInv
<1>3. StrikesInv => StatusAgrees
      BY DEF StrikesInv, StatusAgrees, Sound, Consistent
<1> QED BY <1>1, <1>2, <1>3, PTL DEF Spec
-----------------------------------------------------------------------------
(* Formats: a list that is not empty has a best entry of either kind.       *)
RequestInv == request \subseteq Request

LEMMA RequestInvariant == RequestSpec => []RequestInv
<1>1. request = {} => RequestInv
      BY DEF RequestInv
<1>2. RequestInv /\ [Ask \/ Answer]_request => RequestInv'
  <2>1. ASSUME NEW offer \in Offers
        PROVE  RequestsFor({offer}) \subseteq Request
        BY <2>1 DEF Request, RequestsFor
  <2> QED BY <2>1 DEF RequestInv, Ask, Answer
<1> QED BY <1>1, <1>2, PTL DEF RequestSpec

(* A strict order has a first element in every finite set: the one before   *)
(* which there are fewest.                                                  *)
LEMMA FirstOfFinite ==
  ASSUME NEW S, IsFiniteSet(S), S # {}, NEW R \in SUBSET (S \X S),
         \A a \in S : <<a, a>> \notin R,
         \A a, b, c \in S : <<a, b>> \in R /\ <<b, c>> \in R => <<a, c>> \in R
  PROVE  \E a \in S : \A b \in S : <<b, a>> \notin R
<1> DEFINE Before(a) == {b \in S : <<b, a>> \in R}
           T == {Before(a) : a \in S}
<1>1. \A a \in S : Before(a) \in SUBSET S /\ IsFiniteSet(Before(a))
      BY FS_Subset
<1>2. T \subseteq FiniteSubsetsOf(S) /\ T # {}
  <2>1. \A a \in S : Before(a) \in FiniteSubsetsOf(S)
        BY <1>1 DEF FiniteSubsetsOf
  <2> HIDE DEF Before
  <2> QED BY <2>1
<1>3. IsWellFoundedOn(StrictSubsetOrdering(S), FiniteSubsetsOf(S))
      BY FS_StrictSubsetOrderingWellFounded
<1> HIDE DEF T
<1>4. PICK x \in T : \A y \in T : <<y, x>> \notin StrictSubsetOrdering(S)
      BY <1>2, <1>3, WFMin
<1>5. PICK a \in S : x = Before(a)
      BY <1>4 DEF T
<1>6. ASSUME NEW b \in S, <<b, a>> \in R
      PROVE  FALSE
  <2>1. Before(b) \in T
        BY DEF T
  <2>2. Before(b) \subseteq x /\ b \in x /\ b \notin Before(b)
        BY <1>5, <1>6
  <2>3. <<Before(b), x>> \in StrictSubsetOrdering(S)
        BY <1>1, <1>5, <2>2 DEF StrictSubsetOrdering
  <2> QED BY <1>4, <2>1, <2>3
<1> QED BY <1>6

LEMMA OfferTypes ==
  ASSUME NEW offer \in Offers
  PROVE  /\ \E n \in Nat : offer \in [1 .. n -> Format]
         /\ IsFiniteSet(DOMAIN offer) /\ DOMAIN offer \subseteq Nat
         /\ offer = << >> <=> DOMAIN offer = {}
         /\ \A i \in DOMAIN offer :
              /\ offer[i] \in Format
              /\ offer[i].height \in Nat /\ offer[i].size \in Nat
<1>1. PICK n \in Nat : offer \in [1 .. n -> Format]
      BY FormatAssumption DEF Offers, BoundedSeq, SeqOf
<1>2. DOMAIN offer = 1 .. n /\ IsFiniteSet(1 .. n)
      BY <1>1, FS_Interval
<1>3. \A i \in DOMAIN offer : offer[i] \in Format
      BY <1>1
<1>4. \A f \in Format : f.height \in Nat /\ f.size \in Nat
      BY FormatAssumption DEF Format
<1>5. offer = << >> <=> DOMAIN offer = {}
      BY <1>1
<1> QED BY <1>1, <1>2, <1>3, <1>4, <1>5

(* sorted(...)[0] is one format.                                            *)
LEMMA LargestIsOne ==
  ASSUME NEW offer \in Offers, NEW S, S \subseteq DOMAIN offer, S # {}
  PROVE  \E i \in S : LargestOf(offer, S) = {i}
<1> DEFINE R == {p \in S \X S : \/ offer[p[1]].size > offer[p[2]].size
                                \/ offer[p[1]].size = offer[p[2]].size /\ p[1] < p[2]}
<1>1. IsFiniteSet(S) /\ S \subseteq Nat /\ \A i \in S : offer[i].size \in Nat
      BY OfferTypes, FS_Subset
<1>2. \A a, b \in S : <<a, b>> \in R <=>
         \/ offer[a].size > offer[b].size
         \/ offer[a].size = offer[b].size /\ a < b
      OBVIOUS
<1>3. R \in SUBSET (S \X S)
      OBVIOUS
<1> HIDE DEF R
<1>4. /\ \A a \in S : <<a, a>> \notin R
      /\ \A a, b, c \in S : <<a, b>> \in R /\ <<b, c>> \in R => <<a, c>> \in R
      BY <1>1, <1>2
<1>5. PICK i \in S : \A j \in S : <<j, i>> \notin R
      BY <1>1, <1>3, <1>4, FirstOfFinite
<1>6. \A j \in S : \/ offer[j].size < offer[i].size
                   \/ offer[j].size = offer[i].size /\ i <= j
  <2> SUFFICES ASSUME NEW j \in S
               PROVE  \/ offer[j].size < offer[i].size
                      \/ offer[j].size = offer[i].size /\ i <= j
      OBVIOUS
  <2>1. <<j, i>> \notin R
        BY <1>5
  <2>2. ~ \/ offer[j].size > offer[i].size
          \/ offer[j].size = offer[i].size /\ j < i
        BY <1>2, <2>1
  <2>3. /\ i \in Nat /\ j \in Nat
        /\ offer[j].size \in Nat /\ offer[i].size \in Nat
        BY <1>1
  <2> QED BY <2>2, <2>3
<1>7. i \in LargestOf(offer, S)
      BY <1>6 DEF LargestOf
<1>8. ASSUME NEW k \in LargestOf(offer, S)
      PROVE  k = i
      BY <1>1, <1>6, <1>8 DEF LargestOf
<1> QED BY <1>7, <1>8

LEMMA TallestExists ==
  ASSUME NEW offer \in Offers, NEW S, S \subseteq DOMAIN offer, S # {}
  PROVE  TallestOf(offer, S) # {}
<1> DEFINE R == {p \in S \X S : offer[p[1]].height > offer[p[2]].height}
<1>1. IsFiniteSet(S) /\ \A i \in S : offer[i].height \in Nat
      BY OfferTypes, FS_Subset
<1>2. \A a, b \in S : <<a, b>> \in R <=> offer[a].height > offer[b].height
      OBVIOUS
<1>3. R \in SUBSET (S \X S)
      OBVIOUS
<1> HIDE DEF R
<1>4. /\ \A a \in S : <<a, a>> \notin R
      /\ \A a, b, c \in S : <<a, b>> \in R /\ <<b, c>> \in R => <<a, c>> \in R
      BY <1>1, <1>2
<1>5. PICK i \in S : \A j \in S : <<j, i>> \notin R
      BY <1>1, <1>3, <1>4, FirstOfFinite
<1>6. \A j \in S : offer[j].height <= offer[i].height
  <2> SUFFICES ASSUME NEW j \in S PROVE offer[j].height <= offer[i].height
      OBVIOUS
  <2>1. <<j, i>> \notin R
        BY <1>5
  <2>2. ~(offer[j].height > offer[i].height)
        BY <1>2, <2>1
  <2>3. offer[j].height \in Nat /\ offer[i].height \in Nat
        BY <1>1
  <2> QED BY <2>2, <2>3
<1>7. i \in TallestOf(offer, S)
      BY <1>6 DEF TallestOf
<1> QED BY <1>7

(* Whatever the word, one of the formats is chosen.                         *)
LEMMA OneIsChosen ==
  ASSUME NEW offer \in Offers, NEW q \in Qualities
  PROVE  /\ offer = << >> => select_best_format(offer, q) = {}
         /\ offer # << >> => \E i \in DOMAIN offer : select_best_format(offer, q) = {i}
<1>1. q.word \in {"audio", "best", "height"}
      BY DEF Qualities, Quality
<1>2. PICK S \in SUBSET DOMAIN offer :
        /\ select_best_format(offer, q) = LargestOf(offer, S)
        /\ DOMAIN offer # {} => S # {}
  <2>1. /\ AudioOnly(offer) \subseteq DOMAIN offer
        /\ MayHaveVideo(offer) \subseteq DOMAIN offer
        /\ Fitting(offer, q.height) \subseteq DOMAIN offer
        BY DEF AudioOnly, MayHaveVideo, Fitting
  <2>2. TallestOf(offer, Fitting(offer, q.height)) \subseteq DOMAIN offer
        BY <2>1 DEF TallestOf
  <2>3. Fitting(offer, q.height) # {} => TallestOf(offer, Fitting(offer, q.height)) # {}
        BY <2>1, TallestExists
  <2>4. CASE q.word = "height" /\ Fitting(offer, q.height) # {}
        BY <2>2, <2>3, <2>4 DEF select_best_format
  <2>5. CASE q.word = "height" /\ Fitting(offer, q.height) = {}
        BY <2>5 DEF select_best_format
  <2>6. CASE q.word = "audio"
        BY <2>1, <2>6 DEF select_best_format, NamedChoice
  <2>7. CASE q.word = "best"
        BY <2>1, <2>7 DEF select_best_format, NamedChoice
  <2> QED BY <1>1, <2>4, <2>5, <2>6, <2>7
<1>3. offer = << >> <=> DOMAIN offer = {}
      BY OfferTypes
<1>4. CASE offer = << >>
      BY <1>2, <1>3, <1>4 DEF LargestOf
<1>5. CASE offer # << >>
      BY <1>2, <1>3, <1>5, LargestIsOne
<1> QED BY <1>4, <1>5

(* For any lists, heights and sizes the preflight names exactly one format  *)
(* of a list that is not empty, and the best of those that fit, if any do.  *)
THEOREM ChoiceIsBest == RequestSpec => []ChoiceIsBestFit
<1>1. ASSUME NEW offer \in Offers, NEW q \in Qualities, q.word = "height",
             Fitting(offer, q.height) # {}, NEW i \in select_best_format(offer, q)
      PROVE  /\ i \in Fitting(offer, q.height)
             /\ \A k \in Fitting(offer, q.height) :
                  ~ \/ offer[k].height > offer[i].height
                    \/ /\ offer[k].height = offer[i].height
                       /\ \/ offer[k].size > offer[i].size
                          \/ offer[k].size = offer[i].size /\ k < i
  <2> DEFINE F == Fitting(offer, q.height)
  <2>1. select_best_format(offer, q) = LargestOf(offer, TallestOf(offer, F))
        BY <1>1 DEF select_best_format
  <2>2. F \subseteq DOMAIN offer
        BY DEF Fitting, MayHaveVideo
  <2>3. \A k \in F : k \in Nat /\ offer[k].height \in Nat /\ offer[k].size \in Nat
        BY <2>2, OfferTypes
  <2> HIDE DEF F
  <2>4. /\ i \in F /\ \A k \in F : offer[k].height <= offer[i].height
        /\ \A k \in F : (\A j \in F : offer[j].height <= offer[k].height) =>
             \/ offer[k].size < offer[i].size
             \/ offer[k].size = offer[i].size /\ i <= k
        BY <1>1, <2>1 DEF LargestOf, TallestOf
  <2>5. ASSUME NEW k \in F
        PROVE  ~ \/ offer[k].height > offer[i].height
                 \/ /\ offer[k].height = offer[i].height
                    /\ \/ offer[k].size > offer[i].size
                       \/ offer[k].size = offer[i].size /\ k < i
        BY <2>3, <2>4
  <2> QED BY <2>4, <2>5 DEF F
<1>2. RequestInv => ChoiceIsBestFit
  <2> SUFFICES ASSUME RequestInv, NEW r \in request
               PROVE  LET offer == r.offer
                          choice == select_best_format(offer, r.quality)
                          fits == {k \in DOMAIN offer :
                                     /\ offer[k].vcodec # "none"
                                     /\ offer[k].height <= r.quality.height
                                     /\ offer[k].size <= MaxBytes}
                          better(a, b) == \/ offer[a].height > offer[b].height
                                          \/ /\ offer[a].height = offer[b].height
                                             /\ \/ offer[a].size > offer[b].size
                                                \/ offer[a].size = offer[b].size /\ a < b
                      IN  /\ choice = {} <=> offer = << >>
                          /\ \A i, j \in choice : i = j
                          /\ r.quality.word = "height" /\ fits # {} =>
                               choice \subseteq fits /\ \A i \in choice, k \in fits : ~better(k, i)
      BY DEF ChoiceIsBestFit
  <2>1. r.offer \in Offers /\ r.quality \in Qualities
        BY DEF RequestInv, Request, RequestsFor
  <2>2. PICK offer \in Offers, q \in Qualities : offer = r.offer /\ q = r.quality
        BY <2>1
  <2>3. Fitting(offer, q.height) = {k \in DOMAIN offer :
                                      /\ offer[k].vcodec # "none"
                                      /\ offer[k].height <= q.height
                                      /\ offer[k].size <= MaxBytes}
        BY DEF Fitting, MayHaveVideo
  <2>4. /\ select_best_format(offer, q) = {} <=> offer = << >>
        /\ \A i, j \in select_best_format(offer, q) : i = j
        BY OneIsChosen
  <2>5. q.word = "height" /\ Fitting(offer, q.height) # {} =>
          /\ select_best_format(offer, q) \subseteq Fitting(offer, q.height)
          /\ \A i \in select_best_format(offer, q), k \in Fitting(offer, q.height) :
                  ~ \/ offer[k].height > offer[i].height
                    \/ /\ offer[k].height = offer[i].height
                       /\ \/ offer[k].size > offer[i].size
                          \/ offer[k].size = offer[i].size /\ k < i
        BY <1>1
  <2> QED BY <2>2, <2>3, <2>4, <2>5
<1> QED BY <1>2, RequestInvariant, PTL

LEMMA TwoAndTwo ==
  ASSUME NEW S, NEW a \in S, NEW b \in S, NEW c \in S, NEW d \in S
  PROVE  LET s == <<a, b>> \o <<c, d>>
         IN  DOMAIN s = 1 .. 4 /\ s[1] = a /\ s[2] = b /\ s[3] = c
<1> DEFINE s == <<a, b>> \o <<c, d>>
<1>1. s \in Seq(S) /\ Len(s) = 4 /\ s[1] = a /\ s[2] = b /\ s[3] = c
      OBVIOUS
<1> HIDE DEF s
<1>2. DOMAIN s = 1 .. 4
      BY <1>1
<1> QED BY <1>1, <1>2 DEF s

LEMMA NoneAndTwo ==
  ASSUME NEW S, NEW c \in S, NEW d \in S
  PROVE  LET s == << >> \o <<c, d>> IN DOMAIN s = 1 .. 2 /\ s[1] = c
<1>1. << >> \o <<c, d>> = <<c, d>>
      OBVIOUS
<1> QED BY <1>1

(* Of the alternatives only the last has no limit, and the one before it    *)
(* asks for one file with picture and sound.                                *)
LEMMA SelectorParts ==
  ASSUME NEW h \in Nat, NEW youtube \in BOOLEAN
  PROVE  LET alts == HeightSelector(youtube, h)
         IN  \E last \in {1, 3} :
               /\ DOMAIN alts = 1 .. last + 1
               /\ alts[last] = Alternative(TRUE, FALSE, h)
               /\ \A n \in 1 .. last : alts[n].limit = h
<1>1. PICK a, b, c, d :
        /\ a = Alternative(FALSE, TRUE, h) /\ b = Alternative(TRUE, TRUE, h)
        /\ c = Alternative(TRUE, FALSE, h) /\ d = Alternative(TRUE, FALSE, NoLimit)
      OBVIOUS
<1>2. a.limit = h /\ b.limit = h /\ c.limit = h
      BY <1>1 DEF Alternative
<1>3. PICK s : s = HeightSelector(youtube, h)
      OBVIOUS
<1>4. /\ youtube => s = <<a, b>> \o <<c, d>>
      /\ ~youtube => s = << >> \o <<c, d>>
      BY <1>1, <1>3 DEF HeightSelector
<1> DEFINE Limited(last) == /\ DOMAIN s = 1 .. last + 1
                           /\ s[last] = c
                           /\ \A n \in 1 .. last : s[n].limit = h
<1> SUFFICES \E last \in {1, 3} : Limited(last)
      BY <1>1, <1>3
<1>5. CASE youtube
  <2>1. DOMAIN s = 1 .. 4 /\ s[1] = a /\ s[2] = b /\ s[3] = c
        BY <1>4, <1>5, TwoAndTwo
  <2>2. \A n \in 1 .. 3 : s[n].limit = h
        BY <1>2, <2>1
  <2>3. Limited(3)
        BY <2>1, <2>2
  <2> HIDE DEF Limited
  <2> QED BY <2>3
<1>6. CASE ~youtube
  <2>1. DOMAIN s = 1 .. 2 /\ s[1] = c
        BY <1>4, <1>6, NoneAndTwo
  <2>2. \A n \in 1 .. 1 : s[n].limit = h
        BY <1>2, <2>1
  <2>3. Limited(1)
        BY <2>1, <2>2
  <2> HIDE DEF Limited
  <2> QED BY <2>3
<1> QED BY <1>5, <1>6

(* For any lists and heights: a site that has one file with picture and     *)
(* sound within the user's height is not asked for a taller one.            *)
THEOREM DownloadsKeepToHeight == RequestSpec => []DownloadKeepsToHeight
<1>1. ASSUME NEW offer \in Offers, NEW h \in Nat, NEW youtube \in BOOLEAN,
             NEW i \in MayHaveVideo(offer),
             offer[i].audio /\ offer[i].height \in 1 .. h,
             NEW k \in Downloaded(offer, HeightSelector(youtube, h))
      PROVE  offer[k].height <= h
  <2> DEFINE plain == Alternative(TRUE, FALSE, h)
             any   == Alternative(TRUE, FALSE, NoLimit)
             alts  == HeightSelector(youtube, h)
             usable == {n \in DOMAIN alts : Satisfying(offer, alts[n]) # {}}
             first  == CHOOSE n \in usable : \A m \in usable : n <= m
  <2>0. h # NoLimit
        BY <1>1 DEF NoLimit
  <2>1. PICK last \in {1, 3} :
          /\ DOMAIN alts = 1 .. last + 1
          /\ alts[last] = plain
          /\ \A n \in 1 .. last : alts[n].limit = h
        BY SelectorParts
  <2>2. i \in Satisfying(offer, plain)
        BY <1>1 DEF Satisfying, Alternative
  <2>3. last \in usable /\ usable \subseteq 1 .. 4
    <3>1. last \in DOMAIN alts /\ DOMAIN alts \subseteq 1 .. 4
          BY <2>1
    <3>2. Satisfying(offer, alts[last]) # {}
          BY <2>1, <2>2
    <3> HIDE DEF alts
    <3> QED BY <3>1, <3>2
  <2>4. \E n \in usable : \A m \in usable : n <= m
        BY <2>3
  <2>5. first \in usable /\ first <= last
        BY <2>3, <2>4
  <2>6. alts[first].limit = h
        BY <2>1, <2>3, <2>5
  <2>7. k \in Satisfying(offer, alts[first])
        BY <1>1, <2>3 DEF Downloaded, TallestOf
  <2>8. offer[k].height \in 1 .. h
        BY <2>0, <2>6, <2>7 DEF Satisfying
  <2> QED BY <2>8
<1>2. RequestInv => DownloadKeepsToHeight
  <2> SUFFICES ASSUME RequestInv, NEW r \in request,
                      \E i \in MayHaveVideo(r.offer) :
                        r.offer[i].audio /\ r.offer[i].height \in 1 .. r.quality.height,
                      NEW k \in Downloaded(r.offer, HeightSelector(r.youtube, r.quality.height))
               PROVE  r.offer[k].height <= r.quality.height
      BY DEF DownloadKeepsToHeight
  <2>1. /\ r.offer \in Offers /\ r.youtube \in BOOLEAN /\ r.quality.height \in Nat
        BY DEF RequestInv, Request, RequestsFor, Qualities, Quality
  <2> QED BY <1>1, <2>1
<1> QED BY <1>2, RequestInvariant, PTL
=============================================================================
