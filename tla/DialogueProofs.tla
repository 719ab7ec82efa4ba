--------------------------- MODULE DialogueProofs ---------------------------
(* The dialogues of Desk, for any number of handlers and any errors.        *)
EXTENDS Desk, TLAPS

(* What a step of Desk does to the dialogues.                               *)
DialogueEffect ==
  \/ UNCHANGED dialogueVars
  \/ \E t \in Tasks, kind \in DialogueKinds : Open(t, kind)
  \/ \E t \in Tasks : DialogueStep(t) \/ Abort(t)
  \/ \E t \in Tasks : /\ Doing(t, "save") /\ (Next1(t) \/ Drop(t))
                      /\ UNCHANGED <<fsm, asked, queued, crossed, cut, errors>>
  \/ DialogueCrash

LEMMA NextDialogueEffect ==
  ASSUME [Next]_vars
  PROVE  DialogueEffect
<1> USE DeskAssumption
<1>1. CASE UNCHANGED vars
      BY <1>1 DEF vars, DialogueEffect
<1>2. ASSUME NEW h \in Handlers, HandlerStep(h)
      PROVE  DialogueEffect
  <2>1. CASE DoorOnly(h) \/ StartSave(h) \/ SaveOnly(h) \/ Finish(h)
        BY <2>1 DEF DoorOnly, StartSave, SaveOnly, Finish, DialogueEffect
  <2>2. CASE Route(h)
        BY <2>2 DEF Route, DialogueEffect
  <2>3. CASE DialogueOnly(h)
        BY <2>3 DEF DialogueOnly, DialogueEffect
  <2>4. CASE SaveEnds(h)
        BY <2>4 DEF SaveEnds, DialogueEffect
  <2> QED BY <1>2, <2>1, <2>2, <2>3, <2>4 DEF HandlerStep
<1>3. ASSUME NEW h \in Handlers,
             SaveRefused(h) \/ AbortOnly(h) \/ \E kind \in Kinds : ArriveStep(h, kind)
      PROVE  DialogueEffect
      BY <1>3 DEF SaveRefused, AbortOnly, ArriveStep, DialogueEffect
<1>4. CASE (\E ban \in BOOLEAN : RuleOnly(ban)) \/ TickOnly \/ Crash \/ Start
      BY <1>4 DEF RuleOnly, TickOnly, Crash, Start, DialogueEffect
<1> QED BY <1>1, <1>2, <1>3, <1>4 DEF Next

-----------------------------------------------------------------------------
(* What a handler may have left to do.                                      *)

Remainders ==
  {<< >>, AskSubreddit, StoreSubreddit, <<Set("count")>>, StoreCount, <<Set("sort")>>,
   SortPosts, <<Queue, Clear>>, <<Clear>>, AskProxy, AskCookies, <<Put("platform")>>,
   SaveCookies, <<Save, Clear>>, AskMessage, ConfirmMessage, <<Set("confirm")>>,
   SendMessage}

LEMMA BodyIsRemainder ==
  ASSUME NEW kind \in DialogueKinds, NEW state
  PROVE  Body(kind, state) \in Remainders
  BY DEF Body, OfMessage, DialogueKinds, Remainders, AddProxy

LEMMA Ops ==
  /\ \A s : Set(s).op = "set" /\ Set(s).arg = {s}
  /\ \A k : Put(k).op = "put" /\ Put(k).arg = {k}
  /\ \A K : Need(K).op = "need" /\ Need(K).arg = K
  /\ Clear.op = "clear" /\ Queue.op = "queue" /\ Save.op = "save"
  BY DEF Set, Put, Need, Clear, Queue, Save, Op

PostsNeeded == Need({"subreddit", "count"})

(* How each handler begins.                                                 *)
LEMMA FirstOfHandler ==
  /\ Head(AskSubreddit) = Set("subreddit") /\ Head(StoreSubreddit) = Put("subreddit")
  /\ Head(StoreCount) = Put("count") /\ Head(SortPosts) = PostsNeeded
  /\ Head(AskProxy) = Set("proxy") /\ Head(AddProxy) = Clear
  /\ Head(AskCookies) = Set("cookie") /\ Head(SaveCookies) = Need({"platform"})
  /\ Head(AskMessage) = Set("broadcast") /\ Head(ConfirmMessage) = Put("msg")
  /\ Head(SendMessage) = Need({"msg"})
  BY DEF AskSubreddit, StoreSubreddit, StoreCount, SortPosts, AskProxy, AddProxy,
         AskCookies, SaveCookies, AskMessage, ConfirmMessage, SendMessage, PostsNeeded

LEMMA OpsDiffer ==
  /\ \A s, t : Set(s) = Set(t) => s = t
  /\ \A s, t : Put(s) = Put(t) => s = t
  /\ \A s, t : Set(s) # Put(t) /\ Set(s) # Need(t) /\ Put(s) # Need(t)
  /\ \A s : /\ Set(s) # Clear /\ Set(s) # Queue /\ Set(s) # Save
            /\ Put(s) # Clear /\ Put(s) # Queue /\ Put(s) # Save
            /\ Need(s) # Clear /\ Need(s) # Queue /\ Need(s) # Save
  /\ Clear # Queue /\ Clear # Save /\ Queue # Save
  /\ \A s, t : Need(s) = Need(t) => s = t
<1>1. /\ "set" # "put" /\ "set" # "need" /\ "set" # "clear" /\ "set" # "queue"
      /\ "set" # "save" /\ "put" # "need" /\ "put" # "clear" /\ "put" # "queue"
      /\ "put" # "save" /\ "need" # "clear" /\ "need" # "queue" /\ "need" # "save"
      /\ "clear" # "queue" /\ "clear" # "save" /\ "queue" # "save"
      OBVIOUS
<1>2. \A s, t : {s} = {t} => s = t
      OBVIOUS
<1> QED BY <1>1, <1>2, Ops

LEMMA NeedsDiffer ==
  /\ Need({"platform"}) # PostsNeeded /\ Need({"msg"}) # PostsNeeded
  /\ Need({"platform"}) # Need({"msg"})
  /\ \A s : Set(s) # PostsNeeded /\ Put(s) # PostsNeeded
  /\ Clear # PostsNeeded /\ Queue # PostsNeeded /\ Save # PostsNeeded
<1>1. /\ "subreddit" \notin {"platform"} /\ "subreddit" \notin {"msg"}
      /\ "subreddit" \in {"subreddit", "count"} /\ "msg" \notin {"platform"}
      /\ "msg" \in {"msg"}
      OBVIOUS
<1>2. \A A, B : Need(A) = Need(B) => A = B
      BY OpsDiffer
<1>3. \A A, B, x : x \in A /\ x \notin B => Need(A) # Need(B)
      BY <1>2
<1> QED BY <1>1, <1>3, OpsDiffer DEF PostsNeeded

(* What comes second in a list, by what comes first.                        *)
Seconds(l) ==
  /\ Tail(l) \in Remainders
  /\ Tail(l) # << >> =>
       LET first  == Head(l)
           second == Head(Tail(l))
       IN  /\ second = Set("count") => first = Put("subreddit")
           /\ second # Put("count")
           /\ second = Set("sort") => first = Put("count")
           /\ second = Set("confirm") => first = Put("msg")
           /\ second = Queue => first = PostsNeeded
           /\ second # PostsNeeded
  /\ Head(l) \in {Queue, Save} => Tail(l) # << >> /\ Head(Tail(l)) = Clear

LEMMA SecondOfRemainder ==
  ASSUME NEW l \in Remainders, l # << >>
  PROVE  Seconds(l)
<1>1. ASSUME NEW a, <<a>> \in Remainders, a # Queue, a # Save
      PROVE  Seconds(<<a>>)
  <2>1. Tail(<<a>>) = << >> /\ Head(<<a>>) = a /\ << >> \in Remainders
        BY DEF Remainders
  <2> QED BY <1>1, <2>1 DEF Seconds
<1>2. ASSUME NEW a, NEW b, <<b>> \in Remainders,
             b = Set("count") => a = Put("subreddit"),
             b # Put("count"),
             b = Set("sort") => a = Put("count"),
             b = Set("confirm") => a = Put("msg"),
             b # Queue, b # PostsNeeded,
             a \in {Queue, Save} => b = Clear
      PROVE  Seconds(<<a, b>>)
  <2>1. /\ Tail(<<a, b>>) = <<b>> /\ Head(<<a, b>>) = a /\ Head(<<b>>) = b
        /\ <<b>> # << >>
        OBVIOUS
  <2> QED BY <1>2, <2>1 DEF Seconds
<1>3. ASSUME NEW a, NEW b, <<b, Clear>> \in Remainders,
             b = Queue => a = PostsNeeded, b \in {Queue, Save},
             a \notin {Queue, Save}
      PROVE  Seconds(<<a, b, Clear>>)
  <2>1. /\ Tail(<<a, b, Clear>>) = <<b, Clear>> /\ Head(<<a, b, Clear>>) = a
        /\ Head(<<b, Clear>>) = b /\ <<b, Clear>> # << >>
        OBVIOUS
  <2>2. /\ b # Set("count") /\ b # Put("count") /\ b # Set("sort") /\ b # Set("confirm")
        /\ b # PostsNeeded
        BY <1>3, OpsDiffer, NeedsDiffer
  <2> QED BY <1>3, <2>1, <2>2 DEF Seconds
<1>4. /\ <<Set("count")>> \in Remainders /\ <<Set("sort")>> \in Remainders
      /\ <<Clear>> \in Remainders /\ <<Put("platform")>> \in Remainders
      /\ <<Set("confirm")>> \in Remainders
      /\ <<Queue, Clear>> \in Remainders /\ <<Save, Clear>> \in Remainders
      BY DEF Remainders
<1>5. CASE l \in {AskSubreddit, AskProxy, AskMessage, <<Set("count")>>, <<Set("sort")>>,
                  <<Set("confirm")>>, <<Put("platform")>>, <<Clear>>}
      BY <1>1, <1>5, OpsDiffer DEF AskSubreddit, AskProxy, AskMessage
<1>6. CASE l = StoreSubreddit
  <2>1. \A a, b : "count" # "sort" /\ "count" # "confirm"
        OBVIOUS
  <2> QED BY <1>2, <1>4, <1>6, <2>1, OpsDiffer, NeedsDiffer DEF StoreSubreddit
<1>7. CASE l = StoreCount
  <2>1. "sort" # "count" /\ "sort" # "confirm"
        OBVIOUS
  <2> QED BY <1>2, <1>4, <1>7, <2>1, OpsDiffer, NeedsDiffer DEF StoreCount
<1>8. CASE l = ConfirmMessage
  <2>1. "confirm" # "count" /\ "confirm" # "sort"
        OBVIOUS
  <2> QED BY <1>2, <1>4, <1>8, <2>1, OpsDiffer, NeedsDiffer DEF ConfirmMessage
<1>9. CASE l = AskCookies
  <2>1. "platform" # "count"
        OBVIOUS
  <2> QED BY <1>2, <1>4, <1>9, <2>1, OpsDiffer, NeedsDiffer DEF AskCookies
<1>10. CASE l \in {SendMessage, <<Queue, Clear>>, <<Save, Clear>>}
       BY <1>2, <1>4, <1>10, OpsDiffer, NeedsDiffer DEF SendMessage
<1>11. CASE l = SortPosts
       BY <1>3, <1>4, <1>11, OpsDiffer, NeedsDiffer DEF SortPosts, PostsNeeded
<1>12. CASE l = SaveCookies
       BY <1>3, <1>4, <1>12, OpsDiffer, NeedsDiffer DEF SaveCookies
<1> QED BY <1>5, <1>6, <1>7, <1>8, <1>9, <1>10, <1>11, <1>12 DEF Remainders

(* How a handler begins, by the state of the dialogue.                      *)
LEMMA FirstOfBody ==
  ASSUME NEW kind \in DialogueKinds, NEW state, Body(kind, state) # << >>
  PROVE  LET first == Head(Body(kind, state))
         IN  /\ first # Set("count") /\ first # Set("sort") /\ first # Set("confirm")
             /\ first # Queue
             /\ first = Put("count") => state = "count"
             /\ first = PostsNeeded => state = "sort"
<1> DEFINE Good(l) ==
      LET first == Head(l)
      IN  /\ first # Set("count") /\ first # Set("sort") /\ first # Set("confirm")
          /\ first # Queue
          /\ first = Put("count") => state = "count"
          /\ first = PostsNeeded => state = "sort"
<1>1. Good(AskSubreddit) /\ Good(StoreSubreddit) /\ Good(AskProxy) /\ Good(AddProxy)
      BY FirstOfHandler, OpsDiffer DEF PostsNeeded, AddProxy
<1>2. Good(AskCookies) /\ Good(AskMessage) /\ Good(ConfirmMessage)
      BY FirstOfHandler, OpsDiffer DEF PostsNeeded
<1>4. Good(SaveCookies) /\ Good(SendMessage)
      BY FirstOfHandler, OpsDiffer, NeedsDiffer
<1>5. state = "count" => Good(StoreCount)
      BY FirstOfHandler, OpsDiffer DEF PostsNeeded
<1>6. state = "sort" => Good(SortPosts)
      BY FirstOfHandler, OpsDiffer DEF PostsNeeded
<1> HIDE DEF Good
<1>7. OfMessage(state) # << >> => Good(OfMessage(state))
      BY <1>1, <1>2, <1>5 DEF OfMessage
<1>8. Good(Body(kind, state))
      BY <1>1, <1>2, <1>4, <1>6, <1>7 DEF Body, DialogueKinds
<1> QED BY <1>8 DEF Good

-----------------------------------------------------------------------------
(* Types                                                                    *)

DialogueTypes ==
  /\ fsm \in [state : States, data : SUBSET Keys]
  /\ todo \in [Tasks -> Remainders]
  /\ asked \in Nat /\ queued \in Nat
  /\ crossed \in BOOLEAN /\ cut \in BOOLEAN /\ errors \in 0 .. MaxErrors

LEMMA ArgTyped ==
  ASSUME NEW l \in Remainders, l # << >>
  PROVE  /\ Head(l).op = "set" => (CHOOSE s \in Head(l).arg : TRUE) \in States
         /\ Head(l).op = "put" => Head(l).arg \subseteq Keys
<1> DEFINE Good(o) == /\ o.op = "set" => (CHOOSE s \in o.arg : TRUE) \in States
                      /\ o.op = "put" => o.arg \subseteq Keys
<1>0. \A x : (CHOOSE s \in {x} : TRUE) = x
      OBVIOUS
<1>1. ASSUME NEW x \in States PROVE Good(Set(x))
  <2>1. Set(x).op = "set" /\ Set(x).arg = {x} /\ "set" # "put"
        BY Ops
  <2>2. (CHOOSE s \in Set(x).arg : TRUE) = x
        BY <1>0, <2>1
  <2> QED BY <2>1, <2>2
<1>2. ASSUME NEW x \in Keys PROVE Good(Put(x))
      BY Ops
<1>3. Good(Clear) /\ Good(Queue) /\ Good(Save) /\ \A K : Good(Need(K))
      BY Ops
<1> HIDE DEF Good
<1>4. \A a, b, c : Head(<<a>>) = a /\ Head(<<a, b>>) = a /\ Head(<<a, b, c>>) = a
      OBVIOUS
<1>5. CASE l \in {AskSubreddit, StoreSubreddit, <<Set("count")>>, StoreCount, <<Set("sort")>>}
      BY <1>1, <1>2, <1>4, <1>5, FirstOfHandler DEF States, Keys, Good
<1>6. CASE l \in {SortPosts, <<Queue, Clear>>, <<Clear>>, SaveCookies, <<Save, Clear>>, SendMessage}
  <2>1. Head(l) \in {PostsNeeded, Queue, Clear, Need({"platform"}), Save, Need({"msg"})}
        BY <1>4, <1>6, FirstOfHandler
  <2>2. Good(Head(l))
        BY <1>3, <2>1 DEF PostsNeeded
  <2> QED BY <2>2 DEF Good
<1>7. CASE l \in {AskProxy, AskCookies, <<Put("platform")>>, AskMessage}
      BY <1>1, <1>2, <1>4, <1>7, FirstOfHandler DEF States, Keys, Good
<1>8. CASE l \in {ConfirmMessage, <<Set("confirm")>>}
      BY <1>1, <1>2, <1>4, <1>8, FirstOfHandler DEF States, Keys, Good
<1> QED BY <1>5, <1>6, <1>7, <1>8 DEF Remainders

LEMMA SetIsSet ==
  ASSUME NEW l \in Remainders, l # << >>, Head(l).op = "set"
  PROVE  \E x : Head(l) = Set(x)
<1>1. \A a, b, c : Head(<<a>>) = a /\ Head(<<a, b>>) = a /\ Head(<<a, b, c>>) = a
      OBVIOUS
<1>2. /\ \A k : Put(k).op # "set" /\ Need(k).op # "set"
      /\ Clear.op # "set" /\ Queue.op # "set" /\ Save.op # "set"
      BY Ops
<1>3. l \in {AskSubreddit, <<Set("count")>>, <<Set("sort")>>, AskProxy, AskCookies,
             AskMessage, <<Set("confirm")>>}
      BY <1>1, <1>2, FirstOfHandler DEF Remainders, PostsNeeded
<1> QED BY <1>1, <1>3, FirstOfHandler

(* The list of the handler that takes a step.                               *)
LEMMA OneList ==
  ASSUME DialogueTypes, NEW t \in Tasks, NEW l \in Remainders,
         todo' = [todo EXCEPT ![t] = l]
  PROVE  /\ todo' \in [Tasks -> Remainders]
         /\ todo'[t] = l /\ \A u \in Tasks \ {t} : todo'[u] = todo[u]
  BY DEF DialogueTypes

LEMMA NextOne ==
  ASSUME DialogueTypes, NEW t \in Tasks, Busy(t), Next1(t)
  PROVE  /\ todo' \in [Tasks -> Remainders]
         /\ todo'[t] = Tail(todo[t]) /\ \A u \in Tasks \ {t} : todo'[u] = todo[u]
<1>1. todo[t] \in Remainders /\ todo[t] # << >>
      BY DEF DialogueTypes, Busy
<1>2. Tail(todo[t]) \in Remainders
      BY <1>1, SecondOfRemainder DEF Seconds
<1> QED BY <1>2, OneList DEF Next1

LEMMA DialogueTypesKept ==
  ASSUME DialogueTypes, DialogueEffect
  PROVE  DialogueTypes'
<1>0. << >> \in Remainders /\ MaxErrors \in Nat
      BY DialogueAssumption DEF Remainders
<1>1. CASE UNCHANGED dialogueVars
      BY <1>1 DEF dialogueVars, DialogueTypes
<1>2. ASSUME NEW t \in Tasks, NEW kind \in DialogueKinds, Open(t, kind)
      PROVE  DialogueTypes'
  <2>1. PICK l \in Remainders : todo' = [todo EXCEPT ![t] = l]
        BY <1>2, BodyIsRemainder DEF Open
  <2>2. crossed' \in BOOLEAN
        BY <1>2, Zenon DEF Open
  <2> QED BY <1>2, <2>1, <2>2, OneList DEF Open, DialogueTypes
<1>3. ASSUME NEW t \in Tasks, DialogueStep(t)
      PROVE  DialogueTypes'
  <2>0. Busy(t) /\ todo[t] \in Remainders /\ todo[t] # << >>
        BY <1>3 DEF DialogueStep, SetState, UpdateData, GetData, ClearState, QueuePosts,
                    Doing, Busy, DialogueTypes
  <2>1. CASE SetState(t)
    <3>1. (CHOOSE s \in Arg(t) : TRUE) \in States
          BY <2>0, <2>1, ArgTyped DEF SetState, Doing, Arg
    <3> QED BY <2>0, <2>1, <3>1, NextOne DEF SetState, DialogueTypes
  <2>2. CASE UpdateData(t)
    <3>1. Arg(t) \subseteq Keys
          BY <2>0, <2>2, ArgTyped DEF UpdateData, Doing, Arg
    <3>2. asked' \in Nat
          BY <2>2 DEF UpdateData, DialogueTypes
    <3> QED BY <2>0, <2>2, <3>1, <3>2, NextOne DEF UpdateData, DialogueTypes
  <2>3. CASE GetData(t)
    <3>1. PICK l \in Remainders : todo' = [todo EXCEPT ![t] = l]
          BY <1>0, <2>0, <2>3, SecondOfRemainder DEF GetData, Seconds
    <3> QED BY <2>3, <3>1, OneList DEF GetData, DialogueTypes
  <2>4. CASE ClearState(t)
    <3>1. [state |-> "none", data |-> {}] \in [state : States, data : SUBSET Keys]
          BY DEF States
    <3> QED BY <2>0, <2>4, <3>1, NextOne DEF ClearState, DialogueTypes
  <2>5. CASE QueuePosts(t)
    <3>1. queued' \in Nat
          BY <2>5 DEF QueuePosts, DialogueTypes
    <3> QED BY <2>0, <2>5, <3>1, NextOne DEF QueuePosts, DialogueTypes
  <2> QED BY <1>3, <2>1, <2>2, <2>3, <2>4, <2>5 DEF DialogueStep
<1>4. ASSUME NEW t \in Tasks, Abort(t)
      PROVE  DialogueTypes'
  <2>1. cut' \in BOOLEAN
        BY <1>4, Zenon DEF Abort
  <2>2. errors' \in 0 .. MaxErrors
        BY <1>0, <1>4 DEF Abort, DialogueTypes
  <2>3. todo' = [todo EXCEPT ![t] = << >>]
        BY <1>4 DEF Abort, Drop
  <2> QED BY <1>0, <1>4, <2>1, <2>2, <2>3, OneList DEF Abort, DialogueTypes
<1>5. ASSUME NEW t \in Tasks, Doing(t, "save"), Next1(t) \/ Drop(t),
             UNCHANGED <<fsm, asked, queued, crossed, cut, errors>>
      PROVE  DialogueTypes'
  <2>1. CASE Next1(t)
        BY <1>5, <2>1, NextOne DEF Doing, DialogueTypes
  <2>2. CASE Drop(t)
        BY <1>0, <1>5, <2>2, OneList DEF Drop, DialogueTypes
  <2> QED BY <1>5, <2>1, <2>2
<1>6. CASE DialogueCrash
  <2>1. cut' \in BOOLEAN
        BY <1>6, Zenon DEF DialogueCrash
  <2> QED BY <1>0, <1>6, <2>1 DEF DialogueCrash, DialogueTypes
<1> QED BY <1>1, <1>2, <1>3, <1>4, <1>5, <1>6 DEF DialogueEffect

LEMMA RemaindersAreShort ==
  ASSUME NEW l \in Remainders
  PROVE  Len(l) <= 3
<1>1. \A a, b, c : Len(<<a>>) = 1 /\ Len(<<a, b>>) = 2 /\ Len(<<a, b, c>>) = 3
      OBVIOUS
<1>2. Len(<< >>) = 0
      OBVIOUS
<1> QED BY <1>1, <1>2
        DEF Remainders, AskSubreddit, StoreSubreddit, StoreCount, SortPosts, AskProxy,
            AskCookies, SaveCookies, AskMessage, ConfirmMessage, SendMessage

LEMMA DialogueTypesHold == Spec => []DialogueTypes
<1>1. ASSUME Init PROVE DialogueTypes
  <2>1. << >> \in Remainders /\ "none" \in States /\ {} \in SUBSET Keys
        BY DEF Remainders, States
  <2>2. 0 \in 0 .. MaxErrors
        BY DialogueAssumption
  <2>3. fsm \in [state : States, data : SUBSET Keys]
        BY <1>1, <2>1 DEF Init, DialogueInit
  <2>4. todo \in [Tasks -> Remainders]
        BY <1>1, <2>1 DEF Init, DialogueInit
  <2> QED BY <1>1, <2>2, <2>3, <2>4 DEF Init, DialogueInit, DialogueTypes
<1> QED BY <1>1, NextDialogueEffect, DialogueTypesKept, PTL DEF Spec

-----------------------------------------------------------------------------
(* Questions and answers                                                    *)

Answered ==
  /\ fsm.state \in {"count", "sort"} => "subreddit" \in fsm.data
  /\ fsm.state = "sort" => "count" \in fsm.data
  /\ fsm.state = "confirm" => "msg" \in fsm.data

(* What the next operation of a handler relies on.                          *)
Ready(t) ==
  Busy(t) =>
    LET next == Head(todo[t])
    IN  /\ next \in {Set("count"), Put("count"), Set("sort")} => "subreddit" \in fsm.data
        /\ next = Set("sort") => "count" \in fsm.data
        /\ next = Set("confirm") => "msg" \in fsm.data

OneBusy == \A s, t \in Tasks : Busy(s) /\ Busy(t) => s = t

AnswerInv == ~crossed => OneBusy /\ Answered /\ \A t \in Tasks : Ready(t)

(* A step of the one busy handler leaves no other one busy.                 *)
LEMMA OthersIdle ==
  ASSUME DialogueTypes, OneBusy, NEW t \in Tasks, Busy(t),
         \A u \in Tasks \ {t} : todo'[u] = todo[u]
  PROVE  /\ \A u \in Tasks \ {t} : ~Busy(u)'
         /\ OneBusy'
  BY DEF OneBusy, Busy

LEMMA ReadyAfter ==
  ASSUME DialogueTypes, OneBusy, NEW t \in Tasks, Busy(t),
         \A u \in Tasks \ {t} : todo'[u] = todo[u],
         Answered', Ready(t)'
  PROVE  AnswerInv'
  BY OthersIdle DEF AnswerInv, Ready

(* The list goes on to its second operation, or ends.                       *)
LEMMA ReadyIfNext ==
  ASSUME DialogueTypes, NEW t \in Tasks, Busy(t), todo'[t] = Tail(todo[t]),
         Head(todo[t]) = Put("subreddit") => "subreddit" \in fsm'.data,
         Head(todo[t]) = Put("count") => {"subreddit", "count"} \subseteq fsm'.data,
         Head(todo[t]) = Put("msg") => "msg" \in fsm'.data
  PROVE  Ready(t)'
<1>1. SUFFICES ASSUME todo'[t] # << >>
               PROVE  LET next == Head(todo'[t])
                      IN  /\ next \in {Set("count"), Put("count"), Set("sort")} =>
                               "subreddit" \in fsm'.data
                          /\ next = Set("sort") => "count" \in fsm'.data
                          /\ next = Set("confirm") => "msg" \in fsm'.data
      BY DEF Ready, Busy
<1>2. todo[t] \in Remainders /\ todo[t] # << >>
      BY DEF DialogueTypes, Busy
<1>3. Seconds(todo[t])
      BY <1>2, SecondOfRemainder
<1> QED BY <1>1, <1>3 DEF Seconds

LEMMA AnswerKept ==
  ASSUME DialogueTypes, AnswerInv, DialogueEffect
  PROVE  AnswerInv'
<1>1. SUFFICES ASSUME ~crossed' PROVE AnswerInv'
      BY DEF AnswerInv
<1>2. ~crossed
      BY <1>1 DEF DialogueEffect, dialogueVars, Open, DialogueStep, SetState, UpdateData,
                  GetData, ClearState, QueuePosts, Abort, DialogueCrash
<1>3. OneBusy /\ Answered /\ \A t \in Tasks : Ready(t)
      BY <1>2 DEF AnswerInv
<1>4. CASE UNCHANGED dialogueVars
      BY <1>3, <1>4 DEF dialogueVars, AnswerInv, OneBusy, Answered, Ready, Busy
<1>5. ASSUME NEW t \in Tasks, NEW kind \in DialogueKinds, Open(t, kind)
      PROVE  AnswerInv'
  <2>1. /\ \A u \in Tasks : ~Busy(u)
        /\ UNCHANGED fsm
        BY <1>1, <1>5 DEF Open
  <2>2. /\ todo'[t] = Body(kind, fsm.state)
        /\ \A u \in Tasks \ {t} : todo'[u] = todo[u]
        BY <1>5 DEF Open, DialogueTypes
  <2>3. \A u \in Tasks \ {t} : ~Busy(u)'
        BY <2>1, <2>2 DEF Busy
  <2>4. Ready(t)'
        BY <1>3, <2>1, <2>2, FirstOfBody, OpsDiffer DEF Ready, Busy, Answered
  <2>5. Answered'
        BY <1>3, <2>1 DEF Answered
  <2> QED BY <2>3, <2>4, <2>5 DEF AnswerInv, OneBusy, Ready
<1>6. ASSUME NEW t \in Tasks, DialogueStep(t)
      PROVE  AnswerInv'
  <2>0. Busy(t) /\ todo[t] \in Remainders /\ todo[t] # << >> /\ Ready(t)
        BY <1>3, <1>6
           DEF DialogueStep, SetState, UpdateData, GetData, ClearState, QueuePosts,
               Doing, Busy, DialogueTypes
  <2>1. CASE SetState(t)
    <3>1. PICK x : Head(todo[t]) = Set(x)
          BY <2>0, <2>1, SetIsSet DEF SetState, Doing
    <3>2. fsm' = [fsm EXCEPT !.state = x]
      <4>1. (CHOOSE s \in {x} : TRUE) = x
            OBVIOUS
      <4> QED BY <2>1, <3>1, <4>1, Ops DEF SetState, Arg
    <3>3. fsm'.state = x /\ fsm'.data = fsm.data
          BY <3>2 DEF DialogueTypes
    <3>4. Answered'
          BY <2>0, <3>1, <3>3 DEF Answered, Ready
    <3>5. Ready(t)'
          BY <2>0, <2>1, <3>1, NextOne, ReadyIfNext, OpsDiffer DEF SetState
    <3> QED BY <1>3, <2>0, <2>1, <3>4, <3>5, NextOne, ReadyAfter DEF SetState
  <2>2. CASE UpdateData(t)
    <3>1. fsm'.state = fsm.state /\ fsm'.data = fsm.data \cup Arg(t)
          BY <2>2 DEF UpdateData, DialogueTypes
    <3>2. \A k : Head(todo[t]) = Put(k) => k \in fsm'.data
          BY <3>1, Ops DEF Arg
    <3>3. Head(todo[t]) = Put("count") => "subreddit" \in fsm'.data
          BY <2>0, <3>1 DEF Ready
    <3>4. Ready(t)'
          BY <2>0, <2>2, <3>2, <3>3, NextOne, ReadyIfNext DEF UpdateData
    <3>5. Answered'
          BY <1>3, <3>1 DEF Answered
    <3> QED BY <1>3, <2>0, <2>2, <3>4, <3>5, NextOne, ReadyAfter DEF UpdateData
  <2>3. CASE GetData(t)
    <3>1. UNCHANGED fsm /\ \A u \in Tasks \ {t} : todo'[u] = todo[u]
          BY <2>3 DEF GetData, DialogueTypes
    <3>2. todo'[t] = Tail(todo[t]) \/ todo'[t] = << >>
          BY <2>3 DEF GetData, DialogueTypes
    <3>3. Head(todo[t]).op = "need"
          BY <2>3 DEF GetData, Doing
    <3>4. \A k : Head(todo[t]) # Put(k)
          BY <3>3, Ops
    <3>5. Ready(t)'
      <4>1. CASE todo'[t] = << >>
            BY <4>1 DEF Ready, Busy
      <4>2. CASE todo'[t] = Tail(todo[t])
            BY <2>0, <3>4, <4>2, ReadyIfNext
      <4> QED BY <3>2, <4>1, <4>2
    <3>6. Answered'
          BY <1>3, <3>1 DEF Answered
    <3> QED BY <1>3, <2>0, <3>1, <3>5, <3>6, ReadyAfter
  <2>4. CASE ClearState(t)
    <3>1. Head(todo[t]).op = "clear" /\ fsm'.state = "none"
          BY <2>4 DEF ClearState, Doing
    <3>2. \A k : Head(todo[t]) # Put(k)
          BY <3>1, Ops
    <3>3. Ready(t)'
          BY <2>0, <2>4, <3>2, NextOne, ReadyIfNext DEF ClearState
    <3>4. Answered'
          BY <3>1 DEF Answered
    <3> QED BY <1>3, <2>0, <2>4, <3>3, <3>4, NextOne, ReadyAfter DEF ClearState
  <2>5. CASE QueuePosts(t)
    <3>1. Head(todo[t]).op = "queue" /\ UNCHANGED fsm
          BY <2>5 DEF QueuePosts, Doing
    <3>2. \A k : Head(todo[t]) # Put(k)
          BY <3>1, Ops
    <3>3. Ready(t)'
          BY <2>0, <2>5, <3>2, NextOne, ReadyIfNext DEF QueuePosts
    <3>4. Answered'
          BY <1>3, <3>1 DEF Answered
    <3> QED BY <1>3, <2>0, <2>5, <3>3, <3>4, NextOne, ReadyAfter DEF QueuePosts
  <2> QED BY <1>6, <2>1, <2>2, <2>3, <2>4, <2>5 DEF DialogueStep
<1>7. ASSUME NEW t \in Tasks, Abort(t)
      PROVE  AnswerInv'
  <2>1. /\ Busy(t) /\ UNCHANGED fsm /\ todo'[t] = << >>
        /\ \A u \in Tasks \ {t} : todo'[u] = todo[u]
        BY <1>7 DEF Abort, Drop, DialogueTypes
  <2>2. Ready(t)' /\ Answered'
        BY <1>3, <2>1 DEF Ready, Busy, Answered
  <2> QED BY <1>3, <2>1, <2>2, ReadyAfter
<1>10. ASSUME NEW t \in Tasks, Doing(t, "save"), Drop(t), UNCHANGED fsm
      PROVE  AnswerInv'
  <2>1. /\ Busy(t) /\ UNCHANGED fsm /\ todo'[t] = << >>
        /\ \A u \in Tasks \ {t} : todo'[u] = todo[u]
        BY <1>10 DEF Drop, Doing, DialogueTypes
  <2>2. Ready(t)' /\ Answered'
        BY <1>3, <2>1 DEF Ready, Busy, Answered
  <2> QED BY <1>3, <2>1, <2>2, ReadyAfter
<1>8. ASSUME NEW t \in Tasks, Doing(t, "save"), Next1(t), UNCHANGED fsm
      PROVE  AnswerInv'
  <2>1. \A k : Head(todo[t]) # Put(k)
        BY <1>8, Ops DEF Doing
  <2>2. Ready(t)' /\ Answered'
        BY <1>3, <1>8, <2>1, NextOne, ReadyIfNext DEF Doing, Answered
  <2> QED BY <1>3, <1>8, <2>2, NextOne, ReadyAfter DEF Doing
<1>9. CASE DialogueCrash
  <2>1. UNCHANGED fsm /\ \A t \in Tasks : ~Busy(t)'
        BY <1>9 DEF DialogueCrash, Busy
  <2> QED BY <1>3, <2>1 DEF AnswerInv, OneBusy, Answered, Ready
<1> QED BY <1>4, <1>5, <1>6, <1>7, <1>8, <1>9, <1>10 DEF DialogueEffect

(* An answer is asked for only when those before it are stored, whatever    *)
(* raises and wherever the bot dies, unless two handlers of the chat overlap *)
(* (handlers/reddit.py, handlers/admin.py).                                 *)
THEOREM AnswersPrecedeQuestions == Spec => []QuestionsHaveAnswers
<1>1. Init => AnswerInv
      BY DEF Init, DialogueInit, AnswerInv, OneBusy, Answered, Ready, Busy
<1>2. AnswerInv => QuestionsHaveAnswers
      BY DEF AnswerInv, Answered, QuestionsHaveAnswers
<1> QED BY <1>1, <1>2, DialogueTypesHold, NextDialogueEffect, AnswerKept, PTL DEF Spec

-----------------------------------------------------------------------------
(* The queueing of posts                                                    *)

(* A handler that can still queue, or still open the question before that.  *)
MayQueue(t) ==
  Busy(t) /\ Head(todo[t]) \in {Set("sort"), PostsNeeded, Queue}

(* The dialogue was not queued yet: its state says so, but between the      *)
(* queueing and the clear.                                                  *)
OpenToQueue ==
  fsm.state = "sort" /\ ~\E t \in Tasks : Busy(t) /\ Head(todo[t]) = Clear

QueueInv ==
  ~crossed /\ ~cut =>
    /\ queued <= asked
    /\ OpenToQueue \/ (\E t \in Tasks : MayQueue(t)) => queued < asked

(* The list of the one busy handler, before and after a step of it.         *)
LEMMA SecondMayQueue ==
  ASSUME DialogueTypes, NEW t \in Tasks, Busy(t), todo'[t] = Tail(todo[t])
  PROVE  MayQueue(t)' => \/ Head(todo[t]) = Put("count")
                         \/ Head(todo[t]) = PostsNeeded
<1>1. todo[t] \in Remainders /\ todo[t] # << >>
      BY DEF DialogueTypes, Busy
<1>2. Seconds(todo[t])
      BY <1>1, SecondOfRemainder
<1> QED BY <1>2 DEF Seconds, MayQueue, Busy

LEMMA QueueKept ==
  ASSUME DialogueTypes, AnswerInv, QueueInv, DialogueEffect
  PROVE  QueueInv'
<1>1. SUFFICES ASSUME ~crossed', ~cut' PROVE QueueInv'
      BY DEF QueueInv
<1>2. ~crossed /\ ~cut
  <2>1. ~crossed
        BY <1>1 DEF DialogueEffect, dialogueVars, Open, DialogueStep, SetState, UpdateData,
                    GetData, ClearState, QueuePosts, Abort, DialogueCrash
  <2>2. ASSUME NEW t \in Tasks, Abort(t) PROVE ~cut
        BY <1>1, <2>2 DEF Abort, DialogueTypes, Doing, Busy
  <2>3. CASE DialogueCrash
        BY <1>1, <2>3 DEF DialogueCrash, DialogueTypes
  <2>4. CASE UNCHANGED cut
        BY <1>1, <2>1, <2>4
  <2>5. \/ UNCHANGED cut \/ DialogueCrash
        \/ \E t \in Tasks : Abort(t)
        BY DEF DialogueEffect, dialogueVars, Open, DialogueStep, SetState, UpdateData,
               GetData, ClearState, QueuePosts
  <2> QED BY <2>1, <2>2, <2>3, <2>4, <2>5
<1>3. /\ OneBusy /\ queued <= asked
      /\ OpenToQueue \/ (\E t \in Tasks : MayQueue(t)) => queued < asked
      /\ queued \in Nat /\ asked \in Nat
      BY <1>2 DEF AnswerInv, QueueInv, DialogueTypes
<1>4. CASE UNCHANGED dialogueVars
      BY <1>3, <1>4 DEF dialogueVars, QueueInv, OpenToQueue, MayQueue, Busy
<1>5. ASSUME NEW t \in Tasks, NEW kind \in DialogueKinds, Open(t, kind)
      PROVE  QueueInv'
  <2>1. /\ \A u \in Tasks : ~Busy(u)
        /\ UNCHANGED <<fsm, asked, queued>>
        BY <1>1, <1>5 DEF Open
  <2>2. /\ todo'[t] = Body(kind, fsm.state)
        /\ \A u \in Tasks \ {t} : todo'[u] = todo[u]
        BY <1>5 DEF Open, DialogueTypes
  <2>3. \A u \in Tasks \ {t} : ~Busy(u)'
        BY <2>1, <2>2 DEF Busy
  <2>4. OpenToQueue' => OpenToQueue
        BY <2>1 DEF OpenToQueue
  <2>5. \A u \in Tasks : MayQueue(u)' => u = t
        BY <2>3 DEF MayQueue
  <2>6. MayQueue(t)' => fsm.state = "sort"
        BY <2>2, FirstOfBody DEF MayQueue, Busy
  <2>7. MayQueue(t)' => OpenToQueue
        BY <2>1, <2>6 DEF OpenToQueue
  <2> QED BY <1>3, <2>1, <2>4, <2>5, <2>7 DEF QueueInv
<1>6. ASSUME NEW t \in Tasks, Busy(t),
             \A u \in Tasks \ {t} : todo'[u] = todo[u]
      PROVE  /\ \A u \in Tasks : MayQueue(u)' => u = t
             /\ \A u \in Tasks : Busy(u) => u = t
             /\ \A u \in Tasks : Busy(u)' => u = t
             /\ MayQueue(t) => queued < asked
  <2>1. \A u \in Tasks : Busy(u) => u = t
        BY <1>3, <1>6 DEF OneBusy
  <2>2. \A u \in Tasks : Busy(u)' => u = t
        BY <1>6, <2>1 DEF Busy
  <2> QED BY <1>3, <2>1, <2>2 DEF MayQueue
<1>7. ASSUME NEW t \in Tasks, DialogueStep(t)
      PROVE  QueueInv'
  <2>0. Busy(t) /\ todo[t] \in Remainders /\ todo[t] # << >> /\ Ready(t)
        BY <1>2, <1>7
           DEF DialogueStep, SetState, UpdateData, GetData, ClearState, QueuePosts,
               Doing, Busy, DialogueTypes, AnswerInv
  <2>1. CASE SetState(t)
    <3>1. /\ todo'[t] = Tail(todo[t]) /\ \A u \in Tasks \ {t} : todo'[u] = todo[u]
          /\ UNCHANGED <<asked, queued>>
          BY <2>0, <2>1, NextOne DEF SetState
    <3>2. PICK x : Head(todo[t]) = Set(x)
          BY <2>0, <2>1, SetIsSet DEF SetState, Doing
    <3>3. fsm'.state = x
      <4>1. (CHOOSE s \in {x} : TRUE) = x
            OBVIOUS
      <4> QED BY <2>1, <3>2, <4>1, Ops DEF SetState, Arg, DialogueTypes
    <3>4. ~MayQueue(t)'
          BY <2>0, <3>1, <3>2, SecondMayQueue, OpsDiffer, NeedsDiffer
    <3>5. OpenToQueue' => MayQueue(t)
          BY <2>0, <3>2, <3>3 DEF OpenToQueue, MayQueue
    <3> QED BY <1>3, <1>6, <2>0, <3>1, <3>4, <3>5 DEF QueueInv
  <2>2. CASE UpdateData(t)
    <3>1. /\ todo'[t] = Tail(todo[t]) /\ \A u \in Tasks \ {t} : todo'[u] = todo[u]
          /\ UNCHANGED queued
          BY <2>0, <2>2, NextOne DEF UpdateData
    <3>2. fsm'.state = fsm.state
          BY <2>2 DEF UpdateData, DialogueTypes
    <3>3. Head(todo[t]).op = "put"
          BY <2>2 DEF UpdateData, Doing
    <3>4. Head(todo[t]) # Clear /\ Head(todo[t]) # PostsNeeded
          BY <3>3, Ops DEF PostsNeeded
    <3>5. OpenToQueue' => queued < asked
      <4>1. ~\E u \in Tasks : Busy(u) /\ Head(todo[u]) = Clear
            BY <1>6, <2>0, <3>1, <3>4
      <4> QED BY <1>3, <3>2, <4>1 DEF OpenToQueue
    <3>6. asked' = IF Arg(t) = {"count"} THEN asked + 1 ELSE asked
          BY <2>2 DEF UpdateData
    <3>7. MayQueue(t)' => Arg(t) = {"count"}
          BY <2>0, <3>1, <3>4, SecondMayQueue, Ops DEF Arg
    <3> HIDE DEF MayQueue
    <3>8. MayQueue(t)' => queued < asked'
          BY <1>3, <3>6, <3>7
    <3>9. OpenToQueue' => queued < asked'
          BY <1>3, <3>5, <3>6
    <3>10. queued <= asked'
          BY <1>3, <3>6
    <3>11. (\E u \in Tasks : MayQueue(u)') => MayQueue(t)'
          BY <1>6, <2>0, <3>1
    <3> QED BY <3>1, <3>8, <3>9, <3>10, <3>11 DEF QueueInv
  <2>3. CASE GetData(t)
    <3>1. UNCHANGED <<fsm, asked, queued>> /\ \A u \in Tasks \ {t} : todo'[u] = todo[u]
          BY <2>3 DEF GetData, DialogueTypes
    <3>2. todo'[t] = Tail(todo[t]) \/ todo'[t] = << >>
          BY <2>3 DEF GetData, DialogueTypes
    <3>3. Head(todo[t]).op = "need"
          BY <2>3 DEF GetData, Doing
    <3>4. Head(todo[t]) # Put("count") /\ Head(todo[t]) # Clear
          BY <3>3, Ops
    <3>5. MayQueue(t)' => MayQueue(t)
      <4>1. CASE todo'[t] = << >>
            BY <4>1 DEF MayQueue, Busy
      <4>2. CASE todo'[t] = Tail(todo[t])
            BY <2>0, <3>4, <4>2, SecondMayQueue DEF MayQueue
      <4> QED BY <3>2, <4>1, <4>2
    <3>6. OpenToQueue' => OpenToQueue
          BY <1>6, <2>0, <3>1, <3>4 DEF OpenToQueue
    <3> QED BY <1>3, <1>6, <2>0, <3>1, <3>5, <3>6 DEF QueueInv
  <2>4. CASE ClearState(t)
    <3>1. /\ Head(todo[t]).op = "clear" /\ fsm'.state = "none"
          /\ UNCHANGED <<asked, queued>>
          BY <2>4 DEF ClearState, Doing
    <3>2. /\ todo'[t] = Tail(todo[t]) /\ \A u \in Tasks \ {t} : todo'[u] = todo[u]
          BY <2>0, <2>4, NextOne DEF ClearState
    <3>3. ~MayQueue(t)'
          BY <2>0, <3>1, <3>2, SecondMayQueue, Ops DEF PostsNeeded
    <3>4. ~OpenToQueue'
          BY <3>1 DEF OpenToQueue
    <3> QED BY <1>3, <1>6, <2>0, <3>1, <3>2, <3>3, <3>4 DEF QueueInv
  <2>5. CASE QueuePosts(t)
    <3>1. /\ Head(todo[t]).op = "queue" /\ UNCHANGED <<fsm, asked>>
          /\ queued' \in {queued, queued + 1}
          BY <2>5 DEF QueuePosts, Doing
    <3>2. /\ todo'[t] = Tail(todo[t]) /\ \A u \in Tasks \ {t} : todo'[u] = todo[u]
          BY <2>0, <2>5, NextOne DEF QueuePosts
    <3>3. Head(todo[t]) = Queue
      <4>1. \A a, b, c : Head(<<a>>) = a /\ Head(<<a, b>>) = a /\ Head(<<a, b, c>>) = a
            OBVIOUS
      <4>2. /\ \A s : Set(s).op # "queue" /\ Put(s).op # "queue" /\ Need(s).op # "queue"
            /\ Clear.op # "queue" /\ Save.op # "queue"
            BY Ops
      <4>3. todo[t] \in {<<Queue, Clear>>}
            BY <2>0, <3>1, <4>1, <4>2, FirstOfHandler DEF Remainders, PostsNeeded
      <4> QED BY <4>1, <4>3
    <3>4. MayQueue(t)
          BY <2>0, <3>3 DEF MayQueue
    <3>5. queued < asked
          BY <1>3, <3>4
    <3>6. queued' <= asked'
          BY <1>3, <3>1, <3>5
    <3>7. ~MayQueue(t)'
          BY <2>0, <3>2, <3>3, SecondMayQueue, OpsDiffer, NeedsDiffer
    <3>8. Tail(todo[t]) # << >> /\ Head(Tail(todo[t])) = Clear
          BY <2>0, <3>3, SecondOfRemainder DEF Seconds
    <3>9. ~OpenToQueue'
          BY <3>2, <3>8 DEF OpenToQueue, Busy
    <3> QED BY <1>6, <2>0, <3>2, <3>6, <3>7, <3>9 DEF QueueInv
  <2> QED BY <1>7, <2>1, <2>2, <2>3, <2>4, <2>5 DEF DialogueStep
<1>8. ASSUME NEW t \in Tasks, Abort(t)
      PROVE  QueueInv'
  <2>1. /\ Busy(t) /\ UNCHANGED <<fsm, asked, queued>> /\ todo'[t] = << >>
        /\ \A u \in Tasks \ {t} : todo'[u] = todo[u]
        BY <1>8 DEF Abort, Drop, DialogueTypes
  <2>2. Head(todo[t]) # Clear
        BY <1>1, <1>8, Ops DEF Abort, Doing
  <2>3. ~MayQueue(t)'
        BY <2>1 DEF MayQueue, Busy
  <2>4. OpenToQueue' => OpenToQueue
        BY <1>6, <2>1, <2>2 DEF OpenToQueue
  <2> QED BY <1>3, <1>6, <2>1, <2>3, <2>4 DEF QueueInv
<1>9. ASSUME NEW t \in Tasks, Doing(t, "save"), Next1(t), UNCHANGED <<fsm, asked, queued>>
      PROVE  QueueInv'
  <2>1. /\ Busy(t) /\ todo'[t] = Tail(todo[t])
        /\ \A u \in Tasks \ {t} : todo'[u] = todo[u]
        BY <1>9, NextOne DEF Doing
  <2>2. Head(todo[t]).op = "save"
        BY <1>9 DEF Doing
  <2>3. Head(todo[t]) # Clear /\ Head(todo[t]) # Put("count") /\ Head(todo[t]) # PostsNeeded
        BY <2>2, Ops DEF PostsNeeded
  <2>4. ~MayQueue(t)'
        BY <2>1, <2>3, SecondMayQueue
  <2>5. OpenToQueue' => OpenToQueue
        BY <1>6, <1>9, <2>1, <2>3 DEF OpenToQueue
  <2> QED BY <1>3, <1>6, <1>9, <2>1, <2>4, <2>5 DEF QueueInv
<1>11. ASSUME NEW t \in Tasks, Doing(t, "save"), Drop(t), UNCHANGED <<fsm, asked, queued>>
      PROVE  QueueInv'
  <2>1. /\ Busy(t) /\ todo'[t] = << >> /\ \A u \in Tasks \ {t} : todo'[u] = todo[u]
        BY <1>11 DEF Drop, Doing, DialogueTypes
  <2>2. Head(todo[t]) # Clear
        BY <1>11, Ops DEF Doing
  <2>3. ~MayQueue(t)'
        BY <2>1 DEF MayQueue, Busy
  <2>4. OpenToQueue' => OpenToQueue
        BY <1>6, <1>11, <2>1, <2>2 DEF OpenToQueue
  <2> QED BY <1>3, <1>6, <1>11, <2>1, <2>3, <2>4 DEF QueueInv
<1>10. CASE DialogueCrash
  <2>1. UNCHANGED <<fsm, asked, queued>> /\ \A t \in Tasks : ~Busy(t)'
        BY <1>10 DEF DialogueCrash, Busy
  <2>2. \A t \in Tasks : ~Doing(t, "clear")
        BY <1>1, <1>10 DEF DialogueCrash
  <2>3. \A t \in Tasks : Busy(t) => Head(todo[t]) # Clear
        BY <2>2, Ops DEF Doing
  <2>4. OpenToQueue' => OpenToQueue
        BY <2>1, <2>3 DEF OpenToQueue
  <2> QED BY <1>3, <2>1, <2>4 DEF QueueInv, MayQueue
<1> QED BY <1>4, <1>5, <1>7, <1>8, <1>9, <1>10, <1>11 DEF DialogueEffect

(* A dialogue queues the posts of its subreddit once, unless two handlers of *)
(* the chat overlap, or the handler ends between the queueing and the clear  *)
(* of the state (handlers/reddit.py, process_sort).                          *)
THEOREM PostsAreQueuedOnce == Spec => []QueuedOncePerDialogue
<1>1. Init => QueueInv
      BY DEF Init, DialogueInit, QueueInv, OpenToQueue, MayQueue, Busy
<1>2. Init => AnswerInv
      BY DEF Init, DialogueInit, AnswerInv, OneBusy, Answered, Ready, Busy
<1>3. QueueInv => QueuedOncePerDialogue
      BY DEF QueueInv, QueuedOncePerDialogue
<1> QED BY <1>1, <1>2, <1>3, DialogueTypesHold, NextDialogueEffect, AnswerKept,
           QueueKept, PTL DEF Spec
=============================================================================
