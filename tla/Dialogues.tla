----------------------------- MODULE Dialogues -----------------------------
(***************************************************************************)
(* The dialogues of one chat, kept in Redis as a state and a dictionary:   *)
(* the bulk download of handlers/reddit.py and the three of                *)
(* handlers/admin.py (add a proxy, upload cookies, broadcast).  A handler  *)
(* is a list of operations on the dialogue, done one after the other, and  *)
(* handlers of one chat may overlap.  Which updates there are, and what    *)
(* "save" does, is left to Desk.                                           *)
(***************************************************************************)
EXTENDS Naturals, Sequences

CONSTANTS
  Tasks,      \* the tasks that handle updates
  MaxErrors   \* bound: calls to Redis, Telegram, Reddit that raise

ASSUME DialogueAssumption == MaxErrors \in Nat

VARIABLES
  fsm,      \* the state and the keys of the data
  todo,     \* the operations each handler has left
  asked,    \* history: dialogues that came as far as the count of posts
  queued,   \* history: times the posts of a subreddit were queued
  crossed,  \* history: two handlers of the chat overlapped
  cut,      \* history: a handler ended between the queueing and the clear
  errors    \* for MaxErrors

dialogueVars == <<fsm, todo, asked, queued, crossed, cut, errors>>

States == {"none", "subreddit", "count", "sort", "proxy", "cookie", "broadcast",
           "confirm"}
Keys   == {"subreddit", "count", "platform", "msg"}

Op(o, arg)  == [op |-> o, arg |-> arg]
Set(state)  == Op("set", {state})   \* set_state
Put(key)    == Op("put", {key})     \* update_data
Need(keys)  == Op("need", keys)     \* get_data, and data[key]
Clear       == Op("clear", {})      \* state.clear
Queue       == Op("queue", {})      \* fetch the posts, create and queue the jobs
Save        == Op("save", {})       \* save_cookie_file

DialogueTypeOK ==
  /\ fsm \in [state : States, data : SUBSET Keys]
  /\ \A t \in Tasks : Len(todo[t]) <= 3
  /\ asked \in Nat /\ queued \in Nat
  /\ crossed \in BOOLEAN /\ cut \in BOOLEAN /\ errors \in 0 .. MaxErrors

DialogueInit ==
  /\ fsm = [state |-> "none", data |-> {}]
  /\ todo = [t \in Tasks |-> << >>]
  /\ asked = 0 /\ queued = 0
  /\ crossed = FALSE /\ cut = FALSE /\ errors = 0

-----------------------------------------------------------------------------
(* The handlers *)

\* handle_reddit_start
AskSubreddit == <<Set("subreddit")>>

\* Mistake: the next question is opened before the answer is stored.
StateFirst == <<Set("count"), Put("subreddit")>>

\* process_subreddit, process_count
StoreSubreddit == <<Put("subreddit"), Set("count")>>
StoreCount     == <<Put("count"), Set("sort")>>

\* Mistake: the dialogue is left open.
SortAndStay == <<Need({"subreddit", "count"}), Queue>>

\* process_sort
SortPosts == <<Need({"subreddit", "count"}), Queue, Clear>>

\* handle_proxy_add_start and _finish; the row is ProxyPool's business.
AskProxy == <<Set("proxy")>>
AddProxy == <<Clear>>

\* handle_cookie_up_start and _finish
AskCookies  == <<Set("cookie"), Put("platform")>>
SaveCookies == <<Need({"platform"}), Save, Clear>>

\* handle_broadcast_start, _confirm and _send; the last has no state filter.
AskMessage     == <<Set("broadcast")>>
ConfirmMessage == <<Put("msg"), Set("confirm")>>
SendMessage    == <<Need({"msg"}), Clear>>

\* A message, whatever it holds: the open dialogue takes it.
OfMessage(state) ==
  CASE state = "broadcast" -> ConfirmMessage
    [] state = "proxy"     -> AddProxy
    [] state = "subreddit" -> StoreSubreddit
    [] state = "count"     -> StoreCount
    [] OTHER               -> << >>      \* for another router

\* The handler of an update, by the state its filter reads.  The admin's router
\* is asked first, and takes "/reddit" for an answer too.
Body(kind, state) ==
  CASE kind = "reddit"    -> IF state \in {"proxy", "broadcast"} THEN OfMessage(state)
                                                                 ELSE AskSubreddit
    [] kind = "text"      -> OfMessage(state)
    [] kind = "document"  -> IF state = "cookie" THEN SaveCookies ELSE OfMessage(state)
    [] kind = "sort"      -> IF state = "sort" THEN SortPosts ELSE << >>
    [] kind = "add proxy" -> AskProxy
    [] kind = "cookies"   -> AskCookies
    [] kind = "broadcast" -> AskMessage
    [] kind = "send"      -> SendMessage

Busy(t) == todo[t] # << >>

Open(t, kind) ==
  /\ ~Busy(t)
  /\ todo' = [todo EXCEPT ![t] = Body(kind, fsm.state)]
  /\ crossed' = (crossed \/ \E s \in Tasks \ {t} : Busy(s))
  /\ UNCHANGED <<fsm, asked, queued, cut, errors>>

Doing(t, o) == Busy(t) /\ Head(todo[t]).op = o
Arg(t)      == Head(todo[t]).arg
Next1(t)    == todo' = [todo EXCEPT ![t] = Tail(@)]
Drop(t)     == todo' = [todo EXCEPT ![t] = << >>]

SetState(t) ==
  /\ Doing(t, "set")
  /\ fsm' = [fsm EXCEPT !.state = CHOOSE s \in Arg(t) : TRUE]
  /\ Next1(t)
  /\ UNCHANGED <<asked, queued, crossed, cut, errors>>

UpdateData(t) ==
  /\ Doing(t, "put")
  /\ fsm' = [fsm EXCEPT !.data = @ \cup Arg(t)]
  /\ asked' = IF Arg(t) = {"count"} THEN asked + 1 ELSE asked
  /\ Next1(t)
  /\ UNCHANGED <<queued, crossed, cut, errors>>

\* A key that is not there raises, before any try.
GetData(t) ==
  /\ Doing(t, "need")
  /\ todo' = [todo EXCEPT ![t] = IF Arg(t) \subseteq fsm.data THEN Tail(@)
                                                              ELSE << >>]
  /\ UNCHANGED <<fsm, asked, queued, crossed, cut, errors>>

ClearState(t) ==
  /\ Doing(t, "clear")
  /\ fsm' = [state |-> "none", data |-> {}]
  /\ Next1(t)
  /\ UNCHANGED <<asked, queued, crossed, cut, errors>>

\* The posts are queued, or nothing is found or an exception is told to the
\* user: the finally block follows in any case.
QueuePosts(t) ==
  /\ Doing(t, "queue")
  /\ queued' \in {queued, queued + 1}
  /\ Next1(t)
  /\ UNCHANGED <<fsm, asked, crossed, cut, errors>>

\* A call raises where no finally follows: the rest is not done.
Abort(t) ==
  /\ Busy(t) /\ ~Doing(t, "queue")
  /\ errors < MaxErrors
  /\ errors' = errors + 1
  /\ Drop(t)
  /\ cut' = (cut \/ Doing(t, "clear"))
  /\ UNCHANGED <<fsm, asked, queued, crossed>>

\* The bot dies; the dialogue is in Redis.
DialogueCrash ==
  /\ todo' = [t \in Tasks |-> << >>]
  /\ cut' = (cut \/ \E t \in Tasks : Doing(t, "clear"))
  /\ UNCHANGED <<fsm, asked, queued, crossed, errors>>

DialogueStep(t) ==
  SetState(t) \/ UpdateData(t) \/ GetData(t) \/ ClearState(t) \/ QueuePosts(t)

-----------------------------------------------------------------------------
(* Properties *)

\* A question is open only when the answers before it are stored, whatever
\* raises and wherever the bot dies, unless two handlers of the chat overlapped
\* (a late clear of one dialogue wipes the answers of the next).
QuestionsHaveAnswers ==
  ~crossed =>
    /\ fsm.state \in {"count", "sort"} => "subreddit" \in fsm.data
    /\ fsm.state = "sort" => "count" \in fsm.data
    /\ fsm.state = "confirm" => "msg" \in fsm.data

\* One dialogue queues its posts once, unless two presses of its buttons
\* overlapped or the dialogue could not be closed after the queueing.
QueuedOncePerDialogue == ~crossed /\ ~cut => queued <= asked
=============================================================================
