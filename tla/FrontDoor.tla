----------------------------- MODULE FrontDoor -----------------------------
(***************************************************************************)
(* What every update of one account passes before its handler runs:        *)
(* middleware/auth.py and middleware/rate_limit.py, in the order main.py   *)
(* registers them.  And the handlers that work on the account's own row:   *)
(* the switches of handlers/settings.py, and the ban and unban buttons of  *)
(* the admin panel.  Updates are handled concurrently, each by a task of   *)
(* the event loop.  The other handlers are added by Desk.                  *)
(***************************************************************************)
EXTENDS Naturals

CONSTANTS
  Handlers,    \* the tasks that handle updates
  Kinds,       \* kinds of updates
  Toggles,     \* those that press a switch of the settings, named as its field
  Requests,    \* those that ask for a download
  Configured,  \* is the account one of BOT__ADMIN_IDS?
  EventClass,  \* class of the events the middlewares get: "Update"
  Limit,       \* downloads in a window
  Mixes,       \* bound: the kinds of updates that come in one behaviour, "ban"
               \* and "unban" for what another admin presses, and how many
  MaxRulings,  \* bound: bans and unbans
  None         \* no row, no task

ASSUME DoorAssumption ==
  /\ Toggles \subseteq Kinds /\ Requests \subseteq Kinds
  /\ Mixes \subseteq [kinds : SUBSET (Kinds \cup {"ban", "unban"}), most : Nat]
  /\ Configured \in BOOLEAN
  /\ Limit \in Nat /\ MaxRulings \in Nat

VARIABLES
  user,      \* the row of users with that of user_settings
  handler,   \* what each task is doing
  lock,      \* the task whose transaction holds the settings row
  panel,     \* the switches as the settings panel shows them: one message, sent
             \* before the first press
  counter,   \* the key of the limiter in Redis
  served,    \* history: download requests let through; all in one window
  ruling,    \* history: what an admin last decided, TRUE for a ban
  torn,      \* history: the panel was edited by a transaction that did not
             \* commit, and none has committed since
  arrivals,  \* for Mixes
  rulings,   \* for MaxRulings
  mix        \* for Mixes

doorVars == <<user, handler, lock, panel, counter, served, ruling, torn,
              arrivals, rulings, mix>>

\* on: the switches turned away from their defaults.
User    == [banned : BOOLEAN, admin : BOOLEAN, on : SUBSET Toggles]
Handler == [pc : {"idle", "read", "insert", "write", "limit", "handle", "edit",
                  "commit", "body"},
            kind : Kinds \cup {None},
            seen : User \cup {None},  \* db_user, as the middleware loaded it
            barred : BOOLEAN]         \* history: it came from a banned account

ASSUME NoneIsNoOther == None \notin User \cup Handlers

Idle == [pc |-> "idle", kind |-> None, seen |-> None, barred |-> FALSE]

DoorTypeOK ==
  /\ user \in User \cup {None}
  /\ handler \in [Handlers -> Handler]
  /\ lock \in Handlers \cup {None}
  /\ panel \subseteq Toggles
  /\ counter \in Nat /\ served \in Nat
  /\ ruling \in BOOLEAN /\ torn \in BOOLEAN
  /\ arrivals \in 0 .. mix.most /\ rulings \in 0 .. MaxRulings
  /\ mix \in Mixes

DoorInit ==
  /\ user = None
  /\ handler = [h \in Handlers |-> Idle]
  /\ lock = None /\ panel = {}
  /\ counter = 0 /\ served = 0
  /\ ruling = FALSE /\ torn = FALSE
  /\ arrivals = 0 /\ rulings = 0
  /\ mix \in Mixes

At(h, pc)   == handler[h].pc = pc
Goto(h, pc) == handler' = [handler EXCEPT ![h].pc = pc]
End(h)      == handler' = [handler EXCEPT ![h] = Idle]

\* A switch can only be pressed on a panel that was sent.  (/settings sends a
\* further one, drawn from the copy of the middleware; no button has the
\* callback settings:main.)
Arrive(h, kind) ==
  /\ At(h, "idle")
  /\ arrivals < mix.most
  /\ kind \in mix.kinds
  /\ kind \in Toggles => user # None
  /\ arrivals' = arrivals + 1
  /\ handler' = [handler EXCEPT ![h] = [Idle EXCEPT !.pc = "read", !.kind = kind,
                                                    !.barred = ruling]]
  /\ UNCHANGED <<user, lock, panel, counter, served, ruling, torn, rulings, mix>>

-----------------------------------------------------------------------------
(* AuthMiddleware *)

\* upsert_user: the SELECT.
Read(h) ==
  /\ At(h, "read")
  /\ handler' = [handler EXCEPT ![h].pc = IF user = None THEN "insert" ELSE "write",
                                ![h].seen = user]
  /\ UNCHANGED <<user, lock, panel, counter, served, ruling, torn, arrivals, rulings,
                 mix>>

NewUser == [banned |-> FALSE, admin |-> Configured, on |-> {}]

\* The INSERTs of the user and of the settings, one transaction.  A second
\* first message waits for the index entry of the first and then violates
\* the unique telegram_id: its update is lost.
Insert(h) ==
  /\ At(h, "insert")
  /\ IF user = None
       THEN /\ user' = NewUser
            /\ handler' = [handler EXCEPT ![h].pc = "limit", ![h].seen = NewUser]
       ELSE End(h) /\ UNCHANGED user
  /\ UNCHANGED <<lock, panel, counter, served, ruling, torn, arrivals, rulings,
                 mix>>

\* Mistake: the whole row is written back.
WholeRow(row, seen) == [seen EXCEPT !.admin = @ \/ Configured]

\* The UPDATE at the commit: names and last_seen_at, is_admin when promoted, and
\* no column that did not change.
Touched(row, seen) == [row EXCEPT !.admin = @ \/ Configured]

\* The commit, and the look at is_banned.
Write(h) ==
  /\ At(h, "write")
  /\ user' = Touched(user, handler[h].seen)
  /\ IF handler[h].seen.banned
       THEN End(h)
       ELSE handler' = [handler EXCEPT ![h].pc = "limit",
                                       ![h].seen = Touched(@, @)]
  /\ UNCHANGED <<lock, panel, counter, served, ruling, torn, arrivals, rulings,
                 mix>>

-----------------------------------------------------------------------------
(* RateLimitMiddleware *)

\* check_rate_limit is asked about messages of users who are no admins.  The
\* middleware is registered for updates, and an Update is no Message.
Asked(h) ==
  /\ EventClass = "Message"
  /\ handler[h].kind \in Requests
  /\ ~handler[h].seen.admin

\* RATE_LIMIT_LUA: INCR; a refused request counts too.
Counted(h) == IF Asked(h) THEN counter + 1 ELSE counter

\* check_rate_limit
Allowed(h) == Asked(h) => Counted(h) <= Limit

LimitRequests(h) ==
  /\ At(h, "limit")
  /\ counter' = Counted(h)
  /\ IF Allowed(h)
       THEN /\ Goto(h, "handle")
            /\ served' = IF handler[h].kind \in Requests THEN served + 1
                                                         ELSE served
       ELSE End(h) /\ UNCHANGED served
  /\ UNCHANGED <<user, lock, panel, ruling, torn, arrivals, rulings,
                 mix>>

-----------------------------------------------------------------------------
(* handle_toggle *)

\* The switches inside the transaction: new_val is the opposite of what the
\* middleware loaded.
Changed(h) ==
  LET k == handler[h].kind
  IN  IF k \in handler[h].seen.on THEN user.on \ {k} ELSE user.on \cup {k}

\* Mistake: the panel from the copy of the middleware.
RenderedFromCopy(h) ==
  LET k == handler[h].kind
  IN  IF k \in handler[h].seen.on THEN handler[h].seen.on \ {k}
                                  ELSE handler[h].seen.on \cup {k}

\* The panel from the user loaded again, in the transaction.
Rendered(h) == Changed(h)

\* update_user_settings: one column, and the row is locked.
ToggleUpdate(h) ==
  /\ At(h, "handle")
  /\ handler[h].kind \in Toggles
  /\ lock = None
  /\ lock' = h
  /\ Goto(h, "edit")
  /\ UNCHANGED <<user, panel, counter, served, ruling, torn, arrivals, rulings,
                 mix>>

\* edit_text; an edit that changes nothing is an error.
ToggleEdit(h) ==
  /\ At(h, "edit")
  /\ Rendered(h) # panel
  /\ panel' = Rendered(h)
  /\ Goto(h, "commit")
  /\ UNCHANGED <<user, lock, counter, served, ruling, torn, arrivals, rulings,
                 mix>>

\* Mistake: the transaction is left open.
LeftOpen(h) == UNCHANGED lock

\* get_db: rollback.
RolledBack(h) == lock' = None

\* edit_text raises: the edit is refused, for changing nothing or for any other
\* reason, or it is made and its reply is lost.
ToggleEditFails(h) ==
  /\ At(h, "edit")
  /\ panel' \in {panel, Rendered(h)}
  /\ torn' = (torn \/ panel' # panel)
  /\ End(h)
  /\ RolledBack(h)
  /\ UNCHANGED <<user, counter, served, ruling, arrivals, rulings, mix>>

ToggleCommit(h) ==
  /\ At(h, "commit")
  /\ user' = [user EXCEPT !.on = Changed(h)]
  /\ lock' = None
  /\ torn' = FALSE
  /\ End(h)
  /\ UNCHANGED <<panel, counter, served, ruling, arrivals, rulings,
                 mix>>

\* get_db: the commit raises, after the panel was edited.  (One that is made and
\* whose reply is lost is a ToggleCommit.)
ToggleCommitFails(h) ==
  /\ At(h, "commit")
  /\ torn' = TRUE
  /\ End(h)
  /\ RolledBack(h)
  /\ UNCHANGED <<user, panel, counter, served, ruling, arrivals, rulings, mix>>

-----------------------------------------------------------------------------
\* handle_ban and handle_unban of another admin: set_user_ban.
Rule(ban) ==
  /\ user # None
  /\ (IF ban THEN "ban" ELSE "unban") \in mix.kinds
  /\ rulings < MaxRulings
  /\ rulings' = rulings + 1
  /\ user' = [user EXCEPT !.banned = ban]
  /\ ruling' = ban
  /\ handler' = IF ban THEN handler
                ELSE [h \in Handlers |-> [handler[h] EXCEPT !.barred = FALSE]]
  /\ UNCHANGED <<lock, panel, counter, served, torn, arrivals, mix>>

\* The bot dies: its tasks are gone and its transactions are rolled back.
DoorCrash ==
  /\ handler' = [h \in Handlers |-> Idle]
  /\ lock' = None
  /\ torn' = (torn \/ \E h \in Handlers : At(h, "commit"))
  /\ UNCHANGED <<user, panel, counter, served, ruling, arrivals, rulings,
                 mix>>

DoorStep(h) ==
  \/ Read(h) \/ Insert(h) \/ Write(h) \/ LimitRequests(h)
  \/ ToggleUpdate(h) \/ ToggleEdit(h) \/ ToggleEditFails(h)
  \/ ToggleCommit(h) \/ ToggleCommitFails(h)

-----------------------------------------------------------------------------
(* Properties *)

\* An update that arrives after the ban of its account reaches no handler, and
\* the record of another update under way does not undo the ban.
BannedIsNotServed ==
  \A h \in Handlers :
    handler[h].pc \in {"limit", "handle", "edit", "commit", "body"} =>
      ~handler[h].barred

Differing(a, b) == (a \ b) \cup (b \ a)

\* Whatever presses overlap and fail, the panel is wrong about one switch at most:
\* it is drawn from the row as the transaction reads it under its lock.  And it
\* shows the row whenever no transaction is changing it, unless one edited the
\* panel and did not commit (the edit's reply lost, the commit failed, the bot
\* dead) and none has committed since.
PanelMatchesRow ==
  user # None =>
    /\ \A k, l \in Differing(panel, user.on) : k = l
    /\ lock = None /\ ~torn => panel = user.on

\* No window lets more downloads through than the limit, for an account that is
\* no admin's ("Middleware to enforce rate limits on download requests").
LimitHolds == ~Configured => served <= Limit
=============================================================================
