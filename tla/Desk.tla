-------------------------------- MODULE Desk --------------------------------
(***************************************************************************)
(* The bot process: updates of one admin's account go through the front    *)
(* door, and then press switches, or open and answer dialogues, one of     *)
(* which hands a file to the cookie store.                                 *)
(***************************************************************************)
EXTENDS FrontDoor, Dialogues, CookieStore

\* The task that handles an update also runs its dialogue and its upload.
ASSUME DeskAssumption == Tasks = Handlers /\ Uploaders = Handlers

\* The updates a handler answers by a dialogue.
DialogueKinds == {"reddit", "text", "document", "sort", "add proxy", "cookies",
                  "broadcast", "send"}

vars == <<doorVars, dialogueVars, storeVars>>

TypeOK == DoorTypeOK /\ DialogueTypeOK /\ StoreTypeOK

Init == DoorInit /\ DialogueInit /\ StoreInit

\* Polling takes updates while the bot is up.
ArriveStep(h, kind) ==
  /\ bot = "up"
  /\ Arrive(h, kind)
  /\ UNCHANGED <<dialogueVars, storeVars>>

DoorOnly(h) == DoorStep(h) /\ UNCHANGED <<dialogueVars, storeVars>>

\* The routers in their order: the state decides who takes the update.
Route(h) ==
  /\ At(h, "handle")
  /\ handler[h].kind \in DialogueKinds
  /\ Open(h, handler[h].kind)
  /\ Goto(h, "body")
  /\ UNCHANGED <<user, lock, panel, counter, served, ruling, torn, arrivals,
                 rulings, mix, storeVars>>

DialogueOnly(h) == DialogueStep(h) /\ UNCHANGED <<doorVars, storeVars>>

\* handle_cookie_up_finish: save_cookie_file, to its end.
StartSave(h) ==
  /\ Doing(h, "save")
  /\ TakeName(h)
  /\ UNCHANGED <<doorVars, dialogueVars>>

SaveOnly(h) ==
  /\ Doing(h, "save")
  /\ WriteFile(h) \/ Begin(h)
  /\ UNCHANGED <<doorVars, dialogueVars>>

\* An error of the disk is told to the admin; one of the database ends the
\* handler, before it clears the dialogue.
SaveEnds(h) ==
  /\ Doing(h, "save")
  /\ \/ (Commit(h) \/ WriteFails(h)) /\ Next1(h)
     \/ SessionFails(h) /\ Drop(h)
  /\ UNCHANGED <<doorVars, fsm, asked, queued, crossed, cut, errors>>

\* A file that is not cookies, or cookies that have expired.
SaveRefused(h) ==
  /\ Doing(h, "save")
  /\ upload[h].pc = "none"
  /\ Next1(h)
  /\ UNCHANGED <<doorVars, storeVars, fsm, asked, queued, crossed, cut, errors>>

AbortOnly(h) ==
  /\ upload[h].pc = "none"
  /\ Abort(h)
  /\ UNCHANGED <<doorVars, storeVars>>

Finish(h) ==
  /\ At(h, "body")
  /\ ~Busy(h)
  /\ End(h)
  /\ UNCHANGED <<user, lock, panel, counter, served, ruling, torn, arrivals,
                 rulings, mix, dialogueVars, storeVars>>

Crash == DoorCrash /\ DialogueCrash /\ StoreCrash

Start == Discover /\ UNCHANGED <<doorVars, dialogueVars>>

RuleOnly(ban) == Rule(ban) /\ UNCHANGED <<dialogueVars, storeVars>>

\* The second matters to uploads only.
TickOnly ==
  /\ \E h \in Handlers : Doing(h, "save")
  /\ Tick
  /\ UNCHANGED <<doorVars, dialogueVars>>

HandlerStep(h) ==
  \/ DoorOnly(h) \/ Route(h) \/ DialogueOnly(h)
  \/ StartSave(h) \/ SaveOnly(h) \/ SaveEnds(h) \/ Finish(h)

Next ==
  \/ \E h \in Handlers :
       \/ \E kind \in Kinds : ArriveStep(h, kind)
       \/ HandlerStep(h) \/ SaveRefused(h) \/ AbortOnly(h)
  \/ \E ban \in BOOLEAN : RuleOnly(ban)
  \/ TickOnly \/ Crash \/ Start

Spec == Init /\ [][Next]_vars

\* The event loop and the database run every handler that can go on.
FairSpec == Spec /\ \A h \in Handlers : WF_vars(HandlerStep(h))

\* Every update is dealt with: no handler waits for ever for the row another
\* one has locked.
UpdatesEnd == \A h \in Handlers : handler[h].pc # "idle" ~> handler[h].pc = "idle"
=============================================================================
