----------------------------- MODULE DeskProofs -----------------------------
(* The front door and the cookie store of Desk, for any number of tasks, any *)
(* mix of updates and any number of files.                                  *)
EXTENDS DialogueProofs, FiniteSetTheorems, SequenceTheorems

(* What a step of Desk does to the front door.                              *)
Otherwise == UNCHANGED <<user, lock, panel, counter, served, ruling, torn, arrivals,
                         rulings, mix>>

DoorEffect ==
  \/ UNCHANGED doorVars
  \/ \E h \in Handlers : DoorStep(h) \/ \E kind \in Kinds : Arrive(h, kind)
  \/ \E h \in Handlers : At(h, "handle") /\ Goto(h, "body") /\ Otherwise
  \/ \E h \in Handlers : At(h, "body") /\ End(h) /\ Otherwise
  \/ \E ban \in BOOLEAN : Rule(ban)
  \/ DoorCrash

LEMMA NextDoorEffect ==
  ASSUME [Next]_vars
  PROVE  DoorEffect
<1>1. CASE UNCHANGED vars
      BY <1>1 DEF vars, DoorEffect
<1>2. ASSUME NEW h \in Handlers, HandlerStep(h)
      PROVE  DoorEffect
  <2>1. CASE DoorOnly(h)
        BY <2>1 DEF DoorOnly, DoorEffect
  <2>2. CASE Route(h) \/ Finish(h)
        BY <2>2 DEF Route, Finish, DoorEffect, Otherwise
  <2>3. CASE DialogueOnly(h) \/ StartSave(h) \/ SaveOnly(h) \/ SaveEnds(h)
        BY <2>3 DEF DialogueOnly, StartSave, SaveOnly, SaveEnds, DoorEffect
  <2> QED BY <1>2, <2>1, <2>2, <2>3 DEF HandlerStep
<1>3. ASSUME NEW h \in Handlers,
             SaveRefused(h) \/ AbortOnly(h) \/ \E kind \in Kinds : ArriveStep(h, kind)
      PROVE  DoorEffect
      BY <1>3 DEF SaveRefused, AbortOnly, ArriveStep, DoorEffect
<1>4. CASE (\E ban \in BOOLEAN : RuleOnly(ban)) \/ TickOnly \/ Crash \/ Start
      BY <1>4 DEF RuleOnly, TickOnly, Crash, Start, DoorEffect
<1> QED BY <1>1, <1>2, <1>3, <1>4 DEF Next

-----------------------------------------------------------------------------
(* Types of the front door                                                  *)

(* A handler past upsert_user has the row, as it loaded it, and a handler   *)
(* of a switch names one.                                                   *)
HandlerTyped(h) ==
  /\ handler[h] \in Handler
  /\ handler[h].pc \notin {"idle", "read", "insert"} =>
       handler[h].seen \in User /\ user \in User
  /\ handler[h].pc # "idle" => handler[h].kind \in Kinds
  /\ handler[h].pc \in {"edit", "commit"} => handler[h].kind \in Toggles

DoorTypes == DoorTypeOK /\ \A h \in Handlers : HandlerTyped(h)

(* The step of one task leaves the others where they are.                   *)
LEMMA OneHandler ==
  ASSUME DoorTypes, NEW h \in Handlers, NEW r \in Handler,
         handler' = [handler EXCEPT ![h] = r]
  PROVE  /\ handler' \in [Handlers -> Handler]
         /\ handler'[h] = r
         /\ \A g \in Handlers \ {h} : handler'[g] = handler[g]
  BY DEF DoorTypes, DoorTypeOK

LEMMA IdleTyped == Idle \in Handler
  BY DEF Idle, Handler

LEMMA NewUserTyped == NewUser \in User
  BY DoorAssumption DEF NewUser, User

LEMMA TouchedTyped ==
  ASSUME NEW row \in User, NEW seen
  PROVE  /\ Touched(row, seen) \in User
         /\ Touched(row, seen).banned = row.banned
         /\ Touched(row, seen).on = row.on
<1>1. (row.admin \/ Configured) \in BOOLEAN
      OBVIOUS
<1> QED BY <1>1 DEF Touched, User

LEMMA ChangedTyped ==
  ASSUME NEW h \in Handlers, user \in User, handler[h].kind \in Toggles
  PROVE  Changed(h) \subseteq Toggles
  BY DEF Changed, User

Pcs == {"idle", "read", "insert", "write", "limit", "handle", "edit", "commit", "body"}

(* A task goes on to p, with the row s.                                     *)
Moves(h, p, s) == handler' = [handler EXCEPT ![h].pc = p, ![h].seen = s]

LEMMA MoveEffect ==
  ASSUME DoorTypes, NEW h \in Handlers, NEW p \in Pcs, NEW s \in User \cup {None},
         Moves(h, p, s)
  PROVE  /\ handler' \in [Handlers -> Handler]
         /\ handler'[h].pc = p /\ handler'[h].seen = s
         /\ handler'[h].kind = handler[h].kind /\ handler'[h].barred = handler[h].barred
         /\ \A g \in Handlers \ {h} : handler'[g] = handler[g]
<1>1. handler[h] \in Handler
      BY DEF DoorTypes, HandlerTyped
<1>2. [handler[h] EXCEPT !.pc = p, !.seen = s] \in Handler
      BY <1>1 DEF Handler, Pcs
<1>3. handler' = [handler EXCEPT ![h] = [handler[h] EXCEPT !.pc = p, !.seen = s]]
      BY DEF DoorTypes, DoorTypeOK, Moves
<1>4. /\ handler' \in [Handlers -> Handler]
      /\ handler'[h] = [handler[h] EXCEPT !.pc = p, !.seen = s]
      /\ \A g \in Handlers \ {h} : handler'[g] = handler[g]
      BY <1>2, <1>3, OneHandler
<1> QED BY <1>1, <1>4 DEF Handler

LEMMA GotoEffect ==
  ASSUME DoorTypes, NEW h \in Handlers, NEW p \in Pcs, Goto(h, p)
  PROVE  /\ handler' \in [Handlers -> Handler]
         /\ handler'[h].pc = p /\ handler'[h].seen = handler[h].seen
         /\ handler'[h].kind = handler[h].kind /\ handler'[h].barred = handler[h].barred
         /\ \A g \in Handlers \ {h} : handler'[g] = handler[g]
<1>1. handler[h] \in Handler
      BY DEF DoorTypes, HandlerTyped
<1>2. [handler[h] EXCEPT !.pc = p] \in Handler
      BY <1>1 DEF Handler, Pcs
<1>3. handler' = [handler EXCEPT ![h] = [handler[h] EXCEPT !.pc = p]]
      BY DEF DoorTypes, DoorTypeOK, Goto
<1>4. /\ handler' \in [Handlers -> Handler]
      /\ handler'[h] = [handler[h] EXCEPT !.pc = p]
      /\ \A g \in Handlers \ {h} : handler'[g] = handler[g]
      BY <1>2, <1>3, OneHandler
<1> QED BY <1>1, <1>4 DEF Handler

LEMMA EndEffect ==
  ASSUME DoorTypes, NEW h \in Handlers, End(h)
  PROVE  /\ handler' \in [Handlers -> Handler]
         /\ handler'[h] = Idle
         /\ \A g \in Handlers \ {h} : handler'[g] = handler[g]
  BY IdleTyped, OneHandler DEF End

LEMMA IdleIsIdle == Idle.pc = "idle" /\ Idle.barred = FALSE
  BY DEF Idle

(* What is left of the type correctness of a step once the tasks are typed: *)
(* the row does not vanish.                                                 *)
LEMMA DoorTypesAfter ==
  ASSUME DoorTypes, NEW h \in Handlers,
         handler' \in [Handlers -> Handler],
         \A g \in Handlers \ {h} : handler'[g] = handler[g],
         user' \in User \/ user' = user,
         HandlerTyped(h)',
         user' \in User \cup {None}, lock' \in Handlers \cup {None},
         panel' \subseteq Toggles, counter' \in Nat, served' \in Nat,
         ruling' \in BOOLEAN, torn' \in BOOLEAN,
         arrivals' \in 0 .. mix'.most, rulings' \in 0 .. MaxRulings, mix' \in Mixes
  PROVE  DoorTypes'
<1>1. ASSUME NEW g \in Handlers \ {h} PROVE HandlerTyped(g)'
  <2>1. HandlerTyped(g)
        BY DEF DoorTypes
  <2> QED BY <2>1 DEF HandlerTyped
<1> QED BY <1>1 DEF DoorTypes, DoorTypeOK

LEMMA DoorTypesStep ==
  ASSUME DoorTypes, NEW h \in Handlers, DoorStep(h)
  PROVE  DoorTypes'
<1> USE DEF At
<1>0. HandlerTyped(h) /\ DoorTypeOK /\ None \in Handlers \cup {None}
      BY DEF DoorTypes
<1>1. CASE Read(h)
  <2>1. PICK p \in Pcs : /\ p = (IF user = None THEN "insert" ELSE "write")
                         /\ Moves(h, p, user)
        BY <1>1 DEF Read, Pcs, Moves
  <2>2. user \in User \cup {None}
        BY <1>0 DEF DoorTypeOK
  <2>3. HandlerTyped(h)'
    <3>1. handler'[h].pc = p /\ handler'[h].seen = user /\ user' = user
          BY <1>1, <2>1, <2>2, MoveEffect DEF Read
    <3>2. handler'[h] \in Handler /\ handler'[h].kind \in Kinds
          BY <1>0, <1>1, <2>1, <2>2, MoveEffect DEF Read, HandlerTyped
    <3>3. p \notin {"edit", "commit"}
          BY <2>1
    <3>4. p = "insert" \/ user \in User
          BY <2>1, <2>2
    <3> QED BY <3>1, <3>2, <3>3, <3>4 DEF HandlerTyped
  <2> QED BY <1>0, <1>1, <2>1, <2>2, <2>3, MoveEffect, DoorTypesAfter DEF Read, DoorTypeOK
<1>2. CASE Insert(h)
  <2>1. CASE user = None
    <3>1. /\ user' = NewUser
          /\ Moves(h, "limit", NewUser)
          BY <1>2, <2>1 DEF Insert, Moves
    <3>2. "limit" \in Pcs
          BY DEF Pcs
    <3>3. HandlerTyped(h)'
      <4>1. /\ handler'[h].pc = "limit" /\ handler'[h].seen = NewUser
            /\ handler'[h] \in Handler /\ handler'[h].kind = handler[h].kind
            BY <3>1, <3>2, MoveEffect, NewUserTyped
      <4>2. handler[h].kind \in Kinds
            BY <1>0, <1>2 DEF Insert, HandlerTyped
      <4> QED BY <3>1, <4>1, <4>2, NewUserTyped DEF HandlerTyped
    <3> QED BY <1>0, <1>2, <3>1, <3>2, <3>3, MoveEffect, NewUserTyped, DoorTypesAfter
            DEF Insert, DoorTypeOK
  <2>2. CASE user # None
    <3>1. End(h) /\ UNCHANGED user
          BY <1>2, <2>2 DEF Insert
    <3>2. HandlerTyped(h)'
          BY <3>1, EndEffect, IdleIsIdle, IdleTyped DEF HandlerTyped
    <3> QED BY <1>0, <1>2, <3>1, <3>2, EndEffect, DoorTypesAfter DEF Insert, DoorTypeOK
  <2> QED BY <2>1, <2>2
<1>3. CASE Write(h)
  <2>1. handler[h].seen \in User /\ user \in User
        BY <1>0, <1>3 DEF Write, HandlerTyped
  <2>2. user' \in User
        BY <1>3, <2>1, TouchedTyped DEF Write
  <2>3. CASE handler[h].seen.banned
    <3>1. End(h)
          BY <1>3, <2>3 DEF Write
    <3>2. HandlerTyped(h)'
          BY <3>1, EndEffect, IdleIsIdle, IdleTyped DEF HandlerTyped
    <3> QED BY <1>0, <1>3, <2>2, <3>1, <3>2, EndEffect, DoorTypesAfter DEF Write, DoorTypeOK
  <2>4. CASE ~handler[h].seen.banned
    <3>1. PICK s \in User : Moves(h, "limit", s)
      <4>1. Moves(h, "limit", Touched(handler[h].seen, handler[h].seen))
            BY <1>0, <1>3, <2>4 DEF Write, DoorTypeOK, Moves
      <4> QED BY <2>1, <4>1, TouchedTyped
    <3>2. "limit" \in Pcs
          BY DEF Pcs
    <3>3. HandlerTyped(h)'
      <4>1. /\ handler'[h].pc = "limit" /\ handler'[h].seen = s
            /\ handler'[h] \in Handler /\ handler'[h].kind = handler[h].kind
            BY <3>1, <3>2, MoveEffect
      <4>2. handler[h].kind \in Kinds
            BY <1>0, <1>3 DEF Write, HandlerTyped
      <4> QED BY <2>2, <3>1, <4>1, <4>2 DEF HandlerTyped
    <3> QED BY <1>0, <1>3, <2>2, <3>1, <3>2, <3>3, MoveEffect, DoorTypesAfter
            DEF Write, DoorTypeOK
  <2> QED BY <2>3, <2>4
<1>4. CASE LimitRequests(h)
  <2>1. counter' \in Nat /\ served' \in Nat
        BY <1>0, <1>4 DEF LimitRequests, Counted, DoorTypeOK
  <2>2. CASE Goto(h, "handle")
    <3>1. "handle" \in Pcs
          BY DEF Pcs
    <3>2. HandlerTyped(h)'
          BY <1>0, <1>4, <2>2, <3>1, GotoEffect DEF LimitRequests, HandlerTyped
    <3> QED BY <1>0, <1>4, <2>1, <2>2, <3>1, <3>2, GotoEffect, DoorTypesAfter
            DEF LimitRequests, DoorTypeOK
  <2>3. CASE End(h)
    <3>2. HandlerTyped(h)'
          BY <2>3, EndEffect, IdleIsIdle, IdleTyped DEF HandlerTyped
    <3> QED BY <1>0, <1>4, <2>1, <2>3, <3>2, EndEffect, DoorTypesAfter
            DEF LimitRequests, DoorTypeOK
  <2> QED BY <1>4, <2>2, <2>3 DEF LimitRequests
<1>5. CASE ToggleUpdate(h)
  <2>1. "edit" \in Pcs
        BY DEF Pcs
  <2>2. HandlerTyped(h)'
        BY <1>0, <1>5, <2>1, GotoEffect DEF ToggleUpdate, HandlerTyped
  <2> QED BY <1>0, <1>5, <2>1, <2>2, GotoEffect, DoorTypesAfter DEF ToggleUpdate, DoorTypeOK
<1>6. CASE ToggleEdit(h)
  <2>1. "commit" \in Pcs
        BY DEF Pcs
  <2>2. HandlerTyped(h)'
        BY <1>0, <1>6, <2>1, GotoEffect DEF ToggleEdit, HandlerTyped
  <2>3. panel' \subseteq Toggles
        BY <1>0, <1>6, ChangedTyped DEF ToggleEdit, Rendered, HandlerTyped
  <2> QED BY <1>0, <1>6, <2>1, <2>2, <2>3, GotoEffect, DoorTypesAfter
          DEF ToggleEdit, DoorTypeOK
<1>7. CASE ToggleEditFails(h)
  <2>1. HandlerTyped(h)'
        BY <1>7, EndEffect, IdleIsIdle, IdleTyped DEF ToggleEditFails, HandlerTyped
  <2>2. panel' \subseteq Toggles
    <3>1. Changed(h) \subseteq Toggles
          BY <1>0, <1>7, ChangedTyped DEF ToggleEditFails, HandlerTyped
    <3>2. panel' = panel \/ panel' = Changed(h)
          BY <1>7 DEF ToggleEditFails, Rendered
    <3> QED BY <3>1, <3>2 DEF DoorTypes, DoorTypeOK
  <2>3. torn' \in BOOLEAN
        BY <1>7, Zenon DEF ToggleEditFails
  <2> QED BY <1>0, <1>7, <2>1, <2>2, <2>3, EndEffect, DoorTypesAfter
          DEF ToggleEditFails, RolledBack, DoorTypeOK
<1>8. CASE ToggleCommit(h)
  <2>1. HandlerTyped(h)'
        BY <1>8, EndEffect, IdleIsIdle, IdleTyped DEF ToggleCommit, HandlerTyped
  <2>2. user' \in User
    <3>1. user \in User /\ Changed(h) \subseteq Toggles
          BY <1>0, <1>8, ChangedTyped DEF ToggleCommit, HandlerTyped
    <3> QED BY <1>8, <3>1 DEF ToggleCommit, User
  <2> QED BY <1>0, <1>8, <2>1, <2>2, EndEffect, DoorTypesAfter DEF ToggleCommit, DoorTypeOK
<1>9. CASE ToggleCommitFails(h)
  <2>1. HandlerTyped(h)'
        BY <1>9, EndEffect, IdleIsIdle, IdleTyped DEF ToggleCommitFails, HandlerTyped
  <2> QED BY <1>0, <1>9, <2>1, EndEffect, DoorTypesAfter
          DEF ToggleCommitFails, RolledBack, DoorTypeOK
<1> QED BY <1>1, <1>2, <1>3, <1>4, <1>5, <1>6, <1>7, <1>8, <1>9 DEF DoorStep

LEMMA DoorTypesKept ==
  ASSUME DoorTypes, DoorEffect
  PROVE  DoorTypes'
<1>0. DoorTypeOK /\ \A h \in Handlers : HandlerTyped(h)
      BY DEF DoorTypes
<1>1. CASE UNCHANGED doorVars
      BY <1>1 DEF doorVars, DoorTypes, DoorTypeOK, HandlerTyped
<1>2. ASSUME NEW h \in Handlers, DoorStep(h)
      PROVE  DoorTypes'
      BY <1>2, DoorTypesStep
<1>3. ASSUME NEW h \in Handlers, NEW kind \in Kinds, Arrive(h, kind)
      PROVE  DoorTypes'
  <2>1. PICK r \in Handler : /\ handler' = [handler EXCEPT ![h] = r]
                             /\ r.pc = "read" /\ r.kind = kind
    <3>1. [Idle EXCEPT !.pc = "read", !.kind = kind, !.barred = ruling] \in Handler
          BY <1>0, IdleTyped DEF Handler, DoorTypeOK
    <3>2. /\ [Idle EXCEPT !.pc = "read", !.kind = kind, !.barred = ruling].pc = "read"
          /\ [Idle EXCEPT !.pc = "read", !.kind = kind, !.barred = ruling].kind = kind
          BY DEF Idle
    <3> QED BY <1>3, <3>1, <3>2 DEF Arrive
  <2>2. HandlerTyped(h)'
        BY <2>1, OneHandler DEF HandlerTyped
  <2>3. arrivals' \in 0 .. mix'.most
    <3>1. mix.most \in Nat
          BY <1>0, DoorAssumption DEF DoorTypeOK
    <3> QED BY <1>0, <1>3, <3>1 DEF Arrive, DoorTypeOK
  <2> QED BY <1>0, <1>3, <2>1, <2>2, <2>3, OneHandler, DoorTypesAfter DEF Arrive, DoorTypeOK
<1>4. ASSUME NEW h \in Handlers, At(h, "handle"), Goto(h, "body"), Otherwise
      PROVE  DoorTypes'
  <2>1. "body" \in Pcs
        BY DEF Pcs
  <2>2. HandlerTyped(h)'
        BY <1>0, <1>4, <2>1, GotoEffect DEF Otherwise, HandlerTyped, At
  <2> QED BY <1>0, <1>4, <2>1, <2>2, GotoEffect, DoorTypesAfter DEF Otherwise, DoorTypeOK
<1>5. ASSUME NEW h \in Handlers, At(h, "body"), End(h), Otherwise
      PROVE  DoorTypes'
  <2>1. HandlerTyped(h)'
        BY <1>5, EndEffect, IdleIsIdle, IdleTyped DEF HandlerTyped
  <2> QED BY <1>0, <1>5, <2>1, EndEffect, DoorTypesAfter DEF Otherwise, DoorTypeOK
<1>6. ASSUME NEW ban \in BOOLEAN, Rule(ban)
      PROVE  DoorTypes'
  <2>1. user \in User
        BY <1>0, <1>6 DEF Rule, DoorTypeOK
  <2>2. user' \in User
        BY <1>6, <2>1 DEF Rule, User
  <2>3. \A h \in Handlers : /\ handler'[h] \in Handler
                            /\ handler'[h].pc = handler[h].pc
                            /\ handler'[h].seen = handler[h].seen
                            /\ handler'[h].kind = handler[h].kind
    <3>1. \A r \in Handler : /\ [r EXCEPT !.barred = FALSE] \in Handler
                             /\ [r EXCEPT !.barred = FALSE].pc = r.pc
                             /\ [r EXCEPT !.barred = FALSE].seen = r.seen
                             /\ [r EXCEPT !.barred = FALSE].kind = r.kind
          BY DEF Handler
    <3>2. \A h \in Handlers : \/ handler'[h] = handler[h]
                              \/ handler'[h] = [handler[h] EXCEPT !.barred = FALSE]
          BY <1>6 DEF Rule
    <3> QED BY <1>0, <3>1, <3>2 DEF HandlerTyped
  <2>4. handler' \in [Handlers -> Handler]
    <3>1. \/ handler' = handler
          \/ handler' = [h \in Handlers |-> [handler[h] EXCEPT !.barred = FALSE]]
          BY <1>6 DEF Rule
    <3> QED BY <1>0, <2>3, <3>1 DEF DoorTypeOK
  <2>5. \A h \in Handlers : HandlerTyped(h)'
        BY <1>0, <2>1, <2>2, <2>3 DEF HandlerTyped
  <2>6. rulings' \in 0 .. MaxRulings
        BY <1>0, <1>6, DoorAssumption DEF Rule, DoorTypeOK
  <2> QED BY <1>0, <1>6, <2>2, <2>4, <2>5, <2>6 DEF Rule, DoorTypes, DoorTypeOK
<1>7. CASE DoorCrash
  <2>1. handler' \in [Handlers -> Handler] /\ \A h \in Handlers : handler'[h] = Idle
        BY <1>7, IdleTyped DEF DoorCrash
  <2>2. \A h \in Handlers : HandlerTyped(h)'
        BY <2>1, IdleIsIdle, IdleTyped DEF HandlerTyped
  <2>3. torn' \in BOOLEAN
        BY <1>7, Zenon DEF DoorCrash
  <2> QED BY <1>0, <1>7, <2>1, <2>2, <2>3 DEF DoorCrash, DoorTypes, DoorTypeOK
<1> QED BY <1>1, <1>2, <1>3, <1>4, <1>5, <1>6, <1>7 DEF DoorEffect

-----------------------------------------------------------------------------
(* Bans                                                                     *)

(* An update that came after the ban gets no further than the look at the   *)
(* flag, and the flag it loaded says so.                                    *)
BarredIsStopped(h) ==
  handler[h].barred =>
    /\ ruling
    /\ handler[h].pc \in {"read", "write"}
    /\ handler[h].pc = "write" => handler[h].seen.banned

BanInv ==
  /\ ruling => user \in User /\ user.banned
  /\ \A h \in Handlers : BarredIsStopped(h)

LEMMA BarredAfter ==
  ASSUME BanInv, NEW h \in Handlers,
         \A g \in Handlers \ {h} : handler'[g] = handler[g],
         ruling' = ruling, ruling => user' \in User /\ user'.banned,
         BarredIsStopped(h)'
  PROVE  BanInv'
<1>1. ASSUME NEW g \in Handlers \ {h} PROVE BarredIsStopped(g)'
  <2>1. BarredIsStopped(g)
        BY DEF BanInv
  <2> QED BY <2>1 DEF BarredIsStopped
<1> QED BY <1>1 DEF BanInv

LEMMA BanStep ==
  ASSUME DoorTypes, BanInv, NEW h \in Handlers, DoorStep(h)
  PROVE  BanInv'
<1> USE DEF At
<1>0. BarredIsStopped(h) /\ (ruling => user \in User /\ user.banned)
      BY DEF BanInv
<1>1. HandlerTyped(h) /\ user \in User \cup {None} /\ None \notin User
      BY NoneIsNoOther DEF DoorTypes, DoorTypeOK
<1>2. CASE Read(h)
  <2>1. PICK p \in Pcs : /\ p = (IF user = None THEN "insert" ELSE "write")
                         /\ Moves(h, p, user)
        BY <1>2 DEF Read, Pcs, Moves
  <2>2. /\ handler'[h].pc = p /\ handler'[h].seen = user
        /\ handler'[h].barred = handler[h].barred
        /\ \A g \in Handlers \ {h} : handler'[g] = handler[g]
        BY <1>1, <2>1, MoveEffect
  <2>3. BarredIsStopped(h)'
        BY <1>0, <1>1, <1>2, <2>1, <2>2 DEF Read, BarredIsStopped
  <2> QED BY <1>0, <1>2, <2>2, <2>3, BarredAfter DEF Read
<1>3. CASE Insert(h)
  <2>1. ~handler[h].barred
        BY <1>0, <1>3 DEF Insert, BarredIsStopped
  <2>2. CASE user = None
    <3>1. Moves(h, "limit", NewUser) /\ "limit" \in Pcs /\ ruling' = ruling
          BY <1>3, <2>2 DEF Insert, Moves, Pcs
    <3>2. /\ handler'[h].barred = handler[h].barred
          /\ \A g \in Handlers \ {h} : handler'[g] = handler[g]
          BY <3>1, MoveEffect, NewUserTyped
    <3>3. BarredIsStopped(h)'
          BY <2>1, <3>2 DEF BarredIsStopped
    <3>4. ~ruling
          BY <1>0, <1>1, <2>2
    <3> QED BY <3>1, <3>2, <3>3, <3>4, BarredAfter
  <2>3. CASE user # None
    <3>1. End(h) /\ UNCHANGED <<user, ruling>>
          BY <1>3, <2>3 DEF Insert
    <3>2. BarredIsStopped(h)'
          BY <3>1, EndEffect, IdleIsIdle DEF BarredIsStopped
    <3> QED BY <1>0, <3>1, <3>2, EndEffect, BarredAfter
  <2> QED BY <2>2, <2>3
<1>4. CASE Write(h)
  <2>1. handler[h].seen \in User /\ user \in User
        BY <1>1, <1>4 DEF Write, HandlerTyped
  <2>2. user' \in User /\ user'.banned = user.banned /\ ruling' = ruling
        BY <1>4, <2>1, TouchedTyped DEF Write
  <2>3. CASE handler[h].seen.banned
    <3>1. End(h)
          BY <1>4, <2>3 DEF Write
    <3>2. BarredIsStopped(h)'
          BY <3>1, EndEffect, IdleIsIdle DEF BarredIsStopped
    <3> QED BY <1>0, <2>2, <3>1, <3>2, EndEffect, BarredAfter
  <2>4. CASE ~handler[h].seen.banned
    <3>1. PICK s \in User : Moves(h, "limit", s)
      <4>1. Moves(h, "limit", Touched(handler[h].seen, handler[h].seen))
            BY <1>4, <2>4 DEF Write, DoorTypes, DoorTypeOK, Moves
      <4> QED BY <2>1, <4>1, TouchedTyped
    <3>2. "limit" \in Pcs
          BY DEF Pcs
    <3>3. /\ handler'[h].barred = handler[h].barred
          /\ \A g \in Handlers \ {h} : handler'[g] = handler[g]
          BY <3>1, <3>2, MoveEffect
    <3>4. ~handler[h].barred
          BY <1>0, <1>4, <2>4 DEF Write, BarredIsStopped
    <3>5. BarredIsStopped(h)'
          BY <3>3, <3>4 DEF BarredIsStopped
    <3> QED BY <1>0, <2>2, <3>3, <3>5, BarredAfter
  <2> QED BY <2>3, <2>4
<1>5. ASSUME handler[h].pc \in {"limit", "handle", "edit", "commit"},
             (\E p \in Pcs : Goto(h, p)) \/ End(h),
             ruling' = ruling, ruling => user' \in User /\ user'.banned
      PROVE  BanInv'
  <2>1. ~handler[h].barred
        BY <1>0, <1>5 DEF BarredIsStopped
  <2>2. /\ ~handler'[h].barred
        /\ \A g \in Handlers \ {h} : handler'[g] = handler[g]
        BY <1>5, <2>1, GotoEffect, EndEffect, IdleIsIdle
  <2>3. BarredIsStopped(h)'
        BY <2>2 DEF BarredIsStopped
  <2> QED BY <1>5, <2>2, <2>3, BarredAfter
<1>6. CASE \/ LimitRequests(h) \/ ToggleUpdate(h) \/ ToggleEdit(h)
           \/ ToggleEditFails(h) \/ ToggleCommitFails(h)
  <2>1. UNCHANGED <<user, ruling>>
        BY <1>6 DEF LimitRequests, ToggleUpdate, ToggleEdit, ToggleEditFails, ToggleCommitFails
  <2>2. handler[h].pc \in {"limit", "handle", "edit", "commit"}
        BY <1>6 DEF LimitRequests, ToggleUpdate, ToggleEdit, ToggleEditFails, ToggleCommitFails
  <2>3. (\E p \in Pcs : Goto(h, p)) \/ End(h)
    <3>1. {"handle", "edit", "commit"} \subseteq Pcs
          BY DEF Pcs
    <3> QED BY <1>6, <3>1
            DEF LimitRequests, ToggleUpdate, ToggleEdit, ToggleEditFails, ToggleCommitFails
  <2> QED BY <1>0, <1>5, <2>1, <2>2, <2>3
<1>7. CASE ToggleCommit(h)
  <2>1. user \in User
        BY <1>1, <1>7 DEF ToggleCommit, HandlerTyped
  <2>2. Changed(h) \subseteq Toggles
        BY <1>1, <1>7, <2>1, ChangedTyped DEF ToggleCommit, HandlerTyped
  <2>3. user' \in User /\ user'.banned = user.banned
        BY <1>7, <2>1, <2>2 DEF ToggleCommit, User
  <2> QED BY <1>0, <1>5, <1>7, <2>3 DEF ToggleCommit
<1> QED BY <1>2, <1>3, <1>4, <1>6, <1>7 DEF DoorStep

LEMMA BanKept ==
  ASSUME DoorTypes, BanInv, DoorEffect
  PROVE  BanInv'
<1>0. /\ ruling => user \in User /\ user.banned
      /\ \A h \in Handlers : BarredIsStopped(h)
      BY DEF BanInv
<1>1. CASE UNCHANGED doorVars
      BY <1>1 DEF doorVars, BanInv, BarredIsStopped
<1>2. ASSUME NEW h \in Handlers, DoorStep(h)
      PROVE  BanInv'
      BY <1>2, BanStep
<1>3. ASSUME NEW h \in Handlers, NEW kind \in Kinds, Arrive(h, kind)
      PROVE  BanInv'
  <2>1. PICK r \in Handler : /\ handler' = [handler EXCEPT ![h] = r]
                             /\ r.pc = "read" /\ r.barred = ruling
    <3>1. [Idle EXCEPT !.pc = "read", !.kind = kind, !.barred = ruling] \in Handler
          BY IdleTyped DEF Handler, DoorTypes, DoorTypeOK
    <3>2. /\ [Idle EXCEPT !.pc = "read", !.kind = kind, !.barred = ruling].pc = "read"
          /\ [Idle EXCEPT !.pc = "read", !.kind = kind, !.barred = ruling].barred = ruling
          BY DEF Idle
    <3> QED BY <1>3, <3>1, <3>2 DEF Arrive
  <2>2. BarredIsStopped(h)'
        BY <1>3, <2>1, OneHandler DEF Arrive, BarredIsStopped
  <2> QED BY <1>0, <1>3, <2>1, <2>2, OneHandler, BarredAfter DEF Arrive
<1>4. ASSUME NEW h \in Handlers,
             handler[h].pc \in {"handle", "body"},
             Goto(h, "body") \/ End(h),
             Otherwise
      PROVE  BanInv'
  <2>1. ~handler[h].barred /\ "body" \in Pcs
        BY <1>0, <1>4 DEF BarredIsStopped, Pcs
  <2>2. /\ ~handler'[h].barred
        /\ \A g \in Handlers \ {h} : handler'[g] = handler[g]
        BY <1>4, <2>1, GotoEffect, EndEffect, IdleIsIdle
  <2>3. BarredIsStopped(h)'
        BY <2>2 DEF BarredIsStopped
  <2> QED BY <1>0, <1>4, <2>2, <2>3, BarredAfter DEF Otherwise
<1>5. ASSUME NEW ban \in BOOLEAN, Rule(ban)
      PROVE  BanInv'
  <2>1. user \in User
        BY <1>5 DEF Rule, DoorTypes, DoorTypeOK
  <2>2. user' \in User /\ user'.banned = ban /\ ruling' = ban
        BY <1>5, <2>1 DEF Rule, User
  <2>3. CASE ban
    <3>1. UNCHANGED handler
          BY <1>5, <2>3 DEF Rule
    <3> QED BY <1>0, <2>2, <2>3, <3>1 DEF BanInv, BarredIsStopped
  <2>4. CASE ~ban
    <3>1. \A h \in Handlers : handler'[h] = [handler[h] EXCEPT !.barred = FALSE]
          BY <1>5, <2>4 DEF Rule
    <3>2. \A r \in Handler : ~[r EXCEPT !.barred = FALSE].barred
          BY DEF Handler
    <3>3. \A h \in Handlers : ~handler'[h].barred
          BY <3>1, <3>2 DEF DoorTypes, HandlerTyped
    <3> QED BY <2>2, <2>4, <3>3 DEF BanInv, BarredIsStopped
  <2> QED BY <2>3, <2>4
<1>6. CASE DoorCrash
  <2>1. \A h \in Handlers : handler'[h] = Idle
        BY <1>6 DEF DoorCrash
  <2> QED BY <1>0, <1>6, <2>1, IdleIsIdle DEF DoorCrash, BanInv, BarredIsStopped
<1> QED BY <1>1, <1>2, <1>3, <1>4, <1>5, <1>6 DEF DoorEffect, At

-----------------------------------------------------------------------------
(* The panel of the settings                                                *)

Turned(r, on) == IF r.kind \in r.seen.on THEN on \ {r.kind} ELSE on \cup {r.kind}

OffByOne(shown, on) == \A k, l \in Differing(shown, on) : k = l

(* Between its edit and its commit a press has the lock, and the panel shows *)
(* what it will commit.                                                     *)
PressAt(h) ==
  /\ handler[h].pc \in {"edit", "commit"} => lock = h
  /\ handler[h].pc = "commit" => panel = Turned(handler[h], user.on)

PanelInv ==
  /\ user = None => panel = {}
  /\ user # None => OffByOne(panel, user.on)
  /\ user # None /\ ~torn /\ (lock = None \/ handler[lock].pc = "edit") => panel = user.on
  /\ lock # None => handler[lock].pc \in {"edit", "commit"}
  /\ \A h \in Handlers : PressAt(h)

LEMMA ChangedTurned ==
  ASSUME NEW h \in Handlers
  PROVE  Changed(h) = Turned(handler[h], user.on)
  BY DEF Changed, Turned

LEMMA TurnedIsOffByOne ==
  ASSUME NEW r, NEW on
  PROVE  OffByOne(Turned(r, on), on)
  BY DEF OffByOne, Differing, Turned

LEMMA SameIsOffByOne ==
  ASSUME NEW on
  PROVE  OffByOne(on, on)
  BY DEF OffByOne, Differing

(* A task elsewhere goes on, or ends, and the row and the panel agree as    *)
(* before.                                                                  *)
LEMMA PanelAfter ==
  ASSUME DoorTypes, PanelInv, NEW h \in Handlers,
         \A g \in Handlers \ {h} : handler'[g] = handler[g],
         handler[h].pc \notin {"edit", "commit"},
         handler'[h].pc \notin {"edit", "commit"},
         UNCHANGED <<lock, panel, torn>>,
         \/ user' = user
         \/ user = None /\ user' # None /\ user'.on = {}
         \/ user # None /\ user' # None /\ user'.on = user.on
  PROVE  PanelInv'
<1>1. lock # h
      BY NoneIsNoOther DEF PanelInv
<1>2. lock \in Handlers \ {h} \/ lock = None
      BY <1>1 DEF DoorTypes, DoorTypeOK
<1>3. lock # None => handler'[lock'] = handler[lock]
      BY <1>2
<1>4. \A g \in Handlers : HandlerTyped(g) /\ PressAt(g)
      BY DEF PanelInv, DoorTypes
<1>5. None \notin User
      BY NoneIsNoOther
<1>6. \A g \in Handlers \ {h} : handler[g].pc = "commit" =>
        user # None /\ user' # None /\ user'.on = user.on
      BY <1>4, <1>5 DEF HandlerTyped
<1>7. \A g \in Handlers \ {h} : PressAt(g)'
      BY <1>4, <1>6 DEF PressAt
<1>8. PressAt(h)'
      BY DEF PressAt
<1>9. lock' # None => handler'[lock'].pc \in {"edit", "commit"}
      BY <1>3 DEF PanelInv
<1>10. user' = None => panel' = {}
      BY DEF PanelInv
<1>11. ASSUME user' # None, ~torn', lock' = None \/ handler'[lock'].pc = "edit"
       PROVE  panel' = user'.on
  <2>1. ~torn /\ (lock = None \/ handler[lock].pc = "edit")
        BY <1>3, <1>11
  <2>2. CASE user = None
        BY <1>11, <2>2 DEF PanelInv
  <2>3. CASE user # None
        BY <1>11, <2>1, <2>3 DEF PanelInv
  <2> QED BY <2>2, <2>3
<1>12. user' # None => OffByOne(panel', user'.on)
       BY SameIsOffByOne DEF PanelInv
<1> QED BY <1>7, <1>8, <1>9, <1>10, <1>11, <1>12 DEF PanelInv

LEMMA PanelStep ==
  ASSUME DoorTypes, PanelInv, NEW h \in Handlers, DoorStep(h)
  PROVE  PanelInv'
<1> USE DEF At
<1>0. PressAt(h) /\ HandlerTyped(h) /\ None \notin User /\ None \notin Handlers
      BY NoneIsNoOther DEF PanelInv, DoorTypes
<1>1. CASE Read(h)
  <2>1. PICK p \in Pcs : /\ p \notin {"edit", "commit"}
                         /\ Moves(h, p, user)
        BY <1>1 DEF Read, Pcs, Moves
  <2>2. user \in User \cup {None}
        BY DEF DoorTypes, DoorTypeOK
  <2> QED BY <1>1, <2>1, <2>2, MoveEffect, PanelAfter DEF Read
<1>2. CASE Insert(h)
  <2>1. CASE user = None
    <3>1. /\ Moves(h, "limit", NewUser) /\ "limit" \in Pcs /\ user' = NewUser
          /\ UNCHANGED <<lock, panel, torn>>
          BY <1>2, <2>1 DEF Insert, Moves, Pcs
    <3>2. NewUser.on = {} /\ NewUser # None
          BY <1>0, NewUserTyped DEF NewUser
    <3>3. /\ handler'[h].pc = "limit"
          /\ \A g \in Handlers \ {h} : handler'[g] = handler[g]
          BY <3>1, MoveEffect, NewUserTyped
    <3> QED BY <1>2, <2>1, <3>1, <3>2, <3>3, PanelAfter DEF Insert
  <2>2. CASE user # None
        BY <1>2, <2>2, EndEffect, IdleIsIdle, PanelAfter DEF Insert
  <2> QED BY <2>1, <2>2
<1>3. CASE Write(h)
  <2>1. handler[h].seen \in User /\ user \in User
        BY <1>0, <1>3 DEF Write, HandlerTyped
  <2>2. user' \in User /\ user'.on = user.on
        BY <1>3, <2>1, TouchedTyped DEF Write
  <2>3. user # None /\ user' # None /\ UNCHANGED <<lock, panel, torn>>
        BY <1>0, <1>3, <2>1, <2>2 DEF Write
  <2>4. CASE End(h)
        BY <1>3, <2>2, <2>3, <2>4, EndEffect, IdleIsIdle, PanelAfter DEF Write
  <2>5. CASE ~End(h)
    <3>1. PICK s \in User : Moves(h, "limit", s)
      <4>1. Moves(h, "limit", Touched(handler[h].seen, handler[h].seen))
            BY <1>3, <2>5 DEF Write, DoorTypes, DoorTypeOK, Moves
      <4> QED BY <2>1, <4>1, TouchedTyped
    <3>2. "limit" \in Pcs
          BY DEF Pcs
    <3> QED BY <1>3, <2>2, <2>3, <3>1, <3>2, MoveEffect, PanelAfter DEF Write
  <2> QED BY <2>4, <2>5
<1>4. CASE LimitRequests(h)
  <2>1. Goto(h, "handle") \/ End(h)
        BY <1>4 DEF LimitRequests
  <2>2. "handle" \in Pcs
        BY DEF Pcs
  <2> QED BY <1>4, <2>1, <2>2, GotoEffect, EndEffect, IdleIsIdle, PanelAfter
          DEF LimitRequests
<1>5. ASSUME NEW g \in Handlers \ {h}, lock = None \/ lock = h
      PROVE  handler[g].pc \notin {"edit", "commit"}
      BY <1>0, <1>5 DEF PanelInv, PressAt
<1>6. CASE ToggleUpdate(h)
  <2>1. /\ lock = None /\ lock' = h /\ UNCHANGED <<user, panel, torn>>
        /\ Goto(h, "edit") /\ "edit" \in Pcs
        BY <1>6 DEF ToggleUpdate, Pcs
  <2>2. /\ handler'[h].pc = "edit" /\ \A g \in Handlers \ {h} : handler'[g] = handler[g]
        BY <2>1, GotoEffect
  <2>3. \A g \in Handlers : PressAt(g)'
        BY <1>5, <2>1, <2>2 DEF PressAt
  <2> QED BY <2>1, <2>2, <2>3 DEF PanelInv
<1>7. CASE ToggleEdit(h)
  <2>1. /\ lock = h /\ UNCHANGED <<user, lock, torn>> /\ panel' = Changed(h)
        /\ Goto(h, "commit") /\ "commit" \in Pcs
        BY <1>0, <1>7 DEF ToggleEdit, Rendered, PressAt, Pcs
  <2>2. /\ handler'[h].pc = "commit" /\ \A g \in Handlers \ {h} : handler'[g] = handler[g]
        /\ handler'[h].kind = handler[h].kind /\ handler'[h].seen = handler[h].seen
        BY <2>1, GotoEffect
  <2>3. PressAt(h)'
        BY <2>1, <2>2, ChangedTurned DEF PressAt, Turned
  <2>4. \A g \in Handlers \ {h} : PressAt(g)'
        BY <1>5, <2>1, <2>2 DEF PressAt
  <2>5. user # None
        BY <1>0, <1>7 DEF ToggleEdit, HandlerTyped
  <2>6. OffByOne(panel', user'.on)
        BY <2>1, ChangedTurned, TurnedIsOffByOne
  <2> QED BY <1>0, <2>1, <2>2, <2>3, <2>4, <2>5, <2>6 DEF PanelInv
<1>8. CASE ToggleEditFails(h)
  <2>1. /\ lock = h /\ lock' = None /\ UNCHANGED user /\ End(h)
        /\ panel' = panel \/ panel' = Changed(h)
        BY <1>0, <1>8 DEF ToggleEditFails, RolledBack, Rendered, PressAt
  <2>2. /\ handler'[h].pc = "idle" /\ \A g \in Handlers \ {h} : handler'[g] = handler[g]
        BY <2>1, EndEffect, IdleIsIdle
  <2>3. \A g \in Handlers : PressAt(g)'
        BY <1>5, <2>1, <2>2 DEF PressAt
  <2>4. user # None
        BY <1>0, <1>8 DEF ToggleEditFails, HandlerTyped
  <2>5. OffByOne(panel', user'.on)
        BY <2>1, <2>4, ChangedTurned, TurnedIsOffByOne DEF PanelInv
  <2>6. ~torn' => ~torn /\ panel' = panel
        BY <1>8, Zenon DEF ToggleEditFails
  <2>7. ~torn' => panel' = user'.on
        BY <1>8, <2>1, <2>4, <2>6 DEF PanelInv, ToggleEditFails
  <2> QED BY <2>1, <2>3, <2>4, <2>5, <2>7 DEF PanelInv
<1>10. CASE ToggleCommitFails(h)
  <2>1. /\ lock = h /\ lock' = None /\ UNCHANGED <<user, panel>> /\ End(h) /\ torn' = TRUE
        BY <1>0, <1>10 DEF ToggleCommitFails, RolledBack, PressAt
  <2>2. /\ handler'[h].pc = "idle" /\ \A g \in Handlers \ {h} : handler'[g] = handler[g]
        BY <2>1, EndEffect, IdleIsIdle
  <2>3. \A g \in Handlers : PressAt(g)'
        BY <1>5, <2>1, <2>2 DEF PressAt
  <2> QED BY <2>1, <2>3 DEF PanelInv
<1>9. CASE ToggleCommit(h)
  <2>1. /\ lock = h /\ lock' = None /\ UNCHANGED panel /\ End(h)
        /\ panel = Changed(h)
        BY <1>0, <1>9, ChangedTurned DEF ToggleCommit, PressAt
  <2>2. /\ handler'[h].pc = "idle" /\ \A g \in Handlers \ {h} : handler'[g] = handler[g]
        BY <2>1, EndEffect, IdleIsIdle
  <2>3. \A g \in Handlers : PressAt(g)'
        BY <1>5, <2>1, <2>2 DEF PressAt
  <2>4. user \in User
        BY <1>0, <1>9 DEF ToggleCommit, HandlerTyped
  <2>5. Changed(h) \subseteq Toggles
        BY <1>0, <1>9, <2>4, ChangedTyped DEF ToggleCommit, HandlerTyped
  <2>6. user' \in User /\ user'.on = Changed(h)
        BY <1>9, <2>4, <2>5 DEF ToggleCommit, User
  <2>7. OffByOne(panel', user'.on)
        BY <2>1, <2>6, SameIsOffByOne
  <2> QED BY <1>0, <2>1, <2>3, <2>6, <2>7 DEF PanelInv
<1> QED BY <1>1, <1>2, <1>3, <1>4, <1>6, <1>7, <1>8, <1>9, <1>10 DEF DoorStep

LEMMA PanelKept ==
  ASSUME DoorTypes, PanelInv, DoorEffect
  PROVE  PanelInv'
<1>0. /\ \A h \in Handlers : PressAt(h) /\ HandlerTyped(h)
      /\ None \notin User /\ None \notin Handlers
      BY NoneIsNoOther DEF PanelInv, DoorTypes
<1>1. CASE UNCHANGED doorVars
      BY <1>1 DEF doorVars, PanelInv, PressAt
<1>2. ASSUME NEW h \in Handlers, DoorStep(h)
      PROVE  PanelInv'
      BY <1>2, PanelStep
<1>3. ASSUME NEW h \in Handlers, NEW kind \in Kinds, Arrive(h, kind)
      PROVE  PanelInv'
  <2>1. PICK r \in Handler : /\ handler' = [handler EXCEPT ![h] = r]
                             /\ r.pc = "read"
    <3>1. [Idle EXCEPT !.pc = "read", !.kind = kind, !.barred = ruling] \in Handler
          BY IdleTyped DEF Handler, DoorTypes, DoorTypeOK
    <3>2. [Idle EXCEPT !.pc = "read", !.kind = kind, !.barred = ruling].pc = "read"
          BY DEF Idle
    <3> QED BY <1>3, <3>1, <3>2 DEF Arrive
  <2> QED BY <1>3, <2>1, OneHandler, PanelAfter DEF Arrive, At
<1>4. ASSUME NEW h \in Handlers,
             handler[h].pc \in {"handle", "body"},
             Goto(h, "body") \/ End(h),
             Otherwise
      PROVE  PanelInv'
  <2>1. "body" \in Pcs
        BY DEF Pcs
  <2> QED BY <1>4, <2>1, GotoEffect, EndEffect, IdleIsIdle, PanelAfter DEF Otherwise
<1>5. ASSUME NEW ban \in BOOLEAN, Rule(ban)
      PROVE  PanelInv'
  <2>1. user \in User
        BY <1>5 DEF Rule, DoorTypes, DoorTypeOK
  <2>2. /\ user' \in User /\ user'.on = user.on
        /\ user # None /\ user' # None /\ UNCHANGED <<lock, panel, torn>>
        BY <1>0, <1>5, <2>1 DEF Rule, User
  <2>3. \A h \in Handlers : /\ handler'[h].pc = handler[h].pc
                            /\ handler'[h].seen = handler[h].seen
                            /\ handler'[h].kind = handler[h].kind
    <3>1. \A r \in Handler : /\ [r EXCEPT !.barred = FALSE].pc = r.pc
                             /\ [r EXCEPT !.barred = FALSE].seen = r.seen
                             /\ [r EXCEPT !.barred = FALSE].kind = r.kind
          BY DEF Handler
    <3>2. \A h \in Handlers : \/ handler'[h] = handler[h]
                              \/ handler'[h] = [handler[h] EXCEPT !.barred = FALSE]
          BY <1>5 DEF Rule
    <3> QED BY <1>0, <3>1, <3>2 DEF HandlerTyped
  <2>4. lock \in Handlers \cup {None}
        BY DEF DoorTypes, DoorTypeOK
  <2>5. \A h \in Handlers : PressAt(h)'
        BY <1>0, <2>2, <2>3 DEF PressAt, Turned
  <2> QED BY <2>2, <2>3, <2>4, <2>5 DEF PanelInv
<1>6. CASE DoorCrash
  <2>1. /\ \A h \in Handlers : handler'[h] = Idle
        /\ UNCHANGED <<user, panel>> /\ lock' = None
        BY <1>6 DEF DoorCrash
  <2>2. \A h \in Handlers : PressAt(h)'
        BY <2>1, IdleIsIdle DEF PressAt
  <2>3. torn' \in BOOLEAN /\ torn \in BOOLEAN
        BY <1>6, Zenon DEF DoorCrash, DoorTypes, DoorTypeOK
  <2>4. ~torn' => ~torn /\ \A h \in Handlers : handler[h].pc # "commit"
        BY <1>6, <2>3 DEF DoorCrash, At
  <2>5. lock \in Handlers \cup {None}
        BY DEF DoorTypes, DoorTypeOK
  <2>6. ~torn' => lock = None \/ handler[lock].pc = "edit"
        BY <2>4, <2>5 DEF PanelInv
  <2> QED BY <2>1, <2>2, <2>4, <2>6 DEF PanelInv
<1> QED BY <1>1, <1>2, <1>3, <1>4, <1>5, <1>6 DEF DoorEffect, At

-----------------------------------------------------------------------------
(* The theorems of the front door                                           *)

LEMMA DoorTypesHold == Spec => []DoorTypes
<1>1. ASSUME Init PROVE DoorTypes
  <2>1. /\ handler \in [Handlers -> Handler]
        /\ \A h \in Handlers : handler[h] = Idle
        BY <1>1, IdleTyped DEF Init, DoorInit
  <2>2. \A h \in Handlers : HandlerTyped(h)
        BY <2>1, IdleIsIdle, IdleTyped DEF HandlerTyped
  <2>3. mix.most \in Nat /\ mix \in Mixes
        BY <1>1, DoorAssumption DEF Init, DoorInit
  <2>4. 0 \in 0 .. mix.most /\ 0 \in 0 .. MaxRulings
        BY <2>3, DoorAssumption
  <2>5. /\ user \in User \cup {None} /\ lock \in Handlers \cup {None}
        /\ panel \subseteq Toggles /\ counter \in Nat /\ served \in Nat
        /\ ruling \in BOOLEAN /\ torn \in BOOLEAN
        BY <1>1 DEF Init, DoorInit
  <2>6. arrivals = 0 /\ rulings = 0
        BY <1>1 DEF Init, DoorInit
  <2> QED BY <2>1, <2>2, <2>3, <2>4, <2>5, <2>6 DEF DoorTypes, DoorTypeOK
<1> QED BY <1>1, NextDoorEffect, DoorTypesKept, PTL DEF Spec

(* A ban takes effect for every update that arrives after it, whatever       *)
(* updates of the account are under way, whose records of its row are        *)
(* written after the ban (middleware/auth.py; upsert_user of database/crud.py). *)
THEOREM BansHold == Spec => []BannedIsNotServed
<1>1. ASSUME Init PROVE BanInv
  <2>1. \A h \in Handlers : handler[h] = Idle
        BY <1>1 DEF Init, DoorInit
  <2> QED BY <1>1, <2>1, IdleIsIdle DEF Init, DoorInit, BanInv, BarredIsStopped
<1>2. BanInv => BannedIsNotServed
      BY DEF BanInv, BarredIsStopped, BannedIsNotServed
<1> QED BY <1>1, <1>2, DoorTypesHold, NextDoorEffect, BanKept, PTL DEF Spec

(* Whatever presses overlap and fail, the panel is wrong about one switch at *)
(* most, and it shows the row whenever no press is under way and none edited *)
(* it without committing: by a lost reply, a failing commit or the death of  *)
(* the bot (handlers/settings.py, database/session.py).                      *)
THEOREM PanelAgrees == Spec => []PanelMatchesRow
<1>1. ASSUME Init PROVE PanelInv
  <2>1. \A h \in Handlers : handler[h] = Idle
        BY <1>1 DEF Init, DoorInit
  <2> QED BY <1>1, <2>1, IdleIsIdle DEF Init, DoorInit, PanelInv, PressAt
<1>2. PanelInv => PanelMatchesRow
      BY DEF PanelInv, PanelMatchesRow, OffByOne
<1> QED BY <1>1, <1>2, DoorTypesHold, NextDoorEffect, PanelKept, PTL DEF Spec

-----------------------------------------------------------------------------
(* What a step of Desk does to the cookie store                             *)

UploadStep(u) ==
  \/ TakeName(u) \/ WriteFile(u) \/ WriteFails(u) \/ Begin(u) \/ Commit(u)
  \/ SessionFails(u)

StoreEffect ==
  \/ UNCHANGED storeVars
  \/ \E u \in Uploaders : UploadStep(u)
  \/ Tick
  \/ StoreCrash
  \/ Discover /\ \A u \in Uploaders : upload[u] = NoUpload

(* While the bot is down nobody handles an update or saves a file.          *)
DownInv ==
  bot # "up" =>
    \A h \in Handlers : handler[h].pc = "idle" /\ ~Busy(h) /\ upload[h] = NoUpload

LEMMA NextStoreEffect ==
  ASSUME DownInv, [Next]_vars
  PROVE  StoreEffect
<1> USE DeskAssumption
<1>1. CASE UNCHANGED vars
      BY <1>1 DEF vars, StoreEffect
<1>2. ASSUME NEW h \in Handlers, HandlerStep(h)
      PROVE  StoreEffect
  <2>1. CASE DoorOnly(h) \/ Route(h) \/ DialogueOnly(h) \/ Finish(h)
        BY <2>1 DEF DoorOnly, Route, DialogueOnly, Finish, StoreEffect
  <2>2. CASE StartSave(h) \/ SaveOnly(h) \/ SaveEnds(h)
        BY <2>2 DEF StartSave, SaveOnly, SaveEnds, StoreEffect, UploadStep
  <2> QED BY <1>2, <2>1, <2>2 DEF HandlerStep
<1>3. ASSUME NEW h \in Handlers,
             SaveRefused(h) \/ AbortOnly(h) \/ \E kind \in Kinds : ArriveStep(h, kind)
      PROVE  StoreEffect
      BY <1>3 DEF SaveRefused, AbortOnly, ArriveStep, StoreEffect
<1>4. CASE (\E ban \in BOOLEAN : RuleOnly(ban)) \/ TickOnly \/ Crash
      BY <1>4 DEF RuleOnly, TickOnly, Crash, StoreEffect
<1>5. CASE Start
  <2>1. bot = "starting" /\ Discover
        BY <1>5 DEF Start, Discover
  <2>2. \A u \in Uploaders : upload[u] = NoUpload
        BY <2>1 DEF DownInv
  <2> QED BY <2>1, <2>2 DEF StoreEffect
<1> QED BY <1>1, <1>2, <1>3, <1>4, <1>5 DEF Next

LEMMA DownKept ==
  ASSUME DoorTypes, DownInv, [Next]_vars
  PROVE  DownInv'
<1> USE DeskAssumption
<1>0. NoUpload.pc = "none"
      BY DEF NoUpload
<1>1. CASE UNCHANGED vars
      BY <1>1 DEF vars, doorVars, dialogueVars, storeVars, DownInv, Busy
<1>2. ASSUME NEW h \in Handlers, HandlerStep(h)
      PROVE  DownInv'
  <2>1. bot = "up"
    <3>1. handler[h].pc # "idle" \/ Busy(h)
          BY <1>2
             DEF HandlerStep, DoorOnly, Route, DialogueOnly, StartSave, SaveOnly, SaveEnds,
                 Finish, DoorStep, Read, Insert, Write, LimitRequests, ToggleUpdate,
                 ToggleEdit, ToggleEditFails, ToggleCommit, ToggleCommitFails, At, DialogueStep, SetState,
                 UpdateData, GetData, ClearState, QueuePosts, Doing
    <3> QED BY <3>1 DEF DownInv
  <2>2. bot' = bot
        BY <1>2
           DEF HandlerStep, DoorOnly, Route, DialogueOnly, StartSave, SaveOnly, SaveEnds,
               Finish, storeVars, TakeName, WriteFile, Begin, Commit, WriteFails,
               SessionFails
  <2> QED BY <2>1, <2>2 DEF DownInv
<1>3. ASSUME NEW h \in Handlers,
             SaveRefused(h) \/ AbortOnly(h) \/ \E kind \in Kinds : ArriveStep(h, kind)
      PROVE  DownInv'
  <2>1. bot = "up"
        BY <1>3 DEF SaveRefused, AbortOnly, ArriveStep, DownInv, Doing, Abort
  <2>2. bot' = bot
        BY <1>3 DEF SaveRefused, AbortOnly, ArriveStep, storeVars
  <2> QED BY <2>1, <2>2 DEF DownInv
<1>4. ASSUME NEW ban \in BOOLEAN, RuleOnly(ban)
      PROVE  DownInv'
  <2>1. \A h \in Handlers : handler'[h].pc = handler[h].pc
    <3>1. \A r \in Handler : [r EXCEPT !.barred = FALSE].pc = r.pc
          BY DEF Handler
    <3>2. \A h \in Handlers : \/ handler'[h] = handler[h]
                              \/ handler'[h] = [handler[h] EXCEPT !.barred = FALSE]
          BY <1>4 DEF RuleOnly, Rule
    <3> QED BY <3>1, <3>2 DEF DoorTypes, HandlerTyped
  <2> QED BY <1>4, <2>1 DEF RuleOnly, dialogueVars, storeVars, DownInv, Busy
<1>5. CASE TickOnly
      BY <1>5 DEF TickOnly, Tick, doorVars, dialogueVars, DownInv, Busy
<1>6. CASE Crash
      BY <1>6, IdleIsIdle
         DEF Crash, DoorCrash, DialogueCrash, StoreCrash, DownInv, Busy
<1>7. CASE Start
  <2>1. bot # "up" /\ UNCHANGED <<handler, todo, upload>>
        BY <1>7 DEF Start, Discover, doorVars, dialogueVars
  <2> QED BY <2>1 DEF DownInv, Busy
<1> QED BY <1>1, <1>2, <1>3, <1>4, <1>5, <1>6, <1>7 DEF Next

LEMMA NobodyWhileDown == Spec => []DownInv
<1>1. Init => DownInv
      BY DEF Init, StoreInit, DownInv
<1> QED BY <1>1, DoorTypesHold, DownKept, PTL DEF Spec

-----------------------------------------------------------------------------
(* Rows                                                                     *)

LEMMA DeactivatedRows ==
  ASSUME NEW rs \in Seq(Row), NEW n \in Nat
  PROVE  /\ Deactivated(rs, n) \in Seq(Row)
         /\ Len(Deactivated(rs, n)) = Len(rs)
         /\ \A i \in 1 .. Len(rs) :
              /\ Deactivated(rs, n)[i].name = rs[i].name
              /\ Deactivated(rs, n)[i].active => i > n /\ rs[i].active
              /\ i > n => Deactivated(rs, n)[i] = rs[i]
<1> DEFINE R(i) == IF i <= n THEN [rs[i] EXCEPT !.active = FALSE] ELSE rs[i]
<1>1. Len(rs) \in Nat /\ DOMAIN rs = 1 .. Len(rs) /\ \A i \in 1 .. Len(rs) : rs[i] \in Row
      OBVIOUS
<1>2. Deactivated(rs, n) = [i \in 1 .. Len(rs) |-> R(i)]
      BY <1>1 DEF Deactivated
<1>3. \A r \in Row : /\ [r EXCEPT !.active = FALSE] \in Row
                     /\ [r EXCEPT !.active = FALSE].name = r.name
                     /\ ~[r EXCEPT !.active = FALSE].active
      BY DEF Row
<1>4. \A i \in 1 .. Len(rs) : R(i) \in Row
      BY <1>1, <1>3
<1>5. [i \in 1 .. Len(rs) |-> R(i)] \in [1 .. Len(rs) -> Row]
      BY <1>4
<1>6. Deactivated(rs, n) \in Seq(Row)
      BY <1>1, <1>2, <1>5, SeqDef
<1>7. Len(Deactivated(rs, n)) = Len(rs)
      BY <1>1, <1>2, <1>6
<1>8. \A i \in 1 .. Len(rs) : Deactivated(rs, n)[i] = R(i)
      BY <1>2
<1>9. ASSUME NEW i \in 1 .. Len(rs)
      PROVE  /\ R(i).name = rs[i].name
             /\ R(i).active => i > n /\ rs[i].active
             /\ i > n => R(i) = rs[i]
  <2>1. rs[i] \in Row
        BY <1>1
  <2>2. CASE i <= n
        BY <1>3, <2>1, <2>2
  <2>3. CASE i > n
        BY <2>3
  <2> QED BY <2>2, <2>3
<1> HIDE DEF R
<1> QED BY <1>6, <1>7, <1>8, <1>9

(* new is rs with one row more, of which the first n are turned off.        *)
Grown(new, rs, n, name) ==
  /\ new \in Seq(Row)
  /\ Len(new) = Len(rs) + 1
  /\ \A i \in 1 .. Len(rs) : /\ new[i].name = rs[i].name
                             /\ new[i].active => i > n
  /\ new[Len(rs) + 1].name = name /\ new[Len(rs) + 1].active

LEMMA AddedRows ==
  ASSUME NEW rs \in Seq(Row), NEW n \in Nat, NEW name \in Names
  PROVE  Grown(Added(Deactivated(rs, n), name), rs, n, name)
<1> DEFINE row == [name |-> name, active |-> TRUE]
           d   == Deactivated(rs, n)
<1>1. row \in Row /\ row.name = name /\ row.active
      BY DEF Row
<1>2. /\ d \in Seq(Row) /\ Len(d) = Len(rs)
      /\ \A i \in 1 .. Len(rs) : d[i].name = rs[i].name /\ (d[i].active => i > n)
      BY DeactivatedRows
<1>3. Added(d, name) = Append(d, row)
      BY DEF Added
<1> HIDE DEF row, d
<1>4. /\ Append(d, row) \in Seq(Row) /\ Len(Append(d, row)) = Len(d) + 1
      /\ \A i \in 1 .. Len(d) : Append(d, row)[i] = d[i]
      /\ Append(d, row)[Len(d) + 1] = row
      BY <1>1, <1>2, AppendProperties
<1>5. Grown(Append(d, row), rs, n, name)
      BY <1>1, <1>2, <1>4 DEF Grown
<1> QED BY <1>3, <1>5 DEF d

(* new is rs, all of it turned off, with k rows of these names.             *)
Filled(new, rs, k, names) ==
  /\ new \in Seq(Row)
  /\ Len(new) = Len(rs) + k
  /\ \A i \in 1 .. Len(rs) : new[i].name = rs[i].name /\ ~new[i].active
  /\ \A i \in 1 .. k : /\ new[Len(rs) + i].name = names[i]
                       /\ new[Len(rs) + i].active = (i = k)

LEMMA RegisteredRows ==
  ASSUME NEW rs \in Seq(Row), NEW k \in Nat \ {0}, NEW names \in [1 .. k -> Names]
  PROVE  Filled(Registered(rs, names), rs, k, names)
<1> DEFINE d == Deactivated(rs, Len(rs))
           e == [i \in 1 .. k |-> [name |-> names[i], active |-> i = k]]
<1>1. names \in Seq(Names) /\ Len(names) = k /\ DOMAIN names = 1 .. k /\ names # << >>
      BY SeqDef
<1>2. Registered(rs, names) = d \o e
      BY <1>1 DEF Registered
<1>3. \A i \in 1 .. k : [name |-> names[i], active |-> i = k] \in Row
      BY DEF Row
<1>4. e \in [1 .. k -> Row]
      BY <1>3
<1>5. e \in Seq(Row) /\ Len(e) = k
      BY <1>4, SeqDef
<1>6. \A i \in 1 .. k : e[i].name = names[i] /\ e[i].active = (i = k)
      OBVIOUS
<1>7. /\ d \in Seq(Row) /\ Len(d) = Len(rs) /\ Len(rs) \in Nat
      /\ \A i \in 1 .. Len(rs) : d[i].name = rs[i].name /\ ~d[i].active
      BY DeactivatedRows
<1> HIDE DEF d, e
<1>8. /\ d \o e \in Seq(Row) /\ Len(d \o e) = Len(rs) + k
      /\ \A i \in 1 .. Len(rs) + k : (d \o e)[i] = IF i <= Len(rs) THEN d[i]
                                                                  ELSE e[i - Len(rs)]
  <2>1. /\ d \o e \in Seq(Row) /\ Len(d \o e) = Len(d) + Len(e)
        /\ \A i \in 1 .. Len(d) + Len(e) : (d \o e)[i] = IF i <= Len(d) THEN d[i]
                                                                    ELSE e[i - Len(d)]
        BY <1>5, <1>7, ConcatProperties, Zenon
  <2> QED BY <1>5, <1>7, <2>1
<1>9. \A i \in 1 .. Len(rs) : (d \o e)[i] = d[i]
      BY <1>7, <1>8
<1>10. \A i \in 1 .. k : (d \o e)[Len(rs) + i] = e[i]
  <2> TAKE i \in 1 .. k
  <2>1. Len(rs) + i \in 1 .. Len(rs) + k /\ ~(Len(rs) + i <= Len(rs))
        /\ (Len(rs) + i) - Len(rs) = i
        BY <1>7
  <2> QED BY <1>8, <2>1
<1>11. /\ \A i \in 1 .. Len(rs) : (d \o e)[i].name = rs[i].name /\ ~(d \o e)[i].active
       /\ \A i \in 1 .. k : /\ (d \o e)[Len(rs) + i].name = names[i]
                            /\ (d \o e)[Len(rs) + i].active = (i = k)
  <2>1. \A i \in 1 .. Len(rs) : (d \o e)[i].name = rs[i].name /\ ~(d \o e)[i].active
        BY <1>7, <1>9
  <2>2. \A i \in 1 .. k : /\ (d \o e)[Len(rs) + i].name = names[i]
                           /\ (d \o e)[Len(rs) + i].active = (i = k)
        BY <1>6, <1>10
  <2> QED BY <2>1, <2>2
<1> QED BY <1>2, <1>8, <1>11 DEF Filled

-----------------------------------------------------------------------------
(* Files and their rows                                                     *)

(* A file is on disk before its row is begun.                               *)
FileInv ==
  /\ StoreTypeOK
  /\ \A u \in Uploaders :
       /\ upload[u].pc # "none" => upload[u].name \in Names
       /\ upload[u].pc \in {"begin", "commit"} => upload[u].name \in files
  /\ RowsHaveFiles

LEMMA RowsTyped ==
  ASSUME FileInv
  PROVE  /\ rows \in Seq(Row) /\ Len(rows) \in Nat /\ DOMAIN rows = 1 .. Len(rows)
         /\ \A i \in 1 .. Len(rows) : rows[i] \in Row
         /\ files \subseteq Names
  BY DEF FileInv, StoreTypeOK

LEMMA UnregisteredFinite ==
  ASSUME FileInv
  PROVE  /\ Cardinality(Unregistered) \in Nat
         /\ Cardinality(Unregistered) = 0 <=> Unregistered = {}
<1>1. Unregistered \in SUBSET Names
      BY RowsTyped DEF Unregistered
<1>2. IsFiniteSet(Names)
      BY StoreAssumption, FS_Interval DEF Names
<1>3. IsFiniteSet(Unregistered)
      BY <1>1, <1>2, FS_Subset
<1> QED BY <1>3, FS_CardinalityType, FS_EmptySet

(* A start finds nothing new, or registers what it finds.                   *)
LEMMA DiscoverEffect ==
  ASSUME FileInv, Discover
  PROVE  \/ rows' = rows /\ (met' <=> met)
         \/ \E k \in Nat \ {0} : \E names \in [1 .. k -> Names] :
              /\ \A i \in 1 .. k : names[i] \in Unregistered
              /\ \A i, j \in 1 .. k : names[i] = names[j] => i = j
              /\ Filled(rows', rows, k, names)
<1>1. CASE UNCHANGED <<rows, met>>
      BY <1>1
<1> DEFINE k == Cardinality(Unregistered)
<1>2. CASE ~UNCHANGED <<rows, met>>
  <2>1. PICK s \in [1 .. k -> Unregistered] :
          /\ \A i, j \in DOMAIN s : s[i] = s[j] => i = j
          /\ rows' = Registered(rows, s)
        BY <1>2 DEF Discover
  <2>2. met' = (met /\ Unregistered = {})
        BY <1>2 DEF Discover
  <2>3. k \in Nat /\ (k = 0 <=> Unregistered = {})
        BY UnregisteredFinite
  <2>4. CASE k = 0
    <3>1. s = << >>
          BY <2>4
    <3>2. rows' = rows
          BY <2>1, <3>1 DEF Registered
    <3>3. met' <=> met
          BY <2>2, <2>3, <2>4
    <3> QED BY <3>2, <3>3
  <2>5. CASE k # 0
    <3>1. Unregistered \subseteq Names
          BY RowsTyped DEF Unregistered
    <3> HIDE DEF k
    <3>2. s \in [1 .. k -> Names] /\ DOMAIN s = 1 .. k
          BY <2>1, <3>1
    <3>3. \A i \in 1 .. k : s[i] \in Unregistered
          BY <2>1
    <3>4. k \in Nat \ {0}
          BY <2>3, <2>5
    <3>5. Filled(rows', rows, k, s)
          BY <2>1, <3>2, <3>4, RowsTyped, RegisteredRows
    <3> QED BY <2>1, <3>2, <3>3, <3>4, <3>5
  <2> QED BY <2>4, <2>5
<1> QED BY <1>1, <1>2

(* The rows after a commit.                                                 *)
LEMMA CommitEffect ==
  ASSUME FileInv, NEW u \in Uploaders, Commit(u)
  PROVE  Grown(rows', rows, upload[u].old, upload[u].name)
<1>1. rows \in Seq(Row) /\ upload[u].old \in Nat /\ upload[u].name \in Names
      BY DEF FileInv, StoreTypeOK, Upload, Commit
<1>2. rows' = Added(Deactivated(rows, upload[u].old), upload[u].name)
      BY DEF Commit
<1> QED BY <1>1, <1>2, AddedRows

LEMMA NoUploadTyped == NoUpload \in Upload /\ NoUpload.pc = "none" /\ NoUpload.name = 0
  BY StoreAssumption DEF NoUpload, Upload

(* The rows have files when those before have, and those that are new.      *)
LEMMA RowsFromTo ==
  ASSUME RowsHaveFiles, rows \in Seq(Row), rows' \in Seq(Row), files \subseteq files',
         NEW k \in Nat, Len(rows') = Len(rows) + k,
         \A i \in 1 .. Len(rows) : rows'[i].name = rows[i].name,
         \A i \in 1 .. k : rows'[Len(rows) + i].name \in files'
  PROVE  RowsHaveFiles'
<1>1. /\ Len(rows) \in Nat /\ DOMAIN rows = 1 .. Len(rows)
      /\ DOMAIN rows' = 1 .. Len(rows) + k
      OBVIOUS
<1>2. ASSUME NEW i \in 1 .. Len(rows) + k
      PROVE  rows'[i].name \in files'
  <2>1. CASE i <= Len(rows)
        BY <1>1, <1>2, <2>1 DEF RowsHaveFiles
  <2>2. CASE i > Len(rows)
    <3>1. i - Len(rows) \in 1 .. k /\ Len(rows) + (i - Len(rows)) = i
          BY <1>1, <1>2, <2>2
    <3> QED BY <3>1
  <2> QED BY <1>1, <1>2, <2>1, <2>2
<1> QED BY <1>1, <1>2 DEF RowsHaveFiles

LEMMA FileKept ==
  ASSUME FileInv, StoreEffect
  PROVE  FileInv'
<1>0. /\ clock \in Names /\ files \subseteq Names /\ rows \in Seq(Row)
      /\ upload \in [Uploaders -> Upload]
      /\ bot \in {"up", "starting", "broken"}
      /\ alone \subseteq Uploaders /\ met \in BOOLEAN /\ twin \in BOOLEAN
      /\ failures \in 0 .. MaxFailures
      /\ MaxClock \in Nat /\ MaxFailures \in Nat /\ Names = 1 .. MaxClock
      BY StoreAssumption DEF FileInv, StoreTypeOK, Names
<1>1. CASE UNCHANGED storeVars
      BY <1>1 DEF storeVars, FileInv, StoreTypeOK, RowsHaveFiles
<1>2. ASSUME NEW u \in Uploaders, UploadStep(u)
      PROVE  FileInv'
  <2>0. upload[u] \in Upload
        BY <1>0
  <2>1. CASE TakeName(u)
    <3>1. [pc |-> "write", name |-> clock, old |-> 0] \in Upload
          BY <1>0 DEF Upload
    <3>2. twin' \in BOOLEAN
          BY <2>1, Zenon DEF TakeName
    <3> QED BY <1>0, <2>1, <3>1, <3>2 DEF TakeName, FileInv, StoreTypeOK, RowsHaveFiles
  <2>2. CASE WriteFile(u)
    <3>1. [upload[u] EXCEPT !.pc = "begin"] \in Upload
          BY <2>0 DEF Upload
    <3>2. upload[u].name \in Names
          BY <2>2 DEF WriteFile, FileInv
    <3>3. upload' = [upload EXCEPT ![u] = [upload[u] EXCEPT !.pc = "begin"]]
          BY <1>0, <2>2 DEF WriteFile
    <3>4. [upload[u] EXCEPT !.pc = "begin"].name = upload[u].name
          BY <2>0 DEF Upload
    <3>5. files' = files \cup {upload[u].name}
          BY <2>2 DEF WriteFile
    <3> QED BY <1>0, <2>2, <3>1, <3>2, <3>3, <3>4, <3>5
            DEF WriteFile, FileInv, StoreTypeOK, RowsHaveFiles
  <2>3. CASE WriteFails(u)
    <3>1. files \subseteq files' /\ files' \subseteq Names
          BY <1>0, <2>3 DEF WriteFails, FileInv
    <3>2. failures' \in 0 .. MaxFailures
          BY <1>0, <2>3 DEF WriteFails
    <3> QED BY <1>0, <2>3, <3>1, <3>2, NoUploadTyped
            DEF WriteFails, GiveUp, FileInv, StoreTypeOK, RowsHaveFiles
  <2>6. CASE SessionFails(u)
        BY <1>0, <2>6, NoUploadTyped
           DEF SessionFails, GiveUp, FileInv, StoreTypeOK, RowsHaveFiles
  <2>4. CASE Begin(u)
    <3>1. PICK r \in Upload : /\ upload' = [upload EXCEPT ![u] = r]
                              /\ r.name = upload[u].name
      <4>1. [upload[u] EXCEPT !.pc = "commit", !.old = Len(rows)] \in Upload
        <5>1. Len(rows) \in Nat
              BY <1>0
        <5> QED BY <2>0, <5>1 DEF Upload
      <4>2. [upload[u] EXCEPT !.pc = "commit", !.old = Len(rows)].name = upload[u].name
            BY <2>0 DEF Upload
      <4>3. upload' = [upload EXCEPT ![u] =
                         [upload[u] EXCEPT !.pc = "commit", !.old = Len(rows)]]
            BY <1>0, <2>4 DEF Begin
      <4> QED BY <4>1, <4>2, <4>3
    <3>2. upload[u].name \in files
          BY <2>4 DEF Begin, FileInv
    <3>3. alone' \subseteq Uploaders
          BY <2>4 DEF Begin
    <3> QED BY <1>0, <2>4, <3>1, <3>2, <3>3
            DEF Begin, Uncommitted, FileInv, StoreTypeOK, RowsHaveFiles
  <2>5. CASE Commit(u)
    <3>1. rows' \in Seq(Row)
          BY <2>5, CommitEffect DEF Grown
    <3>2. RowsHaveFiles'
      <4>1. upload[u].name \in files /\ files' = files
            BY <2>5 DEF Commit, FileInv
      <4>2. \A i \in 1 .. 1 : rows'[Len(rows) + i].name \in files'
            BY <2>5, <4>1, CommitEffect DEF Grown
      <4>3. RowsHaveFiles /\ 1 \in Nat
            BY DEF FileInv
      <4> QED BY <1>0, <2>5, <4>1, <4>2, <4>3, CommitEffect, RowsFromTo DEF Grown
    <3>3. met' \in BOOLEAN
          BY <2>5 DEF Commit
    <3> QED BY <1>0, <2>5, <3>1, <3>2, <3>3, NoUploadTyped DEF Commit, FileInv, StoreTypeOK
  <2> QED BY <1>2, <2>1, <2>2, <2>3, <2>4, <2>5, <2>6 DEF UploadStep
<1>3. CASE Tick
      BY <1>0, <1>3 DEF Tick, FileInv, StoreTypeOK, RowsHaveFiles
<1>4. CASE StoreCrash
      BY <1>0, <1>4, NoUploadTyped DEF StoreCrash, FileInv, StoreTypeOK, RowsHaveFiles
<1>5. CASE Discover
  <2>1. rows' \in Seq(Row) /\ RowsHaveFiles'
    <3>1. CASE rows' = rows
          BY <1>0, <1>5, <3>1 DEF Discover, FileInv, RowsHaveFiles
    <3>2. CASE rows' # rows
      <4>1. PICK k \in Nat \ {0} : \E names \in [1 .. k -> Names] :
              /\ \A i \in 1 .. k : names[i] \in Unregistered
              /\ Filled(rows', rows, k, names)
            BY <1>5, <3>2, DiscoverEffect
      <4>2. PICK names \in [1 .. k -> Names] :
              /\ \A i \in 1 .. k : names[i] \in Unregistered
              /\ Filled(rows', rows, k, names)
            BY <4>1
      <4>3. Filled(rows', rows, k, names)
            BY <4>2
      <4>4. files' = files
            BY <1>5 DEF Discover
      <4>5. \A i \in 1 .. k : rows'[Len(rows) + i].name \in files'
            BY <4>2, <4>3, <4>4 DEF Unregistered, Filled
      <4>6. RowsHaveFiles /\ k \in Nat
            BY DEF FileInv
      <4> QED BY <1>0, <4>3, <4>4, <4>5, <4>6, RowsFromTo DEF Filled
    <3> QED BY <3>1, <3>2
  <2>2. met' \in BOOLEAN /\ bot' \in {"up", "starting", "broken"}
        BY <1>0, <1>5 DEF Discover
  <2>3. UNCHANGED <<clock, files, upload, alone, twin, failures>>
        BY <1>5 DEF Discover
  <2> QED BY <1>0, <2>1, <2>2, <2>3 DEF FileInv, StoreTypeOK
<1> QED BY <1>1, <1>2, <1>3, <1>4, <1>5 DEF StoreEffect

LEMMA FilesHold == Spec => []FileInv
<1>1. ASSUME Init PROVE FileInv
  <2>1. /\ 1 \in Names /\ 0 \in 0 .. MaxFailures /\ << >> \in Seq(Row)
        /\ NoUpload \in Upload
        BY StoreAssumption, NoUploadTyped DEF Names
  <2>2. \A u \in Uploaders : upload[u] = NoUpload
        BY <1>1 DEF Init, StoreInit
  <2>3. /\ clock = 1 /\ files = {} /\ rows = << >> /\ bot = "up" /\ alone = {}
        /\ met = FALSE /\ twin = FALSE /\ failures = 0
        /\ upload = [u \in Uploaders |-> NoUpload]
        BY <1>1 DEF Init, StoreInit
  <2>4. StoreTypeOK
        BY <2>1, <2>3 DEF StoreTypeOK
  <2>5. RowsHaveFiles
        BY <2>3 DEF RowsHaveFiles
  <2> QED BY <2>2, <2>4, <2>5, NoUploadTyped DEF FileInv
<1> QED BY <1>1, NobodyWhileDown, NextStoreEffect, FileKept, PTL DEF Spec

-----------------------------------------------------------------------------
(* Active rows                                                              *)

(* Every step keeps the rows, commits an upload or fills in what it found.  *)
RowChange ==
  \/ rows' = rows
  \/ \E u \in Uploaders : Commit(u)
  \/ \E k \in Nat \ {0} : \E names \in [1 .. k -> Names] : Filled(rows', rows, k, names)

LEMMA RowsChange ==
  ASSUME FileInv, StoreEffect
  PROVE  RowChange
<1>1. CASE Discover
      BY <1>1, DiscoverEffect DEF RowChange
<1>2. CASE ~Discover
      BY <1>2
         DEF StoreEffect, storeVars, UploadStep, TakeName, WriteFile, WriteFails, Begin,
             SessionFails, Uncommitted, Tick, StoreCrash, RowChange
<1> QED BY <1>1, <1>2

LEMMA SomeActiveKept ==
  ASSUME FileInv, SomeCookieActive, StoreEffect
  PROVE  SomeCookieActive'
<1>1. CASE rows' = rows
      BY <1>1 DEF SomeCookieActive, ActiveRows
<1>2. ASSUME NEW u \in Uploaders, Commit(u)
      PROVE  SomeCookieActive'
  <2>1. Len(rows) + 1 \in DOMAIN rows' /\ rows'[Len(rows) + 1].active
        BY <1>2, CommitEffect, RowsTyped DEF Grown
  <2> QED BY <2>1 DEF SomeCookieActive, ActiveRows
<1>3. ASSUME NEW k \in Nat \ {0}, NEW names \in [1 .. k -> Names],
             Filled(rows', rows, k, names)
      PROVE  SomeCookieActive'
  <2>1. Len(rows) + k \in DOMAIN rows'
        BY <1>3, RowsTyped DEF Filled
  <2>2. rows'[Len(rows) + k].active
    <3>1. k \in 1 .. k
          OBVIOUS
    <3>2. rows'[Len(rows) + k].active = (k = k)
          BY <1>3, <3>1 DEF Filled
    <3> QED BY <3>2
  <2> QED BY <2>1, <2>2 DEF SomeCookieActive, ActiveRows
<1> QED BY <1>1, <1>2, <1>3, RowsChange DEF RowChange

(* A transaction that met no other saw every row and is the only one.       *)
AloneInv ==
  /\ \A u \in alone : upload[u].pc = "commit" =>
       /\ upload[u].old = Len(rows)
       /\ \A v \in Uploaders \ {u} : upload[v].pc # "commit"
  /\ ~met => \A i, j \in ActiveRows : i = j

LEMMA AloneKept ==
  ASSUME FileInv, AloneInv, StoreEffect
  PROVE  AloneInv'
<1>0. /\ upload \in [Uploaders -> Upload] /\ alone \subseteq Uploaders
      BY DEF FileInv, StoreTypeOK
<1>1. ASSUME UNCHANGED <<rows, met, alone>>,
             \A u \in Uploaders : upload'[u].pc = "commit" => upload'[u] = upload[u]
      PROVE  AloneInv'
  <2>1. ActiveRows' = ActiveRows
        BY <1>1 DEF ActiveRows
  <2> QED BY <1>0, <1>1, <2>1 DEF AloneInv
<1>2. CASE UNCHANGED storeVars \/ Tick
      BY <1>1, <1>2 DEF storeVars, Tick
<1>3. CASE StoreCrash
      BY <1>1, <1>3, NoUploadTyped DEF StoreCrash
<1>4. ASSUME NEW u \in Uploaders, UploadStep(u)
      PROVE  AloneInv'
  <2>1. CASE TakeName(u)
    <3>1. [pc |-> "write", name |-> clock, old |-> 0].pc # "commit"
          OBVIOUS
    <3> QED BY <1>0, <1>1, <2>1, <3>1 DEF TakeName
  <2>2. CASE WriteFile(u)
    <3>1. [upload[u] EXCEPT !.pc = "begin"].pc = "begin"
          BY <1>0 DEF Upload
    <3>2. upload' = [upload EXCEPT ![u] = [upload[u] EXCEPT !.pc = "begin"]]
          BY <1>0, <2>2 DEF WriteFile
    <3> QED BY <1>0, <1>1, <2>2, <3>1, <3>2 DEF WriteFile
  <2>3. CASE WriteFails(u) \/ SessionFails(u)
        BY <1>0, <1>1, <2>3, NoUploadTyped DEF WriteFails, SessionFails, GiveUp
  <2>4. CASE Begin(u)
    <3>1. /\ upload'[u].pc = "commit" /\ upload'[u].old = Len(rows)
          /\ \A v \in Uploaders \ {u} : upload'[v] = upload[v]
      <4>1. /\ [upload[u] EXCEPT !.pc = "commit", !.old = Len(rows)].pc = "commit"
            /\ [upload[u] EXCEPT !.pc = "commit", !.old = Len(rows)].old = Len(rows)
            BY <1>0 DEF Upload
      <4>2. upload' = [upload EXCEPT ![u] =
                         [upload[u] EXCEPT !.pc = "commit", !.old = Len(rows)]]
            BY <1>0, <2>4 DEF Begin
      <4> QED BY <1>0, <4>1, <4>2
    <3>2. UNCHANGED <<rows, met>>
          BY <2>4 DEF Begin, Uncommitted
    <3>3. ActiveRows' = ActiveRows
          BY <3>2 DEF ActiveRows
    <3>4. CASE \E v \in Uploaders : upload[v].pc = "commit"
      <4>1. alone' = {}
            BY <2>4, <3>4 DEF Begin
      <4> QED BY <3>2, <3>3, <4>1 DEF AloneInv
    <3>5. CASE \A v \in Uploaders : upload[v].pc # "commit"
      <4>1. alone' = {u}
            BY <2>4, <3>5 DEF Begin
      <4>2. \A v \in Uploaders \ {u} : upload'[v].pc # "commit"
            BY <3>1, <3>5
      <4> QED BY <3>1, <3>2, <3>3, <4>1, <4>2 DEF AloneInv
    <3> QED BY <3>4, <3>5
  <2>5. CASE Commit(u)
    <3>1. /\ upload'[u] = NoUpload /\ alone' = alone /\ met' = (u \notin alone)
          /\ \A v \in Uploaders \ {u} : upload'[v] = upload[v]
          /\ upload[u].pc = "commit"
          BY <1>0, <2>5 DEF Commit
    <3>2. \A v \in alone : upload'[v].pc # "commit"
      <4> TAKE v \in alone
      <4>1. CASE v = u
            BY <3>1, <4>1, NoUploadTyped
      <4>2. CASE v # u
            BY <1>0, <3>1, <4>2 DEF AloneInv
      <4> QED BY <4>1, <4>2
    <3>3. ASSUME ~met' PROVE \A i, j \in ActiveRows' : i = j
      <4>1. upload[u].old = Len(rows)
            BY <3>1, <3>3 DEF AloneInv
      <4>2. /\ DOMAIN rows' = 1 .. Len(rows) + 1 /\ Len(rows) \in Nat
            /\ \A i \in 1 .. Len(rows) : ~rows'[i].active
            BY <2>5, <4>1, CommitEffect, RowsTyped DEF Grown
      <4>3. \A i \in ActiveRows' : i = Len(rows) + 1
            BY <4>2 DEF ActiveRows
      <4> QED BY <4>3
    <3> QED BY <3>1, <3>2, <3>3 DEF AloneInv
  <2> QED BY <1>4, <2>1, <2>2, <2>3, <2>4, <2>5 DEF UploadStep
<1>5. CASE Discover /\ \A u \in Uploaders : upload[u] = NoUpload
  <2>1. /\ \A u \in Uploaders : upload'[u].pc # "commit"
        /\ alone' = alone
        BY <1>5, NoUploadTyped DEF Discover
  <2>2. CASE rows' = rows /\ (met' <=> met)
    <3>1. ActiveRows' = ActiveRows
          BY <2>2 DEF ActiveRows
    <3> QED BY <1>0, <2>1, <2>2, <3>1 DEF AloneInv
  <2>3. ASSUME NEW k \in Nat \ {0}, NEW names \in [1 .. k -> Names],
               Filled(rows', rows, k, names)
        PROVE  AloneInv'
    <3>1. /\ DOMAIN rows' = 1 .. Len(rows) + k /\ Len(rows) \in Nat
          BY <2>3, RowsTyped DEF Filled
    <3>2. ASSUME NEW i \in ActiveRows' PROVE i = Len(rows) + k
      <4>1. i \in 1 .. Len(rows) + k /\ rows'[i].active
            BY <3>1, <3>2 DEF ActiveRows
      <4>2. ~(i <= Len(rows))
            BY <2>3, <3>1, <4>1 DEF Filled
      <4>3. i - Len(rows) \in 1 .. k /\ i = Len(rows) + (i - Len(rows))
            BY <3>1, <4>1, <4>2
      <4>4. rows'[Len(rows) + (i - Len(rows))].active = (i - Len(rows) = k)
            BY <2>3, <4>3 DEF Filled
      <4> QED BY <3>1, <4>1, <4>3, <4>4
    <3> QED BY <1>0, <2>1, <3>2 DEF AloneInv
  <2> QED BY <1>5, <2>2, <2>3, DiscoverEffect
<1> QED BY <1>2, <1>3, <1>4, <1>5 DEF StoreEffect

LEMMA OneAtMost ==
  ASSUME NEW S, \A i, j \in S : i = j
  PROVE  Cardinality(S) <= 1
<1>1. CASE S = {}
      BY <1>1, FS_EmptySet
<1>2. CASE S # {}
  <2>1. PICK i : i \in S
        BY <1>2
  <2>2. S = {i}
        BY <2>1
  <2>3. Cardinality({i}) = 1
        BY FS_Singleton
  <2> QED BY <2>2, <2>3
<1> QED BY <1>1, <1>2

-----------------------------------------------------------------------------
(* Names                                                                    *)

(* No two rows have one name, nor two uploads, nor an upload and a row.     *)
Distinct ==
  /\ \A i, j \in DOMAIN rows : rows[i].name = rows[j].name => i = j
  /\ \A u \in Uploaders : upload[u].pc # "none" =>
       /\ \A i \in DOMAIN rows : rows[i].name # upload[u].name
       /\ \A v \in Uploaders : upload[v].pc # "none" /\ upload[v].name = upload[u].name
                                 => u = v

NameInv == ~twin => Distinct /\ bot # "broken"

(* Uploads end, or keep their names.                                        *)
LEMMA DistinctAfter ==
  ASSUME Distinct, rows' = rows,
         \A u \in Uploaders : upload'[u].pc # "none" =>
           upload[u].pc # "none" /\ upload'[u].name = upload[u].name
  PROVE  Distinct'
  BY DEF Distinct

LEMMA NameKept ==
  ASSUME FileInv, NameInv, StoreEffect
  PROVE  NameInv'
<1>1. SUFFICES ASSUME ~twin' PROVE Distinct' /\ bot' # "broken"
      BY DEF NameInv
<1>2. /\ upload \in [Uploaders -> Upload] /\ \A u \in Uploaders : upload[u] \in Upload
      /\ twin \in BOOLEAN /\ clock \in Names
      /\ DOMAIN rows = 1 .. Len(rows) /\ Len(rows) \in Nat
      BY RowsTyped DEF FileInv, StoreTypeOK
<1>3. CASE UNCHANGED storeVars \/ Tick
  <2>1. UNCHANGED <<rows, upload, bot, twin>>
        BY <1>3 DEF storeVars, Tick
  <2> QED BY <1>1, <2>1, DistinctAfter DEF NameInv
<1>4. CASE StoreCrash
  <2>1. /\ UNCHANGED <<rows, twin>> /\ bot' = "starting"
        /\ \A u \in Uploaders : upload'[u] = NoUpload
        BY <1>4 DEF StoreCrash
  <2> QED BY <1>1, <2>1, NoUploadTyped, DistinctAfter DEF NameInv
<1>5. ASSUME NEW u \in Uploaders, UploadStep(u)
      PROVE  Distinct' /\ bot' # "broken"
  <2>0. bot' = bot
        BY <1>5 DEF UploadStep, TakeName, WriteFile, WriteFails, Begin, Commit, SessionFails
  <2>1. CASE TakeName(u)
    <3>1. /\ upload' = [upload EXCEPT ![u] = [pc |-> "write", name |-> clock, old |-> 0]]
          /\ rows' = rows /\ upload[u].pc = "none"
          BY <2>1 DEF TakeName
    <3>2. twin' = (twin \/ clock \in files \/ \E v \in Uploaders : upload[v].name = clock)
          BY <2>1 DEF TakeName
    <3>3. ~twin /\ clock \notin files /\ \A v \in Uploaders : upload[v].name # clock
          BY <1>1, <1>2, <3>2
    <3>4. /\ upload'[u].pc = "write" /\ upload'[u].name = clock
          /\ \A v \in Uploaders \ {u} : upload'[v] = upload[v]
          BY <1>2, <3>1
    <3>5. Distinct /\ bot # "broken"
          BY <3>3 DEF NameInv
    <3>6. \A i \in DOMAIN rows : rows[i].name # clock
          BY <3>3 DEF FileInv, RowsHaveFiles
    <3> QED BY <2>0, <3>1, <3>3, <3>4, <3>5, <3>6 DEF Distinct
  <2>2. CASE WriteFile(u) \/ WriteFails(u) \/ Begin(u) \/ SessionFails(u)
    <3>1. rows' = rows /\ twin' = twin /\ upload[u].pc # "none"
          BY <2>2 DEF WriteFile, WriteFails, Begin, Uncommitted, SessionFails
    <3>2. Distinct /\ bot # "broken"
          BY <1>1, <3>1 DEF NameInv
    <3>3. \A v \in Uploaders : upload'[v].pc # "none" =>
            upload[v].pc # "none" /\ upload'[v].name = upload[v].name
      <4>1. CASE WriteFile(u)
        <5>1. upload' = [upload EXCEPT ![u] = [upload[u] EXCEPT !.pc = "begin"]]
              BY <1>2, <4>1 DEF WriteFile
        <5>2. [upload[u] EXCEPT !.pc = "begin"].name = upload[u].name
              BY <1>2 DEF Upload
        <5> QED BY <1>2, <3>1, <5>1, <5>2
      <4>2. CASE WriteFails(u) \/ SessionFails(u)
            BY <1>2, <4>2, NoUploadTyped DEF WriteFails, SessionFails, GiveUp
      <4>3. CASE Begin(u)
        <5>1. upload' = [upload EXCEPT ![u] =
                           [upload[u] EXCEPT !.pc = "commit", !.old = Len(rows)]]
              BY <1>2, <4>3 DEF Begin
        <5>2. [upload[u] EXCEPT !.pc = "commit", !.old = Len(rows)].name = upload[u].name
              BY <1>2 DEF Upload
        <5> QED BY <1>2, <3>1, <5>1, <5>2
      <4> QED BY <2>2, <4>1, <4>2, <4>3
    <3> QED BY <2>0, <3>1, <3>2, <3>3, DistinctAfter
  <2>3. CASE Commit(u)
    <3>1. /\ twin' = twin /\ upload[u].pc = "commit"
          /\ upload'[u] = NoUpload
          /\ \A v \in Uploaders \ {u} : upload'[v] = upload[v]
          BY <1>2, <2>3 DEF Commit
    <3>2. Distinct /\ bot # "broken"
          BY <1>1, <3>1 DEF NameInv
    <3>3. /\ DOMAIN rows' = 1 .. Len(rows) + 1
          /\ \A i \in 1 .. Len(rows) : rows'[i].name = rows[i].name
          /\ rows'[Len(rows) + 1].name = upload[u].name
          BY <2>3, CommitEffect DEF Grown
    <3>4. \A i \in DOMAIN rows : rows[i].name # upload[u].name
          BY <3>1, <3>2 DEF Distinct
    <3>5. ASSUME NEW i \in DOMAIN rows', NEW j \in DOMAIN rows',
                 rows'[i].name = rows'[j].name
          PROVE  i = j
      <4>1. i \in 1 .. Len(rows) \/ i = Len(rows) + 1
            BY <1>2, <3>3
      <4>2. j \in 1 .. Len(rows) \/ j = Len(rows) + 1
            BY <1>2, <3>3
      <4> QED BY <1>2, <3>2, <3>3, <3>4, <3>5, <4>1, <4>2 DEF Distinct
    <3>6. ASSUME NEW v \in Uploaders, upload'[v].pc # "none"
          PROVE  /\ v # u /\ upload'[v] = upload[v]
                 /\ \A i \in DOMAIN rows' : rows'[i].name # upload'[v].name
      <4>1. v # u /\ upload'[v] = upload[v]
            BY <3>1, <3>6, NoUploadTyped
      <4>2. upload[v].name # upload[u].name
            BY <3>1, <3>2, <3>6, <4>1 DEF Distinct
      <4>3. \A i \in 1 .. Len(rows) : rows[i].name # upload[v].name
            BY <1>2, <3>2, <3>6, <4>1 DEF Distinct
      <4>4. \A i \in DOMAIN rows' : i \in 1 .. Len(rows) \/ i = Len(rows) + 1
            BY <1>2, <3>3
      <4> QED BY <3>3, <4>1, <4>2, <4>3, <4>4
    <3>7. \A v, w \in Uploaders :
            upload'[v].pc # "none" /\ upload'[w].pc # "none"
              /\ upload'[v].name = upload'[w].name => v = w
          BY <3>2, <3>6 DEF Distinct
    <3>8. Distinct'
          BY <3>5, <3>6, <3>7 DEF Distinct
    <3> QED BY <2>0, <3>2, <3>8
  <2> QED BY <1>5, <2>1, <2>2, <2>3 DEF UploadStep
<1>6. CASE Discover /\ \A u \in Uploaders : upload[u] = NoUpload
  <2>1. /\ twin' = twin /\ upload' = upload
        BY <1>6 DEF Discover
  <2>2. Distinct /\ bot # "broken"
        BY <1>1, <2>1 DEF NameInv
  <2>3. \A u \in Uploaders : upload'[u].pc = "none"
        BY <1>6, <2>1, NoUploadTyped
  <2>4. \A n \in files : Cardinality(RowsOf(n)) <= 1
    <3> TAKE n \in files
    <3>1. \A i, j \in RowsOf(n) : i = j
          BY <2>2 DEF Distinct, RowsOf
    <3> QED BY <3>1, OneAtMost
  <2>5. bot' = "up"
    <3>1. ~\E n \in files : Cardinality(RowsOf(n)) > 1
      <4>1. ASSUME NEW n \in files, Cardinality(RowsOf(n)) > 1 PROVE FALSE
        <5>1. Cardinality(RowsOf(n)) <= 1
              BY <2>4
        <5>2. IsFiniteSet(DOMAIN rows) /\ RowsOf(n) \in SUBSET DOMAIN rows
              BY <1>2, FS_Interval DEF RowsOf
        <5>3. Cardinality(RowsOf(n)) \in Nat
              BY <5>2, FS_Subset, FS_CardinalityType
        <5> QED BY <4>1, <5>1, <5>3
      <4> QED BY <4>1
    <3> QED BY <1>6, <3>1 DEF Discover
  <2>6. CASE rows' = rows
        BY <2>1, <2>2, <2>5, <2>6, DistinctAfter
  <2>7. ASSUME NEW k \in Nat \ {0}, NEW names \in [1 .. k -> Names],
               \A i \in 1 .. k : names[i] \in Unregistered,
               \A i, j \in 1 .. k : names[i] = names[j] => i = j,
               Filled(rows', rows, k, names)
        PROVE  Distinct'
    <3>1. /\ DOMAIN rows' = 1 .. Len(rows) + k
          /\ \A i \in 1 .. Len(rows) : rows'[i].name = rows[i].name
          /\ \A i \in 1 .. k : rows'[Len(rows) + i].name = names[i]
          BY <2>7 DEF Filled
    <3>2. \A i \in 1 .. Len(rows) + k :
            i \in 1 .. Len(rows) \/ \E m \in 1 .. k : i = Len(rows) + m
      <4> TAKE i \in 1 .. Len(rows) + k
      <4>1. CASE i <= Len(rows)
            BY <4>1
      <4>2. CASE i > Len(rows)
        <5>1. i - Len(rows) \in 1 .. k /\ i = Len(rows) + (i - Len(rows))
              BY <1>2, <4>2
        <5> QED BY <5>1
      <4> QED BY <1>2, <4>1, <4>2
    <3>3. \A m \in 1 .. k, i \in 1 .. Len(rows) : rows[i].name # names[m]
          BY <1>2, <2>7 DEF Unregistered, RowsOf
    <3>4. ASSUME NEW i \in DOMAIN rows', NEW j \in DOMAIN rows',
                 rows'[i].name = rows'[j].name
          PROVE  i = j
      <4>1. CASE i \in 1 .. Len(rows) /\ j \in 1 .. Len(rows)
            BY <1>2, <2>2, <3>1, <3>4, <4>1 DEF Distinct
      <4>2. ASSUME NEW m \in 1 .. k, i = Len(rows) + m, j \in 1 .. Len(rows)
            PROVE  FALSE
            BY <3>1, <3>3, <3>4, <4>2
      <4>3. ASSUME NEW m \in 1 .. k, j = Len(rows) + m, i \in 1 .. Len(rows)
            PROVE  FALSE
            BY <3>1, <3>3, <3>4, <4>3
      <4>4. ASSUME NEW m \in 1 .. k, NEW l \in 1 .. k, i = Len(rows) + m, j = Len(rows) + l
            PROVE  i = j
        <5>1. names[m] = names[l]
              BY <3>1, <3>4, <4>4
        <5>2. m = l
              BY <2>7, <5>1
        <5> QED BY <4>4, <5>2
      <4> QED BY <3>1, <3>2, <4>1, <4>2, <4>3, <4>4
    <3> QED BY <2>3, <3>4 DEF Distinct
  <2> QED BY <1>6, <2>5, <2>6, <2>7, DiscoverEffect
<1> QED BY <1>3, <1>4, <1>5, <1>6 DEF StoreEffect

-----------------------------------------------------------------------------
(* The theorems of the cookie store                                         *)

(* Every row has its file, which is written before the transaction that adds *)
(* the row begins (save_cookie_file of utils/cookies.py).                    *)
THEOREM EveryRowHasItsFile == Spec => []RowsHaveFiles
<1>1. FileInv => RowsHaveFiles
      BY DEF FileInv
<1> QED BY <1>1, FilesHold, PTL

(* Once there are cookies some are active, wherever an upload fails or the   *)
(* bot dies.                                                                 *)
THEOREM ActiveCookiesRemain == Spec => []SomeCookieActive
<1>1. Init => SomeCookieActive
      BY DEF Init, StoreInit, SomeCookieActive
<1> QED BY <1>1, FilesHold, NobodyWhileDown, NextStoreEffect, SomeActiveKept, PTL
        DEF Spec

(* One file is active at a time, but after transactions that overlapped.     *)
THEOREM OneActiveAlone == Spec => []OneActiveUnlessMet
<1>1. Init => AloneInv
      BY DEF Init, StoreInit, AloneInv, ActiveRows
<1>2. AloneInv => OneActiveUnlessMet
      BY OneAtMost DEF AloneInv, OneActiveUnlessMet
<1> QED BY <1>1, <1>2, FilesHold, NobodyWhileDown, NextStoreEffect, AloneKept, PTL
        DEF Spec

(* The bot starts after any death, but when two uploads got one name         *)
(* (discover_local_cookies of utils/cookies.py).                             *)
THEOREM BotStartsAgain == Spec => []StartsAgain
<1>1. ASSUME Init PROVE NameInv
  <2>1. /\ \A u \in Uploaders : upload[u] = NoUpload
        /\ rows = << >> /\ bot = "up"
        BY <1>1 DEF Init, StoreInit
  <2> QED BY <2>1, NoUploadTyped DEF NameInv, Distinct
<1>2. NameInv => StartsAgain
      BY DEF NameInv, StartsAgain
<1> QED BY <1>1, <1>2, FilesHold, NobodyWhileDown, NextStoreEffect, NameKept, PTL
        DEF Spec

-----------------------------------------------------------------------------
(* Types of all three parts (Desk).                                          *)
THEOREM TypesHold == Spec => []TypeOK
<1>1. DoorTypes => DoorTypeOK
      BY DEF DoorTypes
<1>2. DialogueTypes => DialogueTypeOK
      BY RemaindersAreShort DEF DialogueTypes, DialogueTypeOK
<1>3. FileInv => StoreTypeOK
      BY DEF FileInv
<1>4. DoorTypes /\ DialogueTypes /\ FileInv => TypeOK
      BY <1>1, <1>2, <1>3 DEF TypeOK
<1> QED BY <1>4, DoorTypesHold, DialogueTypesHold, FilesHold, PTL
=============================================================================
