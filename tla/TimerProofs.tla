---------------------------- MODULE TimerProofs ----------------------------
(***************************************************************************)
(* StatusTimers for every value of the constants: no ON_QUEUE row without  *)
(* expire_time, no started P2P or GROUP row without questions.             *)
(*                                                                         *)
(* It is not inductive: Save writes a whole copy over a row, so a row is   *)
(* only as good as the copies in flight.  The strengthening SoundCopies    *)
(* says of every copy that may still be saved that it is timed itself, and *)
(* that its type is the one of the row it will be written to, which no     *)
(* statement changes.                                                      *)
(***************************************************************************)
EXTENDS BattleSystemProofs

\* A copy that may be saved over the row with its id, whatever that row is now.
Sound(b) ==
    /\ RowIsTimed(b)
    /\ b.id <= battleSeq
    /\ \A r \in battles : r.id = b.id => r.type = b.type

\* Where a handler holds a battle that it read and may still save, and where it
\* read that battle WAITING.
LobbyLabels ==
    {"existsInBattle", "createParticipant", "saveLevel", "countMembers", "setOnQueue",
     "changeCount", "changeSave"}

LoadedLabels ==
    LobbyLabels \cup
    {"createCreator", "findOpponent", "startBattle",
     "confirmFindMember", "confirmSave", "countConfirmed"}

SoundHandler(s) ==
    /\ s.at \in LoadedLabels => Sound(s.b)
    /\ s.at \in LobbyLabels => s.b.status = "WAITING"

SoundKicker(k) ==
    /\ \A b \in k.todo : Sound(b) /\ b.status = "ON_QUEUE"
    /\ k.at \in {"kick", "reset"} => Sound(k.b) /\ k.b.type # "AI"

SoundEnder(e) ==
    /\ \A b \in e.todo : Sound(b) /\ b.status = "ON_GOING"
    /\ e.at = "saveBattle" => Sound(e.b)

\* The inductive invariant.
SoundCopies ==
    /\ \A b \in battles : Sound(b)
    /\ \A h \in Handlers : SoundHandler(handler[h])
    /\ SoundKicker(kicker)
    /\ SoundEnder(ender)

\* Saving c leaves the row it hits timed.
TimedSave(c) ==
    \A r \in battles : r.id = c.id => RowIsTimed(SavedRow(r, c))

\* A statement that inserts only timed rows and saves only timed copies.
RowsRemoved == battles' \subseteq battles /\ battleSeq' = battleSeq

RowSaved ==
    \E c \in Battle : SaveBattle(c) /\ TimedSave(c) /\ battleSeq' = battleSeq

RowCreated ==
    \E c \in Battle : CreateBattle(c) /\ RowIsTimed(c)

TimedStep == RowsRemoved \/ RowSaved \/ RowCreated

-----------------------------------------------------------------------------
(* Copies *)

LEMMA SoundSave ==
    ASSUME PgTypeOK, NEW c \in Battle, Sound(c)
    PROVE  TimedSave(c)
BY DEF PgTypeOK, Sound, TimedSave, SavedRow, RowIsTimed, Battle

\* A sound copy stays sound, whatever others write.
LEMMA SoundStays ==
    ASSUME PgTypeOK, NEW b \in Battle, Sound(b), TimedStep
    PROVE  /\ b.id <= battleSeq'
           /\ \A r \in battles' : r.id = b.id => r.type = b.type
<1> USE DEF PgTypeOK, Sound
<1>1. CASE RowsRemoved
      BY <1>1 DEF RowsRemoved
<1>2. CASE RowSaved
  <2>1. PICK c \in Battle : SaveBattle(c) /\ battleSeq' = battleSeq
        BY <1>2 DEF RowSaved
  <2>2. \A r \in battles : SavedRow(r, c).id = r.id /\ SavedRow(r, c).type = r.type
        BY DEF SavedRow, Battle
  <2> QED BY <2>1, <2>2 DEF SaveBattle
<1>3. CASE RowCreated
  <2>1. PICK c \in Battle : CreateBattle(c)
        BY <1>3 DEF RowCreated
  <2>2. NewBattleRow(c).id = battleSeq + 1
        BY DEF NewBattleRow, Battle
  <2>3. b.id \in Nat /\ b.id # NewBattleRow(c).id
        BY <2>2 DEF Battle
  <2> QED BY <2>1, <2>3 DEF CreateBattle, Battle
<1> QED BY <1>1, <1>2, <1>3 DEF TimedStep

LEMMA SoundStaysPrimed ==
    ASSUME PgTypeOK, NEW b \in Battle, Sound(b), TimedStep
    PROVE  Sound(b)'
BY SoundStays DEF Sound, RowIsTimed

\* The rows stay sound.
LEMMA RowsStaySound ==
    ASSUME PgTypeOK, \A b \in battles : Sound(b), TimedStep
    PROVE  (\A b \in battles : Sound(b))'
<1>0. \A b \in battles : b \in Battle /\ Sound(b)'
      BY SoundStaysPrimed DEF PgTypeOK
<1>1. CASE RowsRemoved
      BY <1>0, <1>1 DEF RowsRemoved
<1>2. CASE RowSaved
  <2>1. PICK c \in Battle : SaveBattle(c) /\ TimedSave(c)
        BY <1>2 DEF RowSaved
  <2>2. ASSUME NEW r \in battles, r.id = c.id
        PROVE  Sound(SavedRow(r, c))'
    <3>1. SavedRow(r, c).id = r.id /\ SavedRow(r, c).type = r.type
          BY <1>0 DEF SavedRow, Battle
    <3>2. RowIsTimed(SavedRow(r, c))
          BY <2>1, <2>2 DEF TimedSave
    <3> QED BY <1>0, <3>1, <3>2 DEF Sound, RowIsTimed
  <2> QED BY <1>0, <2>1, <2>2 DEF SaveBattle
<1>3. CASE RowCreated
  <2>1. PICK c \in Battle : CreateBattle(c) /\ RowIsTimed(c)
        BY <1>3 DEF RowCreated
  <2>2. PICK row : row = NewBattleRow(c)
        OBVIOUS
  <2>3. row.id = battleSeq + 1 /\ RowIsTimed(row)
        BY <2>1, <2>2 DEF NewBattleRow, Battle, RowIsTimed
  <2>4. battles' = battles \cup {row} /\ battleSeq' = battleSeq + 1
        BY <2>1, <2>2 DEF CreateBattle
  <2>5. \A r \in battles : r.id # row.id
        BY <1>0, <2>3 DEF PgTypeOK, Sound, Battle
  <2>6. Sound(row)'
        BY <2>3, <2>4, <2>5 DEF Sound, RowIsTimed, PgTypeOK
  <2> QED BY <1>0, <2>4, <2>6
<1> QED BY <1>1, <1>2, <1>3 DEF TimedStep

\* Sound local variables stay sound.
LEMMA HandlersStaySound ==
    ASSUME PgTypeOK, NEW s, s.b \in Battle, SoundHandler(s), TimedStep
    PROVE  SoundHandler(s)'
BY SoundStaysPrimed DEF SoundHandler

-----------------------------------------------------------------------------
(* Steps of a handler: control *)

\* A handler ends its step in a sound state, and leaves the other handlers alone.
ControlSound(h) ==
    /\ \A g \in Handlers \ {h} : handler'[g] = handler[g]
    /\ SoundHandler(handler'[h])

\* A handler at label holds what it held before.
Kept(h, label) ==
    /\ label \in LoadedLabels => handler[h].at \in LoadedLabels
    /\ label \in LobbyLabels => handler[h].at \in LobbyLabels

LEMMA ReturnSound ==
    ASSUME ApiTypeOK, NEW h \in Handlers, Return(h) \/ Respond(h)
    PROVE  ControlSound(h)
BY DEF ApiTypeOK, Return, Respond, Idle, ControlSound, SoundHandler, LoadedLabels,
       LobbyLabels

LEMMA HoldBattleSound ==
    ASSUME ApiTypeOK, NEW h \in Handlers, NEW b \in Battle, NEW label,
           HoldBattle(h, b, label),
           label \in LoadedLabels => Sound(b),
           label \in LobbyLabels => b.status = "WAITING"
    PROVE  ControlSound(h)
<1>1. handler'[h].b = b /\ handler'[h].at = label
      BY DEF ApiTypeOK, HandlerState, HoldBattle
<1> QED BY <1>1 DEF ApiTypeOK, HoldBattle, ControlSound, SoundHandler

LEMMA HoldMemberSound ==
    ASSUME ApiTypeOK, NEW h \in Handlers, SoundHandler(handler[h]), NEW m, NEW label,
           HoldMember(h, m, label) \/ HoldMembers(h, m, label), Kept(h, label)
    PROVE  ControlSound(h)
<1>1. handler'[h].b = handler[h].b /\ handler'[h].at = label
      BY DEF ApiTypeOK, HandlerState, HoldMember, HoldMembers
<1> QED BY <1>1 DEF ApiTypeOK, HoldMember, HoldMembers, Kept, ControlSound, SoundHandler

LEMMA GotoSound ==
    ASSUME ApiTypeOK, NEW h \in Handlers, SoundHandler(handler[h]), NEW label,
           Goto(h, label), Kept(h, label)
    PROVE  ControlSound(h)
<1>1. CASE label = "idle"
      BY <1>1, ReturnSound DEF Goto
<1>2. CASE label # "idle"
  <2>1. handler'[h].b = handler[h].b /\ handler'[h].at = label
        BY <1>2 DEF ApiTypeOK, HandlerState, Goto
  <2> QED BY <1>2, <2>1 DEF ApiTypeOK, Goto, Kept, ControlSound, SoundHandler
<1> QED BY <1>1, <1>2

\* What has to be shown of a step of a handler.
HandlerSafe(h) == TimedStep /\ ControlSound(h)

LEMMA InsertMemberSound ==
    ASSUME ApiTypeOK, NEW h \in Handlers, SoundHandler(handler[h]), NEW m, NEW next,
           InsertMember(h, m, next), Kept(h, next)
    PROVE  ControlSound(h)
BY ReturnSound, GotoSound DEF InsertMember

LEMMA MakeAIOpponentSound ==
    ASSUME ApiTypeOK, NEW h \in Handlers, SoundHandler(handler[h]), NEW next,
           MakeAIOpponent(h, next), Kept(h, next)
    PROVE  ControlSound(h)
BY ReturnSound, InsertMemberSound DEF MakeAIOpponent

LEMMA FindBattleSound ==
    ASSUME TypeInv, SoundCopies, NEW h \in Handlers, NEW from, NEW next,
           \A b \in battles : next[b] \in LobbyLabels => b.status = "WAITING",
           FindBattle(h, from, next)
    PROVE  HandlerSafe(h)
<1>1. TimedStep
      BY DEF FindBattle, pgVars, TimedStep, RowsRemoved
<1>2. CASE Return(h)
      BY <1>1, <1>2, ReturnSound DEF TypeInv, TypeOK, HandlerSafe
<1>3. CASE \E b \in battles : HoldBattle(h, b, next[b])
  <2>1. PICK b \in battles : HoldBattle(h, b, next[b])
        BY <1>3
  <2>2. b \in Battle /\ Sound(b)
        BY DEF TypeInv, TypeOK, PgTypeOK, SoundCopies
  <2> QED BY <1>1, <2>1, <2>2, HoldBattleSound DEF TypeInv, TypeOK, HandlerSafe
<1> QED BY <1>2, <1>3 DEF FindBattle, FindByUUID

LEMMA FindMemberSound ==
    ASSUME TypeInv, SoundCopies, NEW h \in Handlers, NEW from, NEW next, NEW otherwise,
           \A m \in members : Kept(h, next[m]),
           Kept(h, otherwise),
           FindMember(h, from, next, otherwise)
    PROVE  HandlerSafe(h)
<1>1. TimedStep
      BY DEF FindMember, pgVars, TimedStep, RowsRemoved
<1> QED BY <1>1, GotoSound, HoldMemberSound
        DEF FindMember, FindByBattleAndStudent, MembersOf, TypeInv, TypeOK, SoundCopies,
            HandlerSafe

-----------------------------------------------------------------------------
(* Steps of a handler *)

LEMMA HandlerLocals ==
    ASSUME TypeInv, SoundCopies, NEW h \in Handlers
    PROVE  /\ PgTypeOK /\ ApiTypeOK
           /\ handler[h].b \in Battle
           /\ SoundHandler(handler[h])
BY Locals DEF TypeInv, TypeOK, SoundCopies

LEMMA LobbyCopyIsNotAI ==
    ASSUME NEW b, RowIsTimed(b), b.status = "WAITING" \/ b.status = "ON_QUEUE"
    PROVE  b.type # "AI"
BY DEF RowIsTimed

\* A copy saved as it stands, or with other fields that leave it sound.
LEMMA HandlerSaves ==
    ASSUME TypeInv, NEW c \in Battle, Sound(c), SaveBattle(c), battleSeq' = battleSeq
    PROVE  TimedStep
BY SoundSave DEF TypeInv, TypeOK, TimedStep, RowSaved

LEMMA FindSafe ==
    ASSUME TypeInv, SoundCopies, NEW h \in Handlers,
           \/ FindWaitingBattle(h) \/ CheckExistsInBattle(h) \/ CreateParticipant(h)
           \/ CountMembers(h) \/ CreateCreator(h) \/ FindOpponent(h)
    PROVE  HandlerSafe(h)
<1> USE HandlerLocals DEF HandlerSafe, TimedStep, RowsRemoved, Kept, LoadedLabels,
                          LobbyLabels, At
<1>1. CASE FindWaitingBattle(h)
  <2>1. CASE \E b \in FindWaiting(handler[h].b.type) : HoldBattle(h, b, "existsInBattle")
    <3>1. PICK b \in battles : b.status = "WAITING" /\ HoldBattle(h, b, "existsInBattle")
          BY <2>1 DEF FindWaiting
    <3>2. b \in Battle /\ Sound(b)
          BY DEF PgTypeOK, SoundCopies
    <3> QED BY <1>1, <3>1, <3>2, HoldBattleSound DEF FindWaitingBattle, pgVars
  <2>2. CASE Goto(h, "createBattle")
        BY <1>1, <2>2, GotoSound DEF FindWaitingBattle, pgVars
  <2> QED BY <1>1, <2>1, <2>2 DEF FindWaitingBattle
<1>2. CASE CheckExistsInBattle(h)
      BY <1>2, ReturnSound, GotoSound DEF CheckExistsInBattle, pgVars
<1>3. CASE CreateParticipant(h)
      BY <1>3, InsertMemberSound DEF CreateParticipant
<1>4. CASE CountMembers(h)
      BY <1>4, GotoSound DEF CountMembers, pgVars
<1>5. CASE CreateCreator(h)
      BY <1>5, InsertMemberSound DEF CreateCreator
<1>6. CASE FindOpponent(h)
      BY <1>6, MakeAIOpponentSound DEF FindOpponent
<1> QED BY <1>1, <1>2, <1>3, <1>4, <1>5, <1>6

\* The level of a waiting battle may be lowered, its status moved to ON_QUEUE.
LEMMA LobbySafe ==
    ASSUME TypeInv, SoundCopies, NEW h \in Handlers, LowerLevel(h) \/ SetOnQueue(h)
    PROVE  HandlerSafe(h)
<1> DEFINE b == handler[h].b
<1> USE HandlerLocals DEF HandlerSafe
<1>0. b \in Battle /\ Sound(b) /\ b.status = "WAITING" /\ b.type # "AI"
      BY LobbyCopyIsNotAI
         DEF LowerLevel, SetOnQueue, At, SoundHandler, LoadedLabels, LobbyLabels, Sound
<1>1. CASE LowerLevel(h)
  <2>1. CASE b.level <= Level[handler[h].student]
        BY <1>1, <2>1, GotoSound
           DEF LowerLevel, TimedStep, RowsRemoved, Kept, At, LoadedLabels, LobbyLabels
  <2>2. CASE ~(b.level <= Level[handler[h].student])
    <3>1. PICK c : c = [b EXCEPT !.level = Level[handler[h].student]]
          OBVIOUS
    <3>2. Level[handler[h].student] \in Nat
          BY <1>1, StudentsAssumption DEF LowerLevel, TypeInv, StudentsAtWork, At
    <3>3. c \in Battle /\ c.status = "WAITING" /\ Sound(c)
          BY <1>0, <3>1, <3>2 DEF Battle, Sound, RowIsTimed
    <3>4. CASE SaveBattle(c) /\ HoldBattle(h, c, "countMembers")
          BY <1>1, <3>3, <3>4, HandlerSaves, HoldBattleSound DEF LowerLevel
    <3>5. CASE Return(h) /\ UNCHANGED battles
          BY <1>1, <3>5, ReturnSound DEF LowerLevel, TimedStep, RowsRemoved
    <3> QED BY <1>1, <2>2, <3>1, <3>4, <3>5 DEF LowerLevel
  <2> QED BY <2>1, <2>2
<1>2. CASE SetOnQueue(h)
  <2>1. PICK c : c = OnQueue(b)
        OBVIOUS
  <2>2. c \in Battle /\ Sound(c)
        BY <1>0, <2>1 DEF OnQueue, Battle, BattleStatus, Sound, RowIsTimed
  <2>3. CASE SaveBattle(c) /\ Respond(h)
        BY <1>2, <2>2, <2>3, HandlerSaves, ReturnSound DEF SetOnQueue
  <2>4. CASE Return(h) /\ UNCHANGED battles
        BY <1>2, <2>4, ReturnSound DEF SetOnQueue, TimedStep, RowsRemoved
  <2> QED BY <1>2, <2>1, <2>3, <2>4 DEF SetOnQueue
<1> QED BY <1>1, <1>2

\* A started battle has its questions.
LEMMA StartSafe ==
    ASSUME TypeInv, SoundCopies, NEW h \in Handlers,
           StartBattle(h) \/ LoadAI(h) \/ SaveAI(h)
    PROVE  HandlerSafe(h)
<1> USE HandlerLocals DEF HandlerSafe
<1>1. CASE StartBattle(h)
  <2>1. PICK qs \in QuestionSets :
          IF qs = {} THEN Respond(h) /\ UNCHANGED battles
          ELSE IF BattleStored(Started(handler[h].b, qs))
                 THEN /\ SaveBattle(Started(handler[h].b, qs))
                      /\ HoldBattle(h, Started(handler[h].b, qs), "loadAI")
                 ELSE Return(h) /\ UNCHANGED battles
        BY <1>1 DEF StartBattle
  <2>2. PICK c : c = Started(handler[h].b, qs)
        OBVIOUS
  <2>3. Sound(handler[h].b)
        BY <1>1 DEF StartBattle, At, SoundHandler, LoadedLabels
  <2>4. c \in Battle /\ (qs # {} => Sound(c))
        BY <2>2, <2>3 DEF Started, Battle, BattleStatus, Questions, Sound, RowIsTimed
  <2>5. CASE qs # {} /\ SaveBattle(c) /\ HoldBattle(h, c, "loadAI")
        BY <1>1, <2>4, <2>5, HandlerSaves, HoldBattleSound
           DEF StartBattle, LoadedLabels, LobbyLabels
  <2>6. CASE (Respond(h) \/ Return(h)) /\ UNCHANGED battles
        BY <1>1, <2>6, ReturnSound DEF StartBattle, TimedStep, RowsRemoved
  <2> QED BY <2>1, <2>2, <2>5, <2>6
<1>2. CASE LoadAI(h)
      BY <1>2, ReturnSound, HoldMemberSound
         DEF LoadAI, pgVars, TimedStep, RowsRemoved, Kept, LoadedLabels, LobbyLabels
<1>3. CASE SaveAI(h)
      BY <1>3, ReturnSound, HoldMemberSound
         DEF SaveAI, TimedStep, RowsRemoved, Kept, LoadedLabels, LobbyLabels
<1> QED BY <1>1, <1>2, <1>3

LEMMA ConfirmSafe ==
    ASSUME TypeInv, SoundCopies, NEW h \in Handlers,
           ConfirmFind(h) \/ ConfirmFindMember(h) \/ ConfirmSave(h) \/ CountConfirmed(h)
    PROVE  HandlerSafe(h)
<1> USE HandlerLocals DEF LoadedLabels, LobbyLabels
<1>1. CASE ConfirmFind(h)
      BY <1>1, FindBattleSound DEF ConfirmFind
<1>2. CASE ConfirmFindMember(h)
  <2>1. Kept(h, "confirmSave") /\ Kept(h, "idle")
        BY <1>2 DEF ConfirmFindMember, FindMember, Kept, At
  <2> QED BY <1>2, <2>1, FindMemberSound DEF ConfirmFindMember
<1>3. CASE ConfirmSave(h)
      BY <1>3, ReturnSound, HoldMemberSound
         DEF ConfirmSave, HandlerSafe, TimedStep, RowsRemoved, Kept, At
<1>4. CASE CountConfirmed(h)
      BY <1>4, GotoSound DEF CountConfirmed, pgVars, HandlerSafe, TimedStep, RowsRemoved,
                             Kept, At
<1> QED BY <1>1, <1>2, <1>3, <1>4

LEMMA SaveHeldSafe ==
    ASSUME ApiTypeOK, NEW h \in Handlers, NEW m, SaveHeld(h, m)
    PROVE  HandlerSafe(h)
BY ReturnSound DEF SaveHeld, HandlerSafe, TimedStep, RowsRemoved

LEMMA AnswerSafe ==
    ASSUME TypeInv, SoundCopies, NEW h \in Handlers,
           AnswerFind(h) \/ AnswerFindMember(h) \/ AnswerSave(h)
    PROVE  HandlerSafe(h)
<1> USE HandlerLocals DEF LoadedLabels, LobbyLabels
<1>1. CASE AnswerFind(h)
      BY <1>1, FindBattleSound DEF AnswerFind, AfterAnswerFind
<1>2. CASE AnswerFindMember(h)
      BY <1>2, FindMemberSound DEF AnswerFindMember, Kept
<1>3. CASE AnswerSave(h)
      BY <1>3, SaveHeldSafe, ReturnSound
         DEF AnswerSave, pgVars, HandlerSafe, TimedStep, RowsRemoved
<1> QED BY <1>1, <1>2, <1>3

LEMMA LeaveSafe ==
    ASSUME TypeInv, SoundCopies, NEW h \in Handlers,
           \/ LeaveFind(h) \/ LeaveDeleteMembers(h) \/ LeaveDeleteBattle(h)
           \/ LeaveFindMember(h) \/ LeaveSave(h) \/ LeaveDelete(h)
    PROVE  HandlerSafe(h)
<1> USE HandlerLocals DEF LoadedLabels, LobbyLabels
<1>1. CASE LeaveFind(h)
      BY <1>1, FindBattleSound DEF LeaveFind, AfterLeaveFind
<1>2. CASE LeaveDeleteMembers(h)
      BY <1>2, GotoSound DEF LeaveDeleteMembers, HandlerSafe, TimedStep, RowsRemoved, Kept
<1>3. CASE LeaveDeleteBattle(h)
      BY <1>3, ReturnSound
         DEF LeaveDeleteBattle, DeleteBattle, HandlerSafe, TimedStep, RowsRemoved
<1>4. CASE LeaveFindMember(h)
      BY <1>4, FindMemberSound DEF LeaveFindMember, AfterLeaveFindMember, Kept
<1>5. CASE LeaveSave(h)
      BY <1>5, SaveHeldSafe DEF LeaveSave
<1>6. CASE LeaveDelete(h)
      BY <1>6, ReturnSound DEF LeaveDelete, HandlerSafe, TimedStep, RowsRemoved
<1> QED BY <1>1, <1>2, <1>3, <1>4, <1>5, <1>6

\* The copy that ChangeSave makes ON_QUEUE was WAITING, so the row is not an AI
\* battle's, whatever type the copy claims.
LEMMA ChangeSafe ==
    ASSUME TypeInv, SoundCopies, NEW h \in Handlers,
           ChangeFind(h) \/ ChangeCount(h) \/ ChangeSave(h) \/ ChangeOpponent(h)
    PROVE  HandlerSafe(h)
<1> DEFINE b == handler[h].b
<1> USE HandlerLocals DEF LoadedLabels, LobbyLabels
<1>1. CASE ChangeFind(h)
      BY <1>1, FindBattleSound DEF ChangeFind, AfterChangeFind
<1>2. CASE ChangeCount(h)
      BY <1>2, GotoSound
         DEF ChangeCount, pgVars, HandlerSafe, TimedStep, RowsRemoved, Kept, At
<1>3. CASE ChangeSave(h)
  <2>0. b \in Battle /\ Sound(b) /\ b.status = "WAITING" /\ b.type # "AI"
        BY <1>3, LobbyCopyIsNotAI DEF ChangeSave, At, SoundHandler, Sound
  <2>1. PICK c : c = [OnQueue(b) EXCEPT !.type = "AI"]
        OBVIOUS
  <2>2. c \in Battle
        BY <2>0, <2>1 DEF OnQueue, Battle, BattleStatus, BattleType
  <2>3. TimedSave(c)
        BY <2>0, <2>1
           DEF OnQueue, Battle, PgTypeOK, Sound, TimedSave, SavedRow, RowIsTimed
  <2>4. CASE SaveBattle(c) /\ HoldBattle(h, c, "changeOpponent")
    <3>1. TimedStep
          BY <1>3, <2>2, <2>3, <2>4 DEF ChangeSave, TimedStep, RowSaved
    <3> QED BY <2>2, <2>4, <3>1, HoldBattleSound DEF HandlerSafe
  <2>5. CASE Return(h) /\ UNCHANGED battles
        BY <1>3, <2>5, ReturnSound DEF ChangeSave, HandlerSafe, TimedStep, RowsRemoved
  <2> QED BY <1>3, <2>1, <2>4, <2>5 DEF ChangeSave
<1>4. CASE ChangeOpponent(h)
      BY <1>4, MakeAIOpponentSound DEF ChangeOpponent, HandlerSafe, TimedStep,
                                       RowsRemoved, Kept
<1> QED BY <1>1, <1>2, <1>3, <1>4

-----------------------------------------------------------------------------
(* Steps of the worker *)

LEMMA KickNextSound ==
    ASSUME NEW todo, \A b \in todo : Sound(b) /\ b.status = "ON_QUEUE", KickNext(todo)
    PROVE  SoundKicker(kicker')
BY DEF KickNext, KickerIdle, SoundKicker

\* The kicker goes on at label with fewer battles, holding what it held.
LEMMA KickerHolds ==
    ASSUME SoundKicker(kicker), kicker.at \in {"kick", "reset"},
           kicker'.todo = kicker.todo, kicker'.b = kicker.b
    PROVE  SoundKicker(kicker')
BY DEF SoundKicker

LEMMA KickerSafe ==
    ASSUME TypeInv, SoundCopies, KickerStep \/ KickError
    PROVE  TimedStep /\ SoundKicker(kicker')
<1> USE DEF TypeInv, TypeOK, SoundCopies
<1>0. \A b \in kicker.todo : Sound(b) /\ b.status = "ON_QUEUE"
      BY DEF SoundKicker
<1>1. CASE KickScan
      BY <1>1, KickNextSound
         DEF KickScan, MayBeExpiredOnQueue, pgVars, TimedStep, RowsRemoved
<1>2. CASE KickLoad
  <2>1. PICK b \in kicker.todo :
          kicker'.todo = kicker.todo \ {b} /\ kicker'.b = b
        BY <1>2 DEF KickLoad
  <2>2. b.type # "AI"
        BY <1>0, LobbyCopyIsNotAI DEF Sound
  <2> QED BY <1>0, <1>2, <2>1, <2>2
          DEF KickLoad, pgVars, TimedStep, RowsRemoved, SoundKicker
<1>3. CASE KickDeleteMembers
      BY <1>3 DEF KickDeleteMembers, TimedStep, RowsRemoved, SoundKicker, WorkerTypeOK,
                  KickerState
<1>4. CASE KickDeleteBattle
      BY <1>0, <1>4, KickNextSound
         DEF KickDeleteBattle, DeleteBattle, TimedStep, RowsRemoved
<1>5. CASE KickMember
  <2>1. kicker'.todo = kicker.todo /\ kicker'.b = kicker.b
        BY <1>5 DEF KickMember, KickedOne, WorkerTypeOK, KickerState
  <2> QED BY <1>5, <2>1, KickerHolds DEF KickMember, TimedStep, RowsRemoved
<1>6. CASE KickReset
  <2>1. PICK c : c = Reset(kicker.b)
        OBVIOUS
  <2>2. Sound(kicker.b) /\ kicker.b.type # "AI"
        BY <1>6 DEF KickReset, SoundKicker
  <2>3. c \in Battle /\ Sound(c)
        BY <2>1, <2>2, WorkerLocals DEF Reset, Battle, BattleStatus, Sound, RowIsTimed
  <2>4. CASE SaveBattle(c) /\ kicker' = [kicker EXCEPT !.b = c, !.at = "unconfirm"]
    <3>1. TimedStep
          BY <1>6, <2>3, <2>4, HandlerSaves DEF KickReset
    <3>2. SoundKicker(kicker')
          BY <1>0, <2>4 DEF SoundKicker, WorkerTypeOK, KickerState
    <3> QED BY <3>1, <3>2
  <2>5. CASE KickNext(kicker.todo) /\ UNCHANGED battles
        BY <1>0, <1>6, <2>5, KickNextSound DEF KickReset, TimedStep, RowsRemoved
  <2> QED BY <1>6, <2>1, <2>4, <2>5 DEF KickReset
<1>7. CASE KickUnconfirm
  <2>1. CASE KickNext(kicker.todo)
        BY <1>0, <1>7, <2>1, KickNextSound DEF KickUnconfirm, TimedStep, RowsRemoved
  <2>2. CASE kicker'.todo = kicker.todo /\ kicker'.at = kicker.at
        BY <1>0, <1>7, <2>2 DEF KickUnconfirm, TimedStep, RowsRemoved, SoundKicker
  <2>3. \/ KickNext(kicker.todo)
        \/ kicker'.todo = kicker.todo /\ kicker'.at = kicker.at
        BY <1>7 DEF KickUnconfirm, UnconfirmedOne, WorkerTypeOK, KickerState
  <2> QED BY <2>1, <2>2, <2>3
<1>8. CASE KickError
  <2>1. TimedStep
        BY <1>8 DEF KickError, pgVars, TimedStep, RowsRemoved
  <2>2. CASE \E b \in kicker.todo : KickNext(kicker.todo \ {b})
        BY <1>0, <2>1, <2>2, KickNextSound
  <2>3. CASE KickNext(kicker.todo)
        BY <1>0, <2>1, <2>3, KickNextSound
  <2>4. CASE kicker' = [kicker EXCEPT !.at = "deleteBattle"]
        BY <1>0, <2>1, <2>4 DEF SoundKicker, WorkerTypeOK, KickerState
  <2>5. CASE kicker.at = "kick" /\ \E m : KickedOne(m)
    <3>1. kicker'.todo = kicker.todo /\ kicker'.b = kicker.b
          BY <2>5 DEF KickedOne, WorkerTypeOK, KickerState
    <3> QED BY <2>1, <2>5, <3>1, KickerHolds
  <2>6. CASE kicker'.todo = kicker.todo /\ kicker'.at = "unconfirm"
        BY <1>0, <2>1, <2>6 DEF SoundKicker
  <2> QED BY <1>8, <2>2, <2>3, <2>4, <2>5, <2>6
          DEF KickError, UnconfirmedOne, WorkerTypeOK, KickerState
<1> QED BY <1>1, <1>2, <1>3, <1>4, <1>5, <1>6, <1>7, <1>8 DEF KickerStep

LEMMA WorkSound ==
    ASSUME NEW pass \in {"Expired", "Idle", "Finished"}, NEW todo, NEW idle,
           \A b \in todo : Sound(b) /\ b.status = "ON_GOING",
           Work(pass, todo, idle)
    PROVE  SoundEnder(ender')
<1>1. AfterPass[pass] # "saveBattle" /\ LoadLabel[pass] # "saveBattle"
  <2>1. CASE pass = "Expired"
        BY <2>1 DEF AfterPass, LoadLabel
  <2>2. CASE pass = "Idle"
        BY <2>2 DEF AfterPass, LoadLabel
  <2>3. CASE pass = "Finished"
        BY <2>3 DEF AfterPass, LoadLabel
  <2> QED BY <2>1, <2>2, <2>3
<1>2. CASE todo = {}
      BY <1>1, <1>2 DEF Work, EnderIdle, SoundEnder
<1>3. CASE todo # {}
      BY <1>1, <1>3 DEF Work, EnderIdle, SoundEnder
<1> QED BY <1>2, <1>3

LEMMA EndNextSound ==
    ASSUME NEW pass \in {"Expired", "Idle", "Finished"}, NEW todo,
           \A b \in todo : Sound(b) /\ b.status = "ON_GOING",
           EndNext(pass, todo)
    PROVE  SoundEnder(ender')
BY WorkSound DEF EndNext

\* The ender goes on at a label that saves no battle, with no more battles.
LEMMA EnderHolds ==
    ASSUME SoundEnder(ender), ender'.todo \subseteq ender.todo, ender'.at # "saveBattle"
    PROVE  SoundEnder(ender')
BY DEF SoundEnder

\* EndBattle finishes a copy that was read ON_GOING.
LEMMA ExecuteSound ==
    ASSUME TypeInv, SoundEnder(ender), NEW b \in ender.todo, NEW ms,
           NEW fillBlanks, Execute(b, ms, fillBlanks)
    PROVE  SoundEnder(ender')
<1>1. b \in Battle /\ Sound(b) /\ b.status = "ON_GOING"
      BY WorkerLocals DEF TypeInv, TypeOK, SoundEnder
<1>2. Sound(Finished(b))
      BY <1>1 DEF Finished, Battle, Sound, RowIsTimed
<1>3. /\ ender'.todo = ender.todo \ {b}
      /\ ender'.b = Finished(b)
      BY DEF Execute, TypeInv, TypeOK, WorkerTypeOK, EnderState
<1> QED BY <1>2, <1>3 DEF SoundEnder

LEMMA EnderScanSafe ==
    ASSUME TypeInv, SoundCopies,
           ScanExpired \/ ScanIdle \/ ScanFinished
    PROVE  TimedStep /\ SoundEnder(ender')
<1>1. TimedStep
      BY DEF ScanExpired, ScanIdle, ScanFinished, pgVars, TimedStep, RowsRemoved
<1>2. \A b \in FindOnGoing : Sound(b) /\ b.status = "ON_GOING"
      BY DEF FindOnGoing, SoundCopies
<1>3. CASE ScanExpired
      BY <1>1, <1>2, <1>3, EndNextSound DEF ScanExpired, MayBeOnGoingExpired
<1>4. CASE ScanIdle
      BY <1>1, <1>2, <1>4, WorkSound DEF ScanIdle
<1>5. CASE ScanFinished
      BY <1>1, <1>2, <1>5, EndNextSound DEF ScanFinished, FindOnGoingAllMembersFinished
<1> QED BY <1>3, <1>4, <1>5

LEMMA EnderLoadSafe ==
    ASSUME TypeInv, SoundCopies,
           \/ LoadExpired \/ LoadIdle \/ LoadFinished
           \/ DropMembers \/ DropBattle \/ SaveIdle
    PROVE  TimedStep /\ SoundEnder(ender')
<1> USE DEF TypeInv, TypeOK, SoundCopies
<1>0. /\ \A b \in ender.todo : Sound(b) /\ b.status = "ON_GOING"
      /\ ender.pass \in {"Expired", "Idle", "Finished"}
      BY WorkerLocals DEF SoundEnder
<1>1. TimedStep
      BY DEF LoadExpired, LoadIdle, LoadFinished, DropMembers, DropBattle, SaveIdle,
             DeleteBattle, pgVars, TimedStep, RowsRemoved
<1>2. CASE LoadExpired
  <2>1. PICK b \in ender.todo :
          \/ ender' = [ender EXCEPT !.at = "dropMembers", !.todo = @ \ {b}, !.b = b]
          \/ Execute(b, MembersOf(b.id), TRUE)
        BY <1>2 DEF LoadExpired
  <2>2. CASE Execute(b, MembersOf(b.id), TRUE)
        BY <1>1, <2>2, ExecuteSound
  <2>3. CASE ender' = [ender EXCEPT !.at = "dropMembers", !.todo = @ \ {b}, !.b = b]
        BY <1>1, <2>3, EnderHolds DEF WorkerTypeOK, EnderState
  <2> QED BY <2>1, <2>2, <2>3
<1>3. CASE LoadIdle
  <2>1. PICK b \in ender.todo :
          \/ EndNext("Idle", ender.todo \ {b})
          \/ ender' = [ender EXCEPT !.at = "saveIdle", !.todo = @ \ {b}, !.b = b,
                                    !.left = IdleMembers(MembersOf(b.id))]
        BY <1>3 DEF LoadIdle
  <2>2. CASE EndNext("Idle", ender.todo \ {b})
        BY <1>0, <1>1, <2>2, EndNextSound
  <2>3. CASE ender' = [ender EXCEPT !.at = "saveIdle", !.todo = @ \ {b}, !.b = b,
                                    !.left = IdleMembers(MembersOf(b.id))]
    <3>1. ender'.at = "saveIdle" /\ ender'.todo = ender.todo \ {b}
          BY <2>3 DEF WorkerTypeOK, EnderState
    <3> QED BY <1>1, <3>1, EnderHolds
  <2> QED BY <2>1, <2>2, <2>3
<1>4. CASE LoadFinished
  <2>1. PICK b \in ender.todo :
          \/ Execute(b, MembersOf(b.id), FALSE)
          \/ EndNext("Finished", ender.todo \ {b})
        BY <1>4 DEF LoadFinished
  <2> QED BY <1>0, <1>1, <2>1, ExecuteSound, EndNextSound
<1>5. CASE DropMembers
      BY <1>1, <1>5, EnderHolds DEF DropMembers, WorkerTypeOK, EnderState
<1>6. CASE DropBattle
      BY <1>0, <1>1, <1>6, EndNextSound DEF DropBattle
<1>7. CASE SaveIdle
  <2>1. \/ EndNext("Idle", ender.todo)
        \/ ender'.at = "saveIdle" /\ ender'.todo = ender.todo
        BY <1>7 DEF SaveIdle, WorkerTypeOK, EnderState
  <2> QED BY <1>0, <1>1, <2>1, EndNextSound, EnderHolds
<1> QED BY <1>2, <1>3, <1>4, <1>5, <1>6, <1>7

\* After member m the ender gives no battle a new status.
LEMMA EndedOneHolds ==
    ASSUME TypeInv, NEW m, NEW next, EndedOne(m, next)
    PROVE  /\ ender'.todo = ender.todo
           /\ ender'.at = ender.at \/ ender'.at = next
BY DEF EndedOne, TypeInv, TypeOK, WorkerTypeOK, EnderState

LEMMA EnderSaveSafe ==
    ASSUME TypeInv, SoundCopies,
           \/ SavePgBattle \/ SavePgMember \/ SaveSqlBattle \/ SaveSqlMember
           \/ UpsertStats \/ EndError
    PROVE  TimedStep /\ SoundEnder(ender')
<1> USE DEF TypeInv, TypeOK, SoundCopies
<1>0. /\ \A b \in ender.todo : Sound(b) /\ b.status = "ON_GOING"
      /\ ender.pass \in {"Expired", "Idle", "Finished"}
      BY WorkerLocals DEF SoundEnder
<1>a. ASSUME GiveUp
      PROVE  SoundEnder(ender')
      BY <1>0, <1>a, EndNextSound DEF GiveUp
<1>1. CASE SavePgBattle
  <2>1. Sound(ender.b) /\ ender.b \in Battle
        BY <1>1, WorkerLocals DEF SavePgBattle, SoundEnder
  <2>2. TimedStep
        BY <1>1, <2>1, HandlerSaves DEF SavePgBattle, TimedStep, RowsRemoved
  <2>3. GiveUp \/ (ender'.todo = ender.todo /\ ender'.at # "saveBattle")
        BY <1>1 DEF SavePgBattle, WorkerTypeOK, EnderState
  <2> QED BY <1>a, <2>2, <2>3, EnderHolds
<1>2. CASE SavePgMember
  <2>1. TimedStep
        BY <1>2 DEF SavePgMember, TimedStep, RowsRemoved
  <2>2. GiveUp \/ (ender'.todo = ender.todo /\ ender'.at # "saveBattle")
        BY <1>2, EndedOneHolds DEF SavePgMember
  <2> QED BY <1>a, <2>1, <2>2, EnderHolds
<1>3. CASE SaveSqlBattle
  <2>1. GiveUp \/ (ender'.todo = ender.todo /\ ender'.at # "saveBattle")
        BY <1>3 DEF SaveSqlBattle, WorkerTypeOK, EnderState
  <2> QED BY <1>a, <1>3, <2>1, EnderHolds
          DEF SaveSqlBattle, pgVars, TimedStep, RowsRemoved
<1>4. CASE SaveSqlMember
  <2>1. ender'.todo = ender.todo /\ ender'.at # "saveBattle"
        BY <1>4, EndedOneHolds DEF SaveSqlMember
  <2> QED BY <1>4, <2>1, EnderHolds DEF SaveSqlMember, pgVars, TimedStep, RowsRemoved
<1>5. CASE UpsertStats
  <2>1. GiveUp \/ (ender'.todo = ender.todo /\ ender'.at # "saveBattle")
        BY <1>5 DEF UpsertStats, WorkerTypeOK, EnderState
  <2> QED BY <1>a, <1>5, <2>1, EnderHolds
          DEF UpsertStats, pgVars, TimedStep, RowsRemoved
<1>6. CASE EndError
  <2>1. TimedStep
        BY <1>6 DEF EndError, pgVars, TimedStep, RowsRemoved
  <2>2. CASE \E todo \in SUBSET ender.todo : EndNext(ender.pass, todo)
        BY <1>0, <2>1, <2>2, EndNextSound
  <2>3. CASE EndNext("Idle", ender.todo)
        BY <1>0, <2>1, <2>3, EndNextSound
  <2>4. CASE ender'.todo = ender.todo /\ ender'.at # "saveBattle"
        BY <2>1, <2>4, EnderHolds
  <2>5. \/ \E b \in ender.todo : EndNext(ender.pass, ender.todo \ {b})
        \/ EndNext("Idle", ender.todo) \/ GiveUp
        \/ ender'.todo = ender.todo /\ ender'.at # "saveBattle"
        BY <1>6 DEF EndError, WorkerTypeOK, EnderState
  <2>6. CASE \E b \in ender.todo : EndNext(ender.pass, ender.todo \ {b})
        BY <2>2, <2>6
  <2> QED BY <1>a, <2>1, <2>3, <2>4, <2>5, <2>6
<1> QED BY <1>1, <1>2, <1>3, <1>4, <1>5, <1>6

-----------------------------------------------------------------------------
(* The inductive step *)

\* Nobody's local variables but those of handler h, the kicker or the ender change.
LEMMA StepIsSound ==
    ASSUME TypeInv, TypeInv', SoundCopies, TimedStep,
           \A h \in Handlers : SoundHandler(handler'[h]),
           SoundKicker(kicker'), SoundEnder(ender')
    PROVE  SoundCopies'
<1> USE DEF TypeInv, TypeOK
<1>1. (\A b \in battles : Sound(b))'
      BY RowsStaySound DEF SoundCopies
<1>2. ASSUME NEW h \in Handlers
      PROVE  SoundHandler(handler[h])'
  <2>1. PICK s : s = handler'[h]
        OBVIOUS
  <2>2. s.b \in Battle /\ SoundHandler(s)
        BY <2>1 DEF ApiTypeOK, HandlerState
  <2>3. SoundHandler(s)'
        BY <2>2, HandlersStaySound
  <2> QED BY <2>1, <2>3 DEF SoundHandler, Sound
<1>3. SoundKicker(kicker)'
  <2>1. PICK k : k = kicker'
        OBVIOUS
  <2>2. k.b \in Battle /\ k.todo \subseteq Battle /\ SoundKicker(k)
        BY <2>1 DEF WorkerTypeOK, KickerState
  <2>3. SoundKicker(k)'
        BY <2>2, SoundStaysPrimed DEF SoundKicker
  <2> QED BY <2>1, <2>3 DEF SoundKicker, Sound
<1>4. SoundEnder(ender)'
  <2>1. PICK e : e = ender'
        OBVIOUS
  <2>2. e.b \in Battle /\ e.todo \subseteq Battle /\ SoundEnder(e)
        BY <2>1 DEF WorkerTypeOK, EnderState
  <2>3. SoundEnder(e)'
        BY <2>2, SoundStaysPrimed DEF SoundEnder
  <2> QED BY <2>1, <2>3 DEF SoundEnder, Sound
<1> QED BY <1>1, <1>2, <1>3, <1>4 DEF SoundCopies

LEMMA HandlerIsSound ==
    ASSUME TypeInv, TypeInv', SoundCopies, NEW h \in Handlers, HandlerSafe(h),
           UNCHANGED workerVars
    PROVE  SoundCopies'
<1>1. \A g \in Handlers : SoundHandler(handler'[g])
  <2> SUFFICES ASSUME NEW g \in Handlers
               PROVE  SoundHandler(handler'[g])
      OBVIOUS
  <2>1. CASE g = h
        BY <2>1 DEF HandlerSafe, ControlSound
  <2>2. CASE g # h
        BY <2>2 DEF HandlerSafe, ControlSound, SoundCopies
  <2> QED BY <2>1, <2>2
<1> QED BY <1>1, StepIsSound DEF HandlerSafe, SoundCopies, workerVars

\* The copy of a battle just created is the row itself.
LEMMA CreateIsSound ==
    ASSUME TypeInv, TypeInv', SoundCopies, NEW h \in Handlers, CreateNewBattle(h),
           UNCHANGED workerVars
    PROVE  SoundCopies'
<1> USE DEF TypeInv, TypeOK
<1>1. PICK c : c = NewBattle(handler[h].b.type, handler[h].student)
      OBVIOUS
<1>2. PICK row : row = NewBattleRow(c)
      OBVIOUS
<1>3. CreateBattle(c) /\ HoldBattle(h, row, "createCreator")
      BY <1>1, <1>2 DEF CreateNewBattle
<1>4. c \in Battle /\ RowIsTimed(c)
  <2>1. Level[handler[h].student] \in Nat
        BY StudentsAssumption DEF CreateNewBattle, StudentsAtWork, At
  <2>2. handler[h].b.type \in BattleType
        BY Locals DEF Battle
  <2> QED BY <1>1, <2>1, <2>2, ZeroValues
          DEF NewBattle, NoBattle, Battle, BattleStatus, RowIsTimed
<1>5. TimedStep
      BY <1>3, <1>4 DEF TimedStep, RowCreated
<1>6. (\A b \in battles : Sound(b))'
      BY <1>5, RowsStaySound DEF SoundCopies
<1>7. Sound(row)' /\ row \in Battle
  <2>1. row \in battles'
        BY <1>2, <1>3 DEF CreateBattle
  <2> QED BY <1>6, <2>1 DEF PgTypeOK
<1>8. ASSUME NEW g \in Handlers
      PROVE  SoundHandler(handler[g])'
  <2>1. CASE g = h
    <3>1. handler'[g].b = row /\ handler'[g].at = "createCreator"
          BY <1>3, <2>1 DEF HoldBattle, ApiTypeOK, HandlerState
    <3> QED BY <1>7, <3>1 DEF SoundHandler, Sound, LobbyLabels
  <2>2. CASE g # h
    <3>1. handler'[g] = handler[g]
          BY <1>3, <2>2 DEF HoldBattle, ApiTypeOK
    <3>2. PICK s : s = handler[g]
          OBVIOUS
    <3>3. s.b \in Battle /\ SoundHandler(s)
          BY <3>2, Locals DEF SoundCopies
    <3>4. SoundHandler(s)'
          BY <1>5, <3>3, HandlersStaySound
    <3> QED BY <3>1, <3>2, <3>4 DEF SoundHandler, Sound
  <2> QED BY <2>1, <2>2
<1>9. SoundKicker(kicker)' /\ SoundEnder(ender)'
  <2>1. PICK k, e : k = kicker /\ e = ender
        OBVIOUS
  <2>2. SoundKicker(k)' /\ SoundEnder(e)'
        BY <1>5, <2>1, WorkerLocals, SoundStaysPrimed
           DEF SoundCopies, SoundKicker, SoundEnder
  <2> QED BY <2>1, <2>2 DEF SoundKicker, SoundEnder, Sound, workerVars
<1> QED BY <1>6, <1>8, <1>9 DEF SoundCopies

LEMMA RequestIsSound ==
    ASSUME TypeInv, SoundCopies, NEW h \in Handlers, Request(h)
    PROVE  HandlerSafe(h)
<1>1. ASSUME NEW kind, NEW s, NEW b, NEW label, Accept(h, kind, s, b, label),
             label \notin LoadedLabels
      PROVE  HandlerSafe(h)
  <2>1. handler'[h].at = label
        BY <1>1 DEF Accept, Idle, TypeInv, TypeOK, ApiTypeOK
  <2> QED BY <1>1, <2>1
          DEF Accept, TypeInv, TypeOK, ApiTypeOK, pgVars, HandlerSafe, TimedStep,
              RowsRemoved, ControlSound, SoundHandler, LoadedLabels
<1> QED BY <1>1
        DEF Request, FindRequest, ConfirmRequest, AnswerRequest, LeaveRequest,
            ChangeTypeRequest, BattleRequest, LoadedLabels, LobbyLabels

LEMMA SoundStep ==
    ASSUME TypeInv, TypeInv', SoundCopies, [Next]_vars
    PROVE  SoundCopies'
<1>1. ASSUME NEW h \in Handlers, Arrive(h)
      PROVE  SoundCopies'
      BY <1>1, RequestIsSound, HandlerIsSound DEF Arrive
<1>2. ASSUME NEW h \in Handlers, Handle(h)
      PROVE  SoundCopies'
  <2>1. CASE CreateNewBattle(h)
        BY <1>2, <2>1, CreateIsSound DEF Handle
  <2>2. CASE ~CreateNewBattle(h)
    <3>1. HandlerSafe(h)
          BY <1>2, <2>2, FindSafe, LobbySafe, StartSafe, ConfirmSafe, AnswerSafe,
             LeaveSafe, ChangeSafe
             DEF Handle, HandlerStep
    <3> QED BY <1>2, <3>1, HandlerIsSound DEF Handle
  <2> QED BY <2>1, <2>2
<1>3. ASSUME KickerStep \/ KickError, UNCHANGED <<apiVars, ender>>
      PROVE  SoundCopies'
      BY <1>3, KickerSafe, StepIsSound DEF apiVars, SoundCopies
<1>4. ASSUME EnderStep \/ EndError, UNCHANGED <<apiVars, kicker>>
      PROVE  SoundCopies'
      BY <1>4, EnderScanSafe, EnderLoadSafe, EnderSaveSafe, StepIsSound
         DEF EnderStep, apiVars, SoundCopies
<1>5. CASE Kick
      BY <1>3, <1>5, KickerTypes DEF Kick, KickerOK
<1>6. CASE End
      BY <1>4, <1>6, EnderTypes DEF End, EnderOK
<1>7. CASE Fault
  <2>1. ASSUME NEW h \in Handlers, Abort(h), UNCHANGED workerVars
        PROVE  SoundCopies'
    <3>1. HandlerSafe(h)
          BY <2>1, ReturnSound
             DEF Abort, pgVars, TypeInv, TypeOK, HandlerSafe, TimedStep, RowsRemoved
    <3> QED BY <2>1, <3>1, HandlerIsSound
  <2>2. CASE KickError /\ UNCHANGED apiVars
        BY <1>3, <2>2, KickErrorTypes DEF KickerOK
  <2>3. CASE EndError /\ UNCHANGED apiVars
        BY <1>4, <2>3, EndErrorTypes DEF EnderOK
  <2>4. CASE WorkerCrash /\ UNCHANGED apiVars
    <3>1. SoundKicker(kicker') /\ SoundEnder(ender')
          BY <2>4 DEF WorkerCrash, KickerIdle, EnderIdle, SoundKicker, SoundEnder
    <3>2. TimedStep
          BY <2>4 DEF WorkerCrash, pgVars, TimedStep, RowsRemoved
    <3> QED BY <2>4, <3>1, <3>2, StepIsSound DEF apiVars, SoundCopies
  <2> QED BY <1>7, <2>1, <2>2, <2>3, <2>4 DEF Fault
<1>8. CASE UNCHANGED vars
      BY <1>8, StepIsSound
         DEF vars, pgVars, apiVars, workerVars, TimedStep, RowsRemoved, SoundCopies
<1> QED BY <1>1, <1>2, <1>5, <1>6, <1>7, <1>8 DEF Next

\* Every copy in flight is fit to be saved.
THEOREM CopiesAreSound == Spec => []SoundCopies
<1>1. Init => SoundCopies
      BY DEF Init, PgInit, ApiInit, WorkerInit, Idle, KickerIdle, EnderIdle,
             SoundCopies, SoundHandler, SoundKicker, SoundEnder, LoadedLabels,
             LobbyLabels
<1>2. TypeInv /\ TypeInv' /\ SoundCopies /\ [Next]_vars => SoundCopies'
      BY SoundStep
<1> QED BY TypeInvariant, <1>1, <1>2, PTL DEF Spec

\* Whatever stale copies handlers and loops write over each other's changes, an
\* ON_QUEUE battle has its expire_time and a started one its questions.
THEOREM TimersAreSet == Spec => []StatusTimers
<1>1. SoundCopies => StatusTimers
      BY DEF SoundCopies, Sound, StatusTimers
<1> QED BY CopiesAreSound, <1>1, PTL
=============================================================================
