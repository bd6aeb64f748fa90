------------------------------ MODULE BattleApi ------------------------------
(***************************************************************************)
(* The request handlers of the API (internal/service), each the sequence   *)
(* of repository calls it makes.  Handlers run concurrently: a handler is  *)
(* a process, one repository call is one step, and between two calls the   *)
(* handler holds copies of rows that others may have changed or deleted.   *)
(*                                                                         *)
(* A step is named for the call it makes.  Reads whose result only goes    *)
(* into the response, and publishing, which no handler waits on, are left  *)
(* out.  A failed call ends the handler, and so does a crash of the API:   *)
(* Abort is both.                                                          *)
(***************************************************************************)
EXTENDS PgStore, ResultStore

CONSTANTS
    Handlers,     \* identities of the requests that may be in flight at once
    Budget,       \* bound: Budget[kind] requests of a kind are sent
    FindTypes,    \* the battle types clients ask Find for
    Documented    \* TRUE: clients confirm only a battle they see ON_QUEUE

VARIABLES
    handler,      \* handler[h]: where handler h is, and its local variables
    requests,     \* requests[kind]: requests of a kind sent so far
    told          \* <<s, uuid>>: a response has told student s of battle uuid

apiVars == <<handler, requests, told>>

RequestKinds == {"find", "confirm", "answer", "leave", "changeType"}

ASSUME ApiAssumption ==
    /\ Budget \in [RequestKinds -> Nat]
    /\ FindTypes \subseteq BattleType
    /\ Documented \in BOOLEAN

Labels ==
    {"idle",
     "findWaiting", "existsInBattle", "createParticipant", "findOpponent",
     "saveLevel", "countMembers", "setOnQueue", "createBattle", "createCreator",
     "startBattle", "loadAI", "saveAI",
     "confirmFind", "confirmFindMember", "confirmSave", "countConfirmed",
     "answerFind", "answerFindMember", "answerSave",
     "leaveFind", "leaveDeleteMembers", "leaveDeleteBattle", "leaveFindMember",
     "leaveSave", "leaveDelete",
     "changeFind", "changeCount", "changeSave", "changeOpponent"}

\* student: who sent the request; b, m, ms: the handler's copies of the battle,
\* of the student's member row and of the AI member rows still to be filled.
HandlerState ==
    [at : Labels, student : Students \cup {NoStudent}, b : Battle,
     m : BattleMember, ms : SUBSET BattleMember]

Idle ==
    [at |-> "idle", student |-> NoStudent, b |-> NoBattle, m |-> NoMember,
     ms |-> {}]

ApiTypeOK ==
    /\ handler \in [Handlers -> HandlerState]
    /\ requests \in [RequestKinds -> Nat]
    /\ told \subseteq (Students \cup {NoStudent}) \X Nat

ApiInit ==
    /\ handler = [h \in Handlers |-> Idle]
    /\ requests = [kind \in RequestKinds |-> 0]
    /\ told = {}

At(h, label) == handler[h].at = label

\* The handler ends with an error.
Return(h) ==
    /\ handler' = [handler EXCEPT ![h] = Idle]
    /\ told' = told

\* The handler ends with a response, which carries the battle.
Respond(h) ==
    /\ handler' = [handler EXCEPT ![h] = Idle]
    /\ told' = told \cup {<<handler[h].student, handler[h].b.id>>}

\* The handler goes on with its next call; "idle" is the end.
Goto(h, label) ==
    IF label = "idle" THEN Respond(h)
    ELSE /\ handler' = [handler EXCEPT ![h].at = label]
         /\ told' = told

\* Go on holding battle copy b (member copy m).
HoldBattle(h, b, label) ==
    /\ handler' = [handler EXCEPT ![h].b = b, ![h].at = label]
    /\ told' = told

HoldMembers(h, ms, label) ==
    /\ handler' = [handler EXCEPT ![h].ms = ms, ![h].at = label]
    /\ told' = told

HoldMember(h, m, label) ==
    /\ handler' = [handler EXCEPT ![h].m = m, ![h].at = label]
    /\ told' = told

-----------------------------------------------------------------------------
(* Requests arriving *)

Accept(h, kind, s, b, label) ==
    /\ At(h, "idle")
    /\ requests[kind] < Budget[kind]
    /\ requests' = [requests EXCEPT ![kind] = @ + 1]
    /\ handler' = [handler EXCEPT ![h] =
                      [Idle EXCEPT !.at = label, !.student = s, !.b = b]]
    /\ UNCHANGED <<pgVars, sqlVars, told>>

\* Find: FindByID, the level check and checkDemoLimit.  A student they refuse
\* changes nothing.
FindRequest(h, s, type) ==
    /\ Level[s] # 0
    /\ WithinDemoLimit(s)
    /\ Accept(h, "find", s, [NoBattle EXCEPT !.type = type], "findWaiting")

\* The other requests name a battle by its uuid.  It is random and only responses
\* to Find give it out, so a student names a battle it was told of.
BattleRequest(h, kind, s, uuid, label) ==
    /\ <<s, uuid>> \in told
    /\ Accept(h, kind, s, [NoBattle EXCEPT !.id = uuid], label)

ConfirmRequest(h, s, uuid) ==
    /\ Documented => \E b \in FindByUUID(uuid) : b.status = "ON_QUEUE"
    /\ BattleRequest(h, "confirm", s, uuid, "confirmFind")

AnswerRequest(h, s, uuid) == BattleRequest(h, "answer", s, uuid, "answerFind")

LeaveRequest(h, s, uuid) == BattleRequest(h, "leave", s, uuid, "leaveFind")

ChangeTypeRequest(h, s, uuid) ==
    BattleRequest(h, "changeType", s, uuid, "changeFind")

Request(h) ==
    \E s \in Humans :
        \/ \E type \in FindTypes : FindRequest(h, s, type)
        \/ \E uuid \in 1..battleSeq :
              \/ ConfirmRequest(h, s, uuid)
              \/ AnswerRequest(h, s, uuid)
              \/ LeaveRequest(h, s, uuid)
              \/ ChangeTypeRequest(h, s, uuid)

-----------------------------------------------------------------------------
(* find.go: FindService.Execute *)

NewMember(b, s, memberType) ==
    [NoMember EXCEPT
        !.battle = b.id, !.student = s, !.type = memberType,
        !.status = IF b.type = "AI" THEN "CONFIRMED" ELSE "NOT_CONFIRMED"]

FindWaitingBattle(h) ==
    /\ At(h, "findWaiting")
    /\ \/ \E b \in FindWaiting(handler[h].b.type) : HoldBattle(h, b, "existsInBattle")
       \/ /\ FindWaiting(handler[h].b.type) = {}
          /\ Goto(h, "createBattle")
    /\ UNCHANGED <<pgVars, sqlVars, requests>>

CheckExistsInBattle(h) ==
    /\ At(h, "existsInBattle")
    /\ IF ExistsInBattle(handler[h].b.id, handler[h].student)
         THEN Respond(h)
         ELSE Goto(h, "createParticipant")
    /\ UNCHANGED <<pgVars, sqlVars, requests>>

\* members.Create; the foreign key or the unique index may refuse the row.
InsertMember(h, m, next) ==
    IF Insertable(m)
      THEN CreateMember(m) /\ Goto(h, next)
      ELSE Return(h) /\ UNCHANGED <<members, memberSeq>>

\* FindWaiting never returns an AI battle: those are created ON_GOING and a kick
\* deletes them, so joining one (and giving it an opponent) does not arise.
CreateParticipant(h) ==
    /\ At(h, "createParticipant")
    /\ InsertMember(h, NewMember(handler[h].b, handler[h].student, "PARTICIPANT"),
                    "saveLevel")
    /\ UNCHANGED <<battles, battleSeq, sqlVars, requests>>

\* A student of a lower level lowers the level of the battle: a Save of the copy
\* FindWaiting returned.
LowerLevel(h) ==
    LET b == [handler[h].b EXCEPT !.level = Level[handler[h].student]] IN
    /\ At(h, "saveLevel")
    /\ IF handler[h].b.level <= Level[handler[h].student]
         THEN Goto(h, "countMembers") /\ UNCHANGED battles
         ELSE IF BattleStored(b)
                THEN SaveBattle(b) /\ HoldBattle(h, b, "countMembers")
                ELSE Return(h) /\ UNCHANGED battles
    /\ UNCHANGED <<members, battleSeq, memberSeq, sqlVars, requests>>

CountMembers(h) ==
    LET b == handler[h].b IN
    /\ At(h, "countMembers")
    /\ Goto(h, IF CountByBattle(b.id) >= BattleMemberCount[b.type]
                 THEN "setOnQueue" ELSE "idle")
    /\ UNCHANGED <<pgVars, sqlVars, requests>>

\* ON_QUEUE without a time limit.
OnQueueUntimed(b) == [b EXCEPT !.status = "ON_QUEUE"]

\* The transition find and change-type make: ON_QUEUE, to be confirmed in 20s.
OnQueue(b) == [b EXCEPT !.status = "ON_QUEUE", !.expire = TRUE]

SetOnQueue(h) ==
    LET b == OnQueue(handler[h].b) IN
    /\ At(h, "setOnQueue")
    /\ IF BattleStored(b)
         THEN SaveBattle(b) /\ Respond(h)
         ELSE Return(h) /\ UNCHANGED battles
    /\ UNCHANGED <<members, battleSeq, memberSeq, sqlVars, requests>>

\* No battle is waiting: create one.  An AI battle is created ON_GOING.
NewBattle(type, s) ==
    [NoBattle EXCEPT
        !.type = type,
        !.status = IF type = "AI" THEN "ON_GOING" ELSE "WAITING",
        !.level = Level[s]]

CreateNewBattle(h) ==
    LET b == NewBattle(handler[h].b.type, handler[h].student) IN
    /\ At(h, "createBattle")
    /\ CreateBattle(b)
    /\ HoldBattle(h, NewBattleRow(b), "createCreator")
    /\ UNCHANGED <<members, memberSeq, sqlVars, requests>>

\* The creator is alone (memberCount = 1), so the lobby is full for no type.
CreateCreator(h) ==
    LET b == handler[h].b IN
    /\ At(h, "createCreator")
    /\ InsertMember(h, NewMember(b, handler[h].student, "CREATOR"),
                    IF b.type = "AI" THEN "findOpponent" ELSE "idle")
    /\ UNCHANGED <<battles, battleSeq, sqlVars, requests>>

-----------------------------------------------------------------------------
(* ai_opponent.go: makeAIOpponent *)

AIOpponent(b, bot) ==
    [NewMember(b, bot, "AI") EXCEPT !.status = "CONFIRMED"]

\* A random testing user other than the requester.  There may be none, and the
\* one drawn may already be in the battle: both are errors.
MakeAIOpponent(h, next) ==
    LET ids == Bots \ {handler[h].student} IN
    \/ /\ ids = {}
       /\ Return(h)
       /\ UNCHANGED <<members, memberSeq>>
    \/ \E bot \in ids : InsertMember(h, AIOpponent(handler[h].b, bot), next)

FindOpponent(h) ==
    /\ At(h, "findOpponent")
    /\ MakeAIOpponent(h, "startBattle")
    /\ UNCHANGED <<battles, battleSeq, sqlVars, requests>>

-----------------------------------------------------------------------------
(* start_battle.go, with the callers' loops over the AI members *)

\* startBattle gives the copy its questions and times and saves it ON_GOING.
Started(b, qs) == [b EXCEPT !.status = "ON_GOING", !.questions = qs]

\* fetchQuestions reads MySQL at random; with no questions the caller returns
\* and the battle stays as it is.
StartBattle(h) ==
    /\ At(h, "startBattle")
    /\ \E qs \in QuestionSets :
          LET b == Started(handler[h].b, qs) IN
          IF qs = {} THEN Respond(h) /\ UNCHANGED battles
          ELSE IF BattleStored(b)
                 THEN SaveBattle(b) /\ HoldBattle(h, b, "loadAI")
                 ELSE Return(h) /\ UNCHANGED battles
    /\ UNCHANGED <<members, battleSeq, memberSeq, sqlVars, requests>>

LoadAI(h) ==
    LET ai == {m \in MembersOf(handler[h].b.id) : m.type = "AI"} IN
    /\ At(h, "loadAI")
    /\ IF ai = {} THEN Respond(h) ELSE HoldMembers(h, ai, "saveAI")
    /\ UNCHANGED <<pgVars, sqlVars, requests>>

\* The next AI member is filled and saved; a row that is gone ends the handler.
SaveAI(h) ==
    /\ At(h, "saveAI")
    /\ \E m \in handler[h].ms :
          IF MemberStored(m)
            THEN /\ \E filled \in FilledAIMembers(handler[h].b, m) : SaveMember(filled)
                 /\ IF handler[h].ms = {m} THEN Respond(h)
                    ELSE HoldMembers(h, handler[h].ms \ {m}, "saveAI")
            ELSE Return(h) /\ UNCHANGED members
    /\ UNCHANGED <<battles, battleSeq, memberSeq, sqlVars, requests>>

-----------------------------------------------------------------------------
(* The reads confirm, answer and leave begin with *)

\* FindByUUID, then go on where next, a function of the row found, says.
FindBattle(h, from, next) ==
    LET found == FindByUUID(handler[h].b.id) IN
    /\ At(h, from)
    /\ \/ \E b \in found :
             IF next[b] = "idle" THEN Return(h) ELSE HoldBattle(h, b, next[b])
       \/ found = {} /\ Return(h)
    /\ UNCHANGED <<pgVars, sqlVars, requests>>

\* FindByBattleAndStudent; without a member row go to `otherwise`.
FindMember(h, from, next, otherwise) ==
    LET found == FindByBattleAndStudent(handler[h].b.id, handler[h].student) IN
    /\ At(h, from)
    /\ \/ \E m \in found : HoldMember(h, m, next[m])
       \/ found = {} /\ Goto(h, otherwise)
    /\ UNCHANGED <<pgVars, sqlVars, requests>>

\* The last call of the handler: members.Save of copy m, or its ErrNotFound.
SaveHeld(h, m) ==
    /\ IF MemberStored(m)
         THEN SaveMember(m) /\ Respond(h)
         ELSE Return(h) /\ UNCHANGED members
    /\ UNCHANGED <<battles, battleSeq, memberSeq, sqlVars, requests>>

-----------------------------------------------------------------------------
(* confirm.go: ConfirmService.Execute, which never looks at the status *)

ConfirmFind(h) ==
    FindBattle(h, "confirmFind", [b \in battles |-> "confirmFindMember"])

ConfirmFindMember(h) ==
    FindMember(h, "confirmFindMember", [m \in members |-> "confirmSave"], "idle")

\* The battle's constant in place of the member's.
ConfirmedWrongStatus(m) == [m EXCEPT !.status = "ON_GOING"]

Confirmed(m) == [m EXCEPT !.status = "CONFIRMED"]

ConfirmSave(h) ==
    /\ At(h, "confirmSave")
    /\ IF MemberStored(handler[h].m)
         THEN /\ SaveMember(Confirmed(handler[h].m))
              /\ HoldMember(h, NoMember, "countConfirmed")
         ELSE Return(h) /\ UNCHANGED members
    /\ UNCHANGED <<battles, battleSeq, memberSeq, sqlVars, requests>>

CountConfirmed(h) ==
    LET b == handler[h].b IN
    /\ At(h, "countConfirmed")
    /\ Goto(h, IF CountConfirmedByBattle(b.id) >= BattleMemberCount[b.type]
                 THEN "startBattle" ELSE "idle")
    /\ UNCHANGED <<pgVars, sqlVars, requests>>

-----------------------------------------------------------------------------
(* answer.go: AnswerService.Execute *)

\* Only an ON_GOING battle takes answers.
AfterAnswerFind(b) ==
    IF b.status \in {"WAITING", "ON_QUEUE", "FINISHED"}
      THEN "idle" ELSE "answerFindMember"

AnswerFind(h) ==
    FindBattle(h, "answerFind", [b \in battles |-> AfterAnswerFind(b)])

AnswerFindMember(h) ==
    FindMember(h, "answerFindMember", [m \in members |-> "answerSave"], "idle")

\* ProcessAnswer and Save.  The question and whether the values are right came
\* with the request; they matter only here.  An unknown or already answered
\* question leaves the row alone.
AnswerSave(h) ==
    LET b == handler[h].b
        m == handler[h].m
    IN
    /\ At(h, "answerSave")
    /\ \/ \E q \in Questions, isCorrect \in BOOLEAN :
             /\ MayProcessAnswer(b, m, q)
             /\ SaveHeld(h, [ProcessAnswer(b, m, q, isCorrect)
                               EXCEPT !.lastQuestionAt = TRUE])
       \/ /\ \E q \in Questions : ~MayProcessAnswer(b, m, q)
          /\ Return(h)
          /\ UNCHANGED <<pgVars, sqlVars, requests>>

-----------------------------------------------------------------------------
(* leave.go: LeaveService.Execute *)

\* Leaving without the check for FINISHED.
AfterLeaveFindUnchecked(b) ==
    IF b.type = "AI" THEN "leaveDeleteMembers"
    ELSE IF b.status = "ON_GOING" THEN "leaveFindMember" ELSE "leaveDelete"

AfterLeaveFind(b) ==
    CASE b.status = "FINISHED" -> "idle"
      [] b.status # "FINISHED" /\ b.type = "AI" -> "leaveDeleteMembers"
      [] b.status = "ON_GOING" /\ b.type # "AI" -> "leaveFindMember"
      [] OTHER -> "leaveDelete"

LeaveFind(h) ==
    FindBattle(h, "leaveFind", [b \in battles |-> AfterLeaveFind(b)])

\* An AI battle goes with all its members, whoever asks.
LeaveDeleteMembers(h) ==
    /\ At(h, "leaveDeleteMembers")
    /\ DeleteByBattle(handler[h].b.id)
    /\ Goto(h, "leaveDeleteBattle")
    /\ UNCHANGED <<battles, battleSeq, memberSeq, sqlVars, requests>>

LeaveDeleteBattle(h) ==
    /\ At(h, "leaveDeleteBattle")
    /\ DeleteBattle(handler[h].b.id)
    /\ Return(h)
    /\ UNCHANGED <<battleSeq, memberSeq, sqlVars, requests>>

AfterLeaveFindMember(m) ==
    IF m.status = "CONFIRMED" THEN "leaveSave" ELSE "leaveDelete"

LeaveFindMember(h) ==
    FindMember(h, "leaveFindMember",
               [m \in members |-> AfterLeaveFindMember(m)], "leaveDelete")

LeaveSave(h) ==
    /\ At(h, "leaveSave")
    /\ SaveHeld(h, FillBlanks(handler[h].b, handler[h].m))

LeaveDelete(h) ==
    /\ At(h, "leaveDelete")
    /\ DeleteByBattleAndStudent(handler[h].b.id, handler[h].student)
    /\ Return(h)
    /\ UNCHANGED <<battles, battleSeq, memberSeq, sqlVars, requests>>

-----------------------------------------------------------------------------
(* change_type.go: ChangeTypeService.Execute *)

AfterChangeFind(b) == IF b.status = "WAITING" THEN "changeCount" ELSE "idle"

ChangeFind(h) ==
    FindBattle(h, "changeFind", [b \in battles |-> AfterChangeFind(b)])

ChangeCount(h) ==
    /\ At(h, "changeCount")
    /\ Goto(h, IF CountByBattle(handler[h].b.id) < BattleMemberCount["AI"]
                 THEN "changeSave" ELSE "idle")
    /\ UNCHANGED <<pgVars, sqlVars, requests>>

\* The copy becomes an AI battle ON_QUEUE; Save does not write its type.
ChangeSave(h) ==
    LET b == [OnQueue(handler[h].b) EXCEPT !.type = "AI"] IN
    /\ At(h, "changeSave")
    /\ IF BattleStored(b)
         THEN SaveBattle(b) /\ HoldBattle(h, b, "changeOpponent")
         ELSE Return(h) /\ UNCHANGED battles
    /\ UNCHANGED <<members, battleSeq, memberSeq, sqlVars, requests>>

ChangeOpponent(h) ==
    /\ At(h, "changeOpponent")
    /\ MakeAIOpponent(h, "idle")
    /\ UNCHANGED <<battles, battleSeq, sqlVars, requests>>

-----------------------------------------------------------------------------

\* A repository call fails, or the API process dies: the handler stops here.
Abort(h) ==
    /\ ~At(h, "idle")
    /\ Return(h)
    /\ UNCHANGED <<pgVars, sqlVars, requests>>

HandlerStep(h) ==
    \/ FindWaitingBattle(h) \/ CheckExistsInBattle(h) \/ CreateParticipant(h)
    \/ LowerLevel(h) \/ CountMembers(h) \/ SetOnQueue(h)
    \/ CreateNewBattle(h) \/ CreateCreator(h) \/ FindOpponent(h)
    \/ StartBattle(h) \/ LoadAI(h) \/ SaveAI(h)
    \/ ConfirmFind(h) \/ ConfirmFindMember(h) \/ ConfirmSave(h) \/ CountConfirmed(h)
    \/ AnswerFind(h) \/ AnswerFindMember(h) \/ AnswerSave(h)
    \/ LeaveFind(h) \/ LeaveDeleteMembers(h) \/ LeaveDeleteBattle(h)
    \/ LeaveFindMember(h) \/ LeaveSave(h) \/ LeaveDelete(h)
    \/ ChangeFind(h) \/ ChangeCount(h) \/ ChangeSave(h) \/ ChangeOpponent(h)
=============================================================================
