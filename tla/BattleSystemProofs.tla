------------------------- MODULE BattleSystemProofs -------------------------
(***************************************************************************)
(* Theorems about the whole system, for every value of its constants.      *)
(*                                                                         *)
(* The argument has three layers.  Every step is at most one statement of  *)
(* the PostgreSQL store, with well-typed arguments (StoreStep); that, with *)
(* the types of the local variables, gives type correctness.  StoreStep    *)
(* alone gives the table invariants.  What the handlers and the worker     *)
(* hold while others write the tables (SoundCopies) gives StatusTimers.    *)
(***************************************************************************)
EXTENDS BattleSystem, FiniteSetTheorems, TLAPS

-----------------------------------------------------------------------------
(* The operators of BattleModels keep rows well typed *)

\* The image of a finite set under a function is finite.
LEMMA FiniteImage ==
    ASSUME NEW S, NEW f, IsFiniteSet(S)
    PROVE  IsFiniteSet({f[x] : x \in S})
<1> DEFINE g == [x \in S |-> f[x]]
           T == {f[x] : x \in S}
<1>1. g \in Surjection(S, T)
      BY DEF Surjection
<1> QED BY <1>1, FS_Surjection, Zenon

\* A battle's questions can be counted.
LEMMA QuestionCount ==
    ASSUME NEW b \in Battle
    PROVE  Cardinality(b.questions) \in Nat
<1>1. b.questions \in SUBSET Questions
      BY DEF Battle
<1> QED BY <1>1, FS_Subset, FS_CardinalityType, QuestionsAssumption

LEMMA ZeroValues == NoBattle \in Battle /\ NoMember \in BattleMember
BY DEF NoBattle, NoMember, Battle, BattleMember, BattleType, BattleStatus,
       MemberStatus, MemberType

\* A processed answer leaves a well-typed row.
LEMMA ProcessAnswerType ==
    ASSUME NEW b \in Battle, NEW m \in BattleMember, NEW q \in Questions,
           NEW isCorrect \in BOOLEAN
    PROVE  ProcessAnswer(b, m, q, isCorrect) \in BattleMember
<1> DEFINE answers == m.answers \cup {[question |-> q, isCorrect |-> isCorrect]}
           n == Cardinality(b.questions)
           last == Cardinality(answers) = n
<1>1. n \in Nat
      BY QuestionCount
<1>2. answers \subseteq Answer
      BY DEF BattleMember, Answer
<1>3. ProcessAnswer(b, m, q, isCorrect) =
        [m EXCEPT !.answers = answers,
                  !.isFinished = m.isFinished \/ last,
                  !.currentQuestion = IF last THEN n ELSE m.currentQuestion + 1]
      BY DEF ProcessAnswer, BattleMember
<1> HIDE DEF answers, n
<1>4. m.isFinished \/ last \in BOOLEAN
      OBVIOUS
<1>5. (IF last THEN n ELSE m.currentQuestion + 1) \in Nat
      BY <1>1 DEF BattleMember
<1> HIDE DEF last
<1> QED BY <1>2, <1>3, <1>4, <1>5 DEF BattleMember

\* Blanks leave a well-typed row.
LEMMA FillBlanksType ==
    ASSUME NEW b \in Battle, NEW m \in BattleMember
    PROVE  FillBlanks(b, m) \in BattleMember
<1>1. Cardinality(b.questions) \in Nat
      BY QuestionCount
<1>2. [question : b.questions \ Answered(m), isCorrect : {FALSE}] \subseteq Answer
      BY DEF Battle, Answer
<1> QED BY <1>1, <1>2 DEF FillBlanks, BattleMember

\* So do the answers made up for a bot.
LEMMA FilledAIType ==
    ASSUME NEW b \in Battle, NEW m \in BattleMember
    PROVE  FilledAIMembers(b, m) \subseteq BattleMember
<1>1. Cardinality(b.questions) \in Nat
      BY QuestionCount
<1>2. ASSUME NEW right \in SUBSET b.questions
      PROVE  /\ [question : right, isCorrect : {TRUE}] \subseteq Answer
             /\ [question : b.questions \ right, isCorrect : {FALSE}] \subseteq Answer
      BY DEF Battle, Answer
<1>3. ASSUME NEW answers \in SUBSET Answer
      PROVE  [m EXCEPT !.answers = answers, !.isFinished = TRUE,
                       !.currentQuestion = Cardinality(b.questions)] \in BattleMember
      BY <1>1 DEF BattleMember
<1>4. ASSUME NEW filled \in FilledAIMembers(b, m), b.questions # {}
      PROVE  filled \in BattleMember
  <2>1. PICK right \in SUBSET b.questions :
          filled = [m EXCEPT !.answers = [question : right, isCorrect : {TRUE}] \cup
                                         [question : b.questions \ right,
                                          isCorrect : {FALSE}],
                             !.isFinished = TRUE,
                             !.currentQuestion = Cardinality(b.questions)]
        BY <1>4, Zenon DEF FilledAIMembers
  <2> DEFINE answers == [question : right, isCorrect : {TRUE}] \cup
                        [question : b.questions \ right, isCorrect : {FALSE}]
  <2>2. answers \in SUBSET Answer
        BY <1>2
  <2> HIDE DEF answers
  <2> QED BY <1>3, <2>1, <2>2 DEF answers
<1>5. CASE b.questions = {}
      BY <1>5 DEF FilledAIMembers
<1> QED BY <1>4, <1>5

\* Every ranking of well-typed members is a set of well-typed members.
LEMMA RankedType ==
    ASSUME NEW ms, IsFiniteSet(ms), ms \subseteq BattleMember,
           NEW ranked \in RankedMembers(ms)
    PROVE  ranked \subseteq BattleMember
<1>1. PICK place \in Placements(ms) :
        ranked = {[m EXCEPT !.place = place[m],
                            !.points = IF TooManyWrong(m)
                                         THEN 0
                                         ELSE RewardPoints(place[m], Cardinality(ms))] :
                    m \in ms}
      BY Zenon DEF RankedMembers
<1>2. Cardinality(ms) \in Nat
      BY FS_CardinalityType
<1>3. ASSUME NEW m \in ms
      PROVE  place[m] \in Nat /\ place[m] # 0
      BY <1>2 DEF Placements, Bijection, Injection
<1>4. ASSUME NEW m \in ms
      PROVE  RewardPoints(place[m], Cardinality(ms)) \in Nat
      BY <1>2, <1>3 DEF RewardPoints
<1> DEFINE points(m) == IF TooManyWrong(m) THEN 0
                        ELSE RewardPoints(place[m], Cardinality(ms))
<1>5. ASSUME NEW m \in ms
      PROVE  points(m) \in Nat
      BY <1>4
<1> HIDE DEF points
<1>6. ASSUME NEW m \in ms
      PROVE  [m EXCEPT !.place = place[m], !.points = points(m)] \in BattleMember
      BY <1>3, <1>5 DEF BattleMember
<1>7. ranked = {[m EXCEPT !.place = place[m], !.points = points(m)] : m \in ms}
      BY <1>1, Zenon DEF points
<1> QED BY <1>6, <1>7

-----------------------------------------------------------------------------
(* One statement of the store *)

\* One statement of the store, or none.
BattleCreated ==
    \E b \in Battle : CreateBattle(b) /\ UNCHANGED <<members, memberSeq>>

BattleSaved ==
    \E b \in Battle : SaveBattle(b) /\ UNCHANGED <<members, battleSeq, memberSeq>>

BattleDeleted ==
    \E id \in Nat : DeleteBattle(id) /\ UNCHANGED <<battleSeq, memberSeq>>

MemberCreated ==
    \E m \in BattleMember :
        Insertable(m) /\ CreateMember(m) /\ UNCHANGED <<battles, battleSeq>>

MemberSaved ==
    \E m \in BattleMember : SaveMember(m) /\ UNCHANGED <<battles, battleSeq, memberSeq>>

MembersDeleted ==
    members' \subseteq members /\ UNCHANGED <<battles, battleSeq, memberSeq>>

StoreStep ==
    \/ UNCHANGED pgVars
    \/ BattleCreated \/ BattleSaved \/ BattleDeleted
    \/ MemberCreated \/ MemberSaved \/ MembersDeleted

\* A request at work is some student's.
StudentsAtWork ==
    \A h \in Handlers : ~At(h, "idle") => handler[h].student \in Students

\* The inductive invariant of type correctness: the level of a new battle is that
\* of a student, and placing the members of a battle takes a finite table.
TypeInv == TypeOK /\ StudentsAtWork /\ IsFiniteSet(members)

-----------------------------------------------------------------------------
(* Steps of a handler: control *)

\* The variables of the API that change after a request was accepted.
ControlOK ==
    /\ handler' \in [Handlers -> HandlerState]
    /\ told' \subseteq (Students \cup {NoStudent}) \X Nat
    /\ StudentsAtWork'

LEMMA Locals ==
    ASSUME ApiTypeOK, NEW h \in Handlers
    PROVE  /\ handler[h] \in HandlerState
           /\ handler[h].b \in Battle
           /\ handler[h].m \in BattleMember
           /\ handler[h].ms \subseteq BattleMember
           /\ handler[h].student \in Students \cup {NoStudent}
           /\ handler[h].b.id \in Nat
BY DEF ApiTypeOK, HandlerState, Battle

LEMMA IdleType == Idle \in HandlerState
BY ZeroValues DEF Idle, HandlerState, Labels

LEMMA ReturnType ==
    ASSUME ApiTypeOK, StudentsAtWork, NEW h \in Handlers, ~At(h, "idle"), Return(h)
    PROVE  ControlOK
BY IdleType DEF StudentsAtWork, At, Idle, Return, ControlOK, ApiTypeOK

LEMMA RespondType ==
    ASSUME ApiTypeOK, StudentsAtWork, NEW h \in Handlers, ~At(h, "idle"), Respond(h)
    PROVE  ControlOK
BY IdleType, Locals DEF StudentsAtWork, At, Idle, Respond, ControlOK, ApiTypeOK

LEMMA HoldBattleType ==
    ASSUME ApiTypeOK, StudentsAtWork, NEW h \in Handlers, ~At(h, "idle"), NEW b \in Battle, NEW label \in Labels,
           HoldBattle(h, b, label)
    PROVE  ControlOK
BY Locals DEF StudentsAtWork, At, HoldBattle, ControlOK, ApiTypeOK, HandlerState

LEMMA HoldMemberType ==
    ASSUME ApiTypeOK, StudentsAtWork, NEW h \in Handlers, ~At(h, "idle"), NEW m \in BattleMember,
           NEW label \in Labels, HoldMember(h, m, label)
    PROVE  ControlOK
BY Locals DEF StudentsAtWork, At, HoldMember, ControlOK, ApiTypeOK, HandlerState

LEMMA HoldMembersType ==
    ASSUME ApiTypeOK, StudentsAtWork, NEW h \in Handlers, ~At(h, "idle"), NEW ms \in SUBSET BattleMember,
           NEW label \in Labels, HoldMembers(h, ms, label)
    PROVE  ControlOK
BY Locals DEF StudentsAtWork, At, HoldMembers, ControlOK, ApiTypeOK, HandlerState

LEMMA GotoType ==
    ASSUME ApiTypeOK, StudentsAtWork, NEW h \in Handlers, ~At(h, "idle"), NEW label \in Labels, Goto(h, label)
    PROVE  ControlOK
BY RespondType, Locals DEF StudentsAtWork, At, Goto, ControlOK, ApiTypeOK, HandlerState

-----------------------------------------------------------------------------
(* Steps of a handler: what they write *)

\* What has to be shown of a step of a handler.
HandlerOK == StoreStep /\ ControlOK /\ UNCHANGED sqlVars /\ requests' = requests

LEMMA SaveHeldType ==
    ASSUME TypeInv, NEW h \in Handlers, ~At(h, "idle"), NEW m \in BattleMember, SaveHeld(h, m)
    PROVE  HandlerOK
<1>1. CASE MemberStored(m)
      BY <1>1, RespondType DEF SaveHeld, HandlerOK, StoreStep, MemberSaved, TypeInv,
                               TypeOK
<1>2. CASE ~MemberStored(m)
      BY <1>2, ReturnType DEF SaveHeld, HandlerOK, StoreStep, pgVars, TypeInv, TypeOK
<1> QED BY <1>1, <1>2

LEMMA InsertMemberType ==
    ASSUME TypeInv, NEW h \in Handlers, ~At(h, "idle"), NEW m \in BattleMember, NEW next \in Labels,
           InsertMember(h, m, next),
           UNCHANGED <<battles, battleSeq, sqlVars, requests>>
    PROVE  HandlerOK
<1>1. CASE Insertable(m)
      BY <1>1, GotoType DEF InsertMember, HandlerOK, StoreStep, MemberCreated, TypeInv,
                            TypeOK
<1>2. CASE ~Insertable(m)
      BY <1>2, ReturnType DEF InsertMember, HandlerOK, StoreStep, pgVars, TypeInv,
                              TypeOK
<1> QED BY <1>1, <1>2

LEMMA NewMemberType ==
    ASSUME NEW b \in Battle, NEW s \in Students \cup {NoStudent},
           NEW memberType \in MemberType
    PROVE  NewMember(b, s, memberType) \in BattleMember
BY ZeroValues DEF NewMember, Battle, BattleMember, MemberStatus

LEMMA MakeAIOpponentType ==
    ASSUME TypeInv, NEW h \in Handlers, ~At(h, "idle"), NEW next \in Labels,
           MakeAIOpponent(h, next),
           UNCHANGED <<battles, battleSeq, sqlVars, requests>>
    PROVE  HandlerOK
<1>1. ASSUME NEW bot \in Bots
      PROVE  AIOpponent(handler[h].b, bot) \in BattleMember
  <2>1. NewMember(handler[h].b, bot, "AI") \in BattleMember
        BY NewMemberType, Locals DEF TypeInv, TypeOK, Students, MemberType
  <2> QED BY <2>1 DEF AIOpponent, BattleMember, MemberStatus
<1>2. CASE Return(h) /\ UNCHANGED <<members, memberSeq>>
      BY <1>2, ReturnType DEF HandlerOK, StoreStep, pgVars, TypeInv, TypeOK
<1>3. CASE \E bot \in Bots : InsertMember(h, AIOpponent(handler[h].b, bot), next)
      BY <1>1, <1>3, InsertMemberType
<1> QED BY <1>2, <1>3 DEF MakeAIOpponent

LEMMA FindBattleType ==
    ASSUME TypeInv, NEW h \in Handlers, NEW from \in Labels \ {"idle"}, NEW next,
           \A b \in battles : next[b] \in Labels,
           FindBattle(h, from, next)
    PROVE  HandlerOK
BY ReturnType, HoldBattleType
   DEF At, FindBattle, FindByUUID, HandlerOK, StoreStep, TypeInv, TypeOK, PgTypeOK

LEMMA FindMemberType ==
    ASSUME TypeInv, NEW h \in Handlers, NEW from \in Labels \ {"idle"}, NEW next, NEW otherwise \in Labels,
           \A m \in members : next[m] \in Labels,
           FindMember(h, from, next, otherwise)
    PROVE  HandlerOK
BY GotoType, HoldMemberType
   DEF At, FindMember, FindByBattleAndStudent, MembersOf, HandlerOK, StoreStep, TypeInv,
       TypeOK, PgTypeOK

-----------------------------------------------------------------------------
(* Steps of a handler: find.go *)

LEMMA FindSteps ==
    ASSUME TypeInv, NEW h \in Handlers,
           \/ FindWaitingBattle(h) \/ CheckExistsInBattle(h) \/ CreateParticipant(h)
           \/ LowerLevel(h) \/ CountMembers(h) \/ SetOnQueue(h)
           \/ CreateNewBattle(h) \/ CreateCreator(h) \/ FindOpponent(h)
    PROVE  HandlerOK
<1> DEFINE b == handler[h].b
<1> USE DEF TypeInv, TypeOK, HandlerOK
<1>a. ~At(h, "idle")
      BY DEF At, FindWaitingBattle, CheckExistsInBattle, CreateParticipant, LowerLevel,
             CountMembers, SetOnQueue, CreateNewBattle, CreateCreator, FindOpponent
<1>0. b \in Battle /\ handler[h].student \in Students
      BY <1>a, Locals DEF StudentsAtWork
<1>1. CASE FindWaitingBattle(h)
      BY <1>1, <1>a, HoldBattleType, GotoType
         DEF FindWaitingBattle, FindWaiting, PgTypeOK, StoreStep, Labels
<1>2. CASE CheckExistsInBattle(h)
      BY <1>2, <1>a, RespondType, GotoType DEF CheckExistsInBattle, StoreStep, Labels
<1>3. CASE CreateParticipant(h)
  <2>1. NewMember(b, handler[h].student, "PARTICIPANT") \in BattleMember
        BY <1>0, NewMemberType DEF MemberType
  <2> QED BY <1>3, <2>1, <1>a, InsertMemberType DEF CreateParticipant, Labels
<1>4. CASE LowerLevel(h)
  <2> DEFINE c == [b EXCEPT !.level = Level[handler[h].student]]
  <2>1. CASE b.level <= Level[handler[h].student]
        BY <1>4, <2>1, <1>a, GotoType DEF LowerLevel, StoreStep, pgVars, Labels
  <2>2. CASE ~(b.level <= Level[handler[h].student]) /\ BattleStored(c)
    <3>1. SaveBattle(c) /\ HoldBattle(h, c, "countMembers")
          BY <1>4, <2>2 DEF LowerLevel
    <3>2. c \in Battle
          BY <1>0, StudentsAssumption DEF Battle
    <3> QED BY <1>4, <3>1, <3>2, <1>a, HoldBattleType
            DEF LowerLevel, StoreStep, BattleSaved, Labels
  <2>3. CASE ~(b.level <= Level[handler[h].student]) /\ ~BattleStored(c)
        BY <1>4, <2>3, <1>a, ReturnType DEF LowerLevel, StoreStep, pgVars
  <2> QED BY <2>1, <2>2, <2>3
<1>5. CASE CountMembers(h)
      BY <1>5, <1>a, GotoType DEF CountMembers, StoreStep, Labels
<1>6. CASE SetOnQueue(h)
  <2>1. OnQueue(b) \in Battle
        BY <1>0 DEF OnQueue, Battle, BattleStatus
  <2> QED BY <1>6, <2>1, <1>a, RespondType, ReturnType
          DEF SetOnQueue, StoreStep, BattleSaved, pgVars
<1>7. CASE CreateNewBattle(h)
  <2> DEFINE c == NewBattle(b.type, handler[h].student)
  <2>1. c \in Battle
        BY <1>0, ZeroValues, StudentsAssumption DEF NewBattle, Battle, BattleStatus
  <2>2. NewBattleRow(c) \in Battle
        BY <2>1 DEF NewBattleRow, Battle, PgTypeOK
  <2> QED BY <1>7, <2>1, <2>2, <1>a, HoldBattleType
          DEF CreateNewBattle, StoreStep, BattleCreated, Labels
<1>8. CASE CreateCreator(h)
  <2>1. NewMember(b, handler[h].student, "CREATOR") \in BattleMember
        BY <1>0, NewMemberType DEF MemberType
  <2> QED BY <1>8, <2>1, <1>a, InsertMemberType DEF CreateCreator, Labels
<1>9. CASE FindOpponent(h)
      BY <1>9, <1>a, MakeAIOpponentType DEF FindOpponent, Labels
<1> QED BY <1>1, <1>2, <1>3, <1>4, <1>5, <1>6, <1>7, <1>8, <1>9

-----------------------------------------------------------------------------
(* Steps of a handler: start_battle.go and confirm.go *)

LEMMA StartSteps ==
    ASSUME TypeInv, NEW h \in Handlers,
           StartBattle(h) \/ LoadAI(h) \/ SaveAI(h)
    PROVE  HandlerOK
<1> DEFINE b == handler[h].b
<1> USE DEF TypeInv, TypeOK, HandlerOK
<1>a. ~At(h, "idle")
      BY DEF At, StartBattle, LoadAI, SaveAI
<1>0. b \in Battle /\ handler[h].ms \subseteq BattleMember
      BY Locals
<1>1. CASE StartBattle(h)
  <2>1. PICK qs \in QuestionSets :
          IF qs = {} THEN Respond(h) /\ UNCHANGED battles
          ELSE IF BattleStored(Started(b, qs))
                 THEN SaveBattle(Started(b, qs)) /\ HoldBattle(h, Started(b, qs), "loadAI")
                 ELSE Return(h) /\ UNCHANGED battles
        BY <1>1 DEF StartBattle
  <2>2. Started(b, qs) \in Battle
        BY <1>0 DEF Started, Battle, BattleStatus, Questions
  <2>3. ControlOK
        BY <2>1, <2>2, <1>a, RespondType, ReturnType, HoldBattleType DEF Labels
  <2> QED BY <1>1, <2>1, <2>2, <2>3 DEF StartBattle, StoreStep, BattleSaved, pgVars
<1>2. CASE LoadAI(h)
  <2> DEFINE ai == {m \in MembersOf(b.id) : m.type = "AI"}
  <2>1. ai \in SUBSET BattleMember
        BY DEF MembersOf, PgTypeOK
  <2> QED BY <1>2, <2>1, <1>a, RespondType, HoldMembersType
          DEF LoadAI, StoreStep, Labels
<1>3. CASE SaveAI(h)
  <2>1. PICK m \in handler[h].ms :
          IF MemberStored(m)
            THEN /\ \E filled \in FilledAIMembers(b, m) : SaveMember(filled)
                 /\ IF handler[h].ms = {m} THEN Respond(h)
                    ELSE HoldMembers(h, handler[h].ms \ {m}, "saveAI")
            ELSE Return(h) /\ UNCHANGED members
        BY <1>3 DEF SaveAI
  <2>2. handler[h].ms \ {m} \in SUBSET BattleMember
        BY <1>0
  <2>3. ControlOK
        BY <2>1, <2>2, <1>a, RespondType, ReturnType, HoldMembersType DEF Labels
  <2>4. FilledAIMembers(b, m) \subseteq BattleMember
        BY <1>0, FilledAIType
  <2> QED BY <1>3, <2>1, <2>3, <2>4 DEF SaveAI, StoreStep, MemberSaved, pgVars
<1> QED BY <1>1, <1>2, <1>3

LEMMA ConfirmSteps ==
    ASSUME TypeInv, NEW h \in Handlers,
           ConfirmFind(h) \/ ConfirmFindMember(h) \/ ConfirmSave(h) \/ CountConfirmed(h)
    PROVE  HandlerOK
<1> USE DEF TypeInv, TypeOK, HandlerOK
<1>a. ~At(h, "idle")
      BY DEF At, ConfirmFind, ConfirmFindMember, ConfirmSave, CountConfirmed,
             FindBattle, FindMember
<1>1. CASE ConfirmFind(h)
      BY <1>1, FindBattleType DEF ConfirmFind, Labels
<1>2. CASE ConfirmFindMember(h)
      BY <1>2, FindMemberType DEF ConfirmFindMember, Labels
<1>3. CASE ConfirmSave(h)
  <2>1. Confirmed(handler[h].m) \in BattleMember
        BY Locals DEF Confirmed, BattleMember, MemberStatus
  <2>2. ControlOK
        BY <1>3, <1>a, HoldMemberType, ReturnType, ZeroValues DEF ConfirmSave, Labels
  <2> QED BY <1>3, <2>1, <2>2 DEF ConfirmSave, StoreStep, MemberSaved, pgVars
<1>4. CASE CountConfirmed(h)
      BY <1>4, <1>a, GotoType DEF CountConfirmed, StoreStep, Labels
<1> QED BY <1>1, <1>2, <1>3, <1>4

-----------------------------------------------------------------------------
(* Steps of a handler: answer.go, leave.go and change_type.go *)

LEMMA AnswerSteps ==
    ASSUME TypeInv, NEW h \in Handlers,
           AnswerFind(h) \/ AnswerFindMember(h) \/ AnswerSave(h)
    PROVE  HandlerOK
<1> DEFINE b == handler[h].b
           m == handler[h].m
<1> USE DEF TypeInv, TypeOK, HandlerOK
<1>a. ~At(h, "idle")
      BY DEF At, AnswerFind, AnswerFindMember, AnswerSave, FindBattle, FindMember
<1>1. CASE AnswerFind(h)
      BY <1>1, FindBattleType DEF AnswerFind, AfterAnswerFind, Labels
<1>2. CASE AnswerFindMember(h)
      BY <1>2, FindMemberType DEF AnswerFindMember, Labels
<1>3. CASE AnswerSave(h)
  <2> DEFINE answered(q, isCorrect) ==
               [ProcessAnswer(b, m, q, isCorrect) EXCEPT !.lastQuestionAt = TRUE]
  <2>1. ASSUME NEW q \in Questions, NEW isCorrect \in BOOLEAN
        PROVE  answered(q, isCorrect) \in BattleMember
    <3>1. ProcessAnswer(b, m, q, isCorrect) \in BattleMember
          BY Locals, ProcessAnswerType
    <3> QED BY <3>1 DEF BattleMember
  <2>2. CASE \E q \in Questions, isCorrect \in BOOLEAN : SaveHeld(h, answered(q, isCorrect))
    <3> HIDE DEF answered
    <3> QED BY <2>1, <2>2, <1>a, SaveHeldType
  <2>3. CASE Return(h) /\ UNCHANGED <<pgVars, sqlVars, requests>>
        BY <2>3, <1>a, ReturnType DEF StoreStep
  <2> QED BY <1>3, <2>2, <2>3 DEF AnswerSave
<1> QED BY <1>1, <1>2, <1>3

LEMMA LeaveSteps ==
    ASSUME TypeInv, NEW h \in Handlers,
           \/ LeaveFind(h) \/ LeaveDeleteMembers(h) \/ LeaveDeleteBattle(h)
           \/ LeaveFindMember(h) \/ LeaveSave(h) \/ LeaveDelete(h)
    PROVE  HandlerOK
<1> USE DEF TypeInv, TypeOK, HandlerOK
<1>a. ~At(h, "idle")
      BY DEF At, LeaveFind, LeaveDeleteMembers, LeaveDeleteBattle, LeaveFindMember,
             LeaveSave, LeaveDelete, FindBattle, FindMember
<1>1. CASE LeaveFind(h)
  <2>1. \A b \in battles : AfterLeaveFind(b) \in Labels
        BY DEF AfterLeaveFind, Labels
  <2> QED BY <1>1, <2>1, FindBattleType DEF LeaveFind, Labels
<1>2. CASE LeaveDeleteMembers(h)
      BY <1>2, <1>a, GotoType
         DEF LeaveDeleteMembers, DeleteByBattle, StoreStep, MembersDeleted, Labels
<1>3. CASE LeaveDeleteBattle(h)
      BY <1>3, <1>a, ReturnType, Locals DEF LeaveDeleteBattle, StoreStep, BattleDeleted
<1>4. CASE LeaveFindMember(h)
      BY <1>4, FindMemberType DEF LeaveFindMember, AfterLeaveFindMember, Labels
<1>5. CASE LeaveSave(h)
  <2>1. FillBlanks(handler[h].b, handler[h].m) \in BattleMember
        BY Locals, FillBlanksType
  <2> QED BY <1>5, <2>1, <1>a, SaveHeldType DEF LeaveSave
<1>6. CASE LeaveDelete(h)
      BY <1>6, <1>a, ReturnType
         DEF LeaveDelete, DeleteByBattleAndStudent, StoreStep, MembersDeleted
<1> QED BY <1>1, <1>2, <1>3, <1>4, <1>5, <1>6

LEMMA ChangeSteps ==
    ASSUME TypeInv, NEW h \in Handlers,
           ChangeFind(h) \/ ChangeCount(h) \/ ChangeSave(h) \/ ChangeOpponent(h)
    PROVE  HandlerOK
<1> DEFINE c == [OnQueue(handler[h].b) EXCEPT !.type = "AI"]
<1> USE DEF TypeInv, TypeOK, HandlerOK
<1>a. ~At(h, "idle")
      BY DEF At, ChangeFind, ChangeCount, ChangeSave, ChangeOpponent, FindBattle
<1>1. CASE ChangeFind(h)
      BY <1>1, FindBattleType DEF ChangeFind, AfterChangeFind, Labels
<1>2. CASE ChangeCount(h)
      BY <1>2, <1>a, GotoType DEF ChangeCount, StoreStep, Labels
<1>3. CASE ChangeSave(h)
  <2>1. c \in Battle
        BY Locals DEF OnQueue, Battle, BattleStatus, BattleType
  <2>2. ControlOK
        BY <1>3, <2>1, <1>a, HoldBattleType, ReturnType DEF ChangeSave, Labels
  <2> QED BY <1>3, <2>1, <2>2 DEF ChangeSave, StoreStep, BattleSaved, pgVars
<1>4. CASE ChangeOpponent(h)
      BY <1>4, <1>a, MakeAIOpponentType DEF ChangeOpponent, Labels
<1> QED BY <1>1, <1>2, <1>3, <1>4

LEMMA HandlerTypes ==
    ASSUME TypeInv, NEW h \in Handlers, HandlerStep(h)
    PROVE  HandlerOK
BY FindSteps, StartSteps, ConfirmSteps, AnswerSteps, LeaveSteps, ChangeSteps
   DEF HandlerStep

\* A request arrives, or a handler is cut off.
LEMMA RequestTypes ==
    ASSUME TypeInv, NEW h \in Handlers, Request(h)
    PROVE  StoreStep /\ ApiTypeOK' /\ StudentsAtWork' /\ UNCHANGED sqlVars
<1>1. ASSUME NEW kind \in RequestKinds, NEW s \in Humans, NEW b \in Battle,
             NEW label \in Labels \ {"idle"}, Accept(h, kind, s, b, label)
      PROVE  StoreStep /\ ApiTypeOK' /\ StudentsAtWork' /\ UNCHANGED sqlVars
  <2>1. [Idle EXCEPT !.at = label, !.student = s, !.b = b] \in HandlerState
        BY IdleType DEF HandlerState, Students
  <2>2. handler' \in [Handlers -> HandlerState] /\ StudentsAtWork'
        BY <1>1, <2>1 DEF Accept, TypeInv, TypeOK, ApiTypeOK, StudentsAtWork, At, Idle,
                          Students
  <2>3. requests' \in [RequestKinds -> Nat]
        BY <1>1 DEF Accept, TypeInv, TypeOK, ApiTypeOK
  <2> QED BY <1>1, <2>2, <2>3 DEF Accept, StoreStep, TypeInv, TypeOK, ApiTypeOK
<1>2. ASSUME NEW kind \in RequestKinds, NEW s \in Humans, NEW uuid \in 1..battleSeq,
             NEW label \in Labels \ {"idle"}, BattleRequest(h, kind, s, uuid, label)
      PROVE  StoreStep /\ ApiTypeOK' /\ StudentsAtWork' /\ UNCHANGED sqlVars
  <2>1. [NoBattle EXCEPT !.id = uuid] \in Battle
        BY ZeroValues DEF Battle, TypeInv, TypeOK, PgTypeOK
  <2> QED BY <1>1, <1>2, <2>1 DEF BattleRequest
<1>3. ASSUME NEW s \in Humans, NEW type \in FindTypes, FindRequest(h, s, type)
      PROVE  StoreStep /\ ApiTypeOK' /\ StudentsAtWork' /\ UNCHANGED sqlVars
  <2>1. [NoBattle EXCEPT !.type = type] \in Battle
        BY ZeroValues, ApiAssumption DEF Battle
  <2> QED BY <1>1, <1>3, <2>1 DEF FindRequest, RequestKinds, Labels
<1> QED BY <1>2, <1>3
        DEF Request, ConfirmRequest, AnswerRequest, LeaveRequest, ChangeTypeRequest,
            RequestKinds, Labels

-----------------------------------------------------------------------------
(* Steps of the kick loop *)

LEMMA WorkerLocals ==
    ASSUME WorkerTypeOK
    PROVE  /\ kicker.todo \subseteq Battle /\ kicker.b \in Battle
           /\ kicker.kicked \subseteq BattleMember /\ kicker.left \subseteq BattleMember
           /\ ender.todo \subseteq Battle /\ ender.idle \subseteq BattleMember
           /\ ender.b \in Battle /\ ender.ms \subseteq BattleMember
           /\ ender.left \subseteq BattleMember
           /\ kicker.b.id \in Nat /\ ender.b.id \in Nat
           /\ ender.pass \in {"Expired", "Idle", "Finished"}
BY DEF WorkerTypeOK, KickerState, EnderState, Battle

LEMMA WorkerIdleType == KickerIdle \in KickerState /\ EnderIdle \in EnderState
BY ZeroValues DEF KickerIdle, EnderIdle, KickerState, EnderState, KickerLabels,
                  EnderLabels

LEMMA KickNextType ==
    ASSUME NEW todo \in SUBSET Battle, KickNext(todo)
    PROVE  kicker' \in KickerState
BY WorkerIdleType DEF KickNext, KickerState, KickerLabels

LEMMA KickedOneType ==
    ASSUME WorkerTypeOK, NEW m, KickedOne(m)
    PROVE  kicker' \in KickerState
BY DEF KickedOne, WorkerTypeOK, KickerState, KickerLabels

LEMMA UnconfirmedOneType ==
    ASSUME WorkerTypeOK, NEW m, UnconfirmedOne(m)
    PROVE  kicker' \in KickerState
BY KickNextType DEF UnconfirmedOne, WorkerTypeOK, KickerState

\* What has to be shown of a step of the kick loop.
KickerOK ==
    StoreStep /\ kicker' \in KickerState /\ UNCHANGED <<sqlVars, ender>>

LEMMA KickerTypes ==
    ASSUME TypeInv, KickerStep
    PROVE  KickerOK
<1> USE WorkerLocals DEF TypeInv, TypeOK, KickerOK
<1>1. CASE KickScan
  <2>1. MayBeExpiredOnQueue \subseteq Battle
        BY DEF MayBeExpiredOnQueue, PgTypeOK
  <2> QED BY <1>1, <2>1, KickNextType DEF KickScan, StoreStep
<1>2. CASE KickLoad
  <2>1. \A id : MembersOf(id) \subseteq BattleMember
        BY DEF MembersOf, PgTypeOK
  <2>2. kicker' \in KickerState
        BY <1>2, <2>1 DEF KickLoad, KickExpiredMembers, KickerState, KickerLabels
  <2> QED BY <1>2, <2>2 DEF KickLoad, StoreStep
<1>3. CASE KickDeleteMembers
      BY <1>3 DEF KickDeleteMembers, DeleteByBattle, StoreStep, MembersDeleted,
                  WorkerTypeOK, KickerState, KickerLabels
<1>4. CASE KickDeleteBattle
      BY <1>4, KickNextType DEF KickDeleteBattle, StoreStep, BattleDeleted
<1>5. CASE KickMember
      BY <1>5, KickedOneType DEF KickMember, DeleteMember, StoreStep, MembersDeleted
<1>6. CASE KickReset
  <2>1. Reset(kicker.b) \in Battle
        BY DEF Reset, Battle, BattleStatus
  <2>2. kicker' \in KickerState
        BY <1>6, <2>1, KickNextType DEF KickReset, WorkerTypeOK, KickerState, KickerLabels
  <2> QED BY <1>6, <2>1, <2>2 DEF KickReset, StoreStep, BattleSaved, pgVars
<1>7. CASE KickUnconfirm
  <2>1. PICK m \in kicker.left :
          /\ IF MemberStored(m) THEN SaveMember(Unconfirmed(m)) ELSE UNCHANGED members
          /\ UnconfirmedOne(m)
        BY <1>7 DEF KickUnconfirm
  <2>2. Unconfirmed(m) \in BattleMember
        BY DEF Unconfirmed, BattleMember, MemberStatus
  <2> QED BY <1>7, <2>1, <2>2, UnconfirmedOneType
          DEF KickUnconfirm, StoreStep, MemberSaved, pgVars
<1> QED BY <1>1, <1>2, <1>3, <1>4, <1>5, <1>6, <1>7 DEF KickerStep

LEMMA KickErrorTypes ==
    ASSUME TypeInv, KickError
    PROVE  KickerOK
BY WorkerLocals, KickNextType, KickedOneType, UnconfirmedOneType
   DEF TypeInv, TypeOK, KickerOK, KickError, StoreStep, WorkerTypeOK, KickerState,
       KickerLabels

-----------------------------------------------------------------------------
(* Steps of the end loop *)

LEMMA WorkType ==
    ASSUME NEW pass \in {"Expired", "Idle", "Finished"}, NEW todo \in SUBSET Battle,
           NEW idle \in SUBSET BattleMember, Work(pass, todo, idle)
    PROVE  ender' \in EnderState
<1>1. AfterPass[pass] \in EnderLabels /\ LoadLabel[pass] \in EnderLabels
  <2>1. CASE pass = "Expired"
        BY <2>1 DEF AfterPass, LoadLabel, EnderLabels
  <2>2. CASE pass = "Idle"
        BY <2>2 DEF AfterPass, LoadLabel, EnderLabels
  <2>3. CASE pass = "Finished"
        BY <2>3 DEF AfterPass, LoadLabel, EnderLabels
  <2> QED BY <2>1, <2>2, <2>3
<1> QED BY <1>1, WorkerIdleType DEF Work, EnderState

LEMMA EndNextType ==
    ASSUME WorkerTypeOK, NEW pass \in {"Expired", "Idle", "Finished"},
           NEW todo \in SUBSET Battle, EndNext(pass, todo)
    PROVE  ender' \in EnderState
BY WorkType, WorkerLocals DEF EndNext

LEMMA GiveUpType ==
    ASSUME WorkerTypeOK, GiveUp
    PROVE  ender' \in EnderState
BY EndNextType, WorkerLocals DEF GiveUp

LEMMA EndedOneType ==
    ASSUME WorkerTypeOK, NEW m, NEW next \in EnderLabels, EndedOne(m, next)
    PROVE  ender' \in EnderState
BY DEF EndedOne, LeftAfter, WorkerTypeOK, EnderState

\* The results EndBattle computes are rows.
LEMMA ExecuteType ==
    ASSUME TypeInv, NEW b \in Battle, NEW fillBlanks \in BOOLEAN,
           Execute(b, MembersOf(b.id), fillBlanks)
    PROVE  ender' \in EnderState
<1> DEFINE ms == MembersOf(b.id)
           f == [m \in ms |-> IF fillBlanks /\ ~m.isFinished THEN FillBlanks(b, m) ELSE m]
<1>1. ms \in SUBSET members /\ ms \subseteq BattleMember
      BY DEF MembersOf, TypeInv, TypeOK, PgTypeOK
<1>2. IsFiniteSet(ms)
      BY <1>1, FS_Subset DEF TypeInv
<1> HIDE DEF ms
<1>3. Filled(b, ms, fillBlanks) = {f[m] : m \in ms}
      BY DEF Filled
<1>4. Filled(b, ms, fillBlanks) \subseteq BattleMember
      BY <1>1, FillBlanksType DEF Filled
<1> HIDE DEF f
<1>5. IsFiniteSet(Filled(b, ms, fillBlanks))
  <2>1. IsFiniteSet({f[m] : m \in ms})
        BY ONLY <1>2, FiniteImage
  <2> QED BY <1>3, <2>1
<1>6. PICK ranked \in RankedMembers(Filled(b, ms, fillBlanks)) :
        ender' = [ender EXCEPT !.at = "saveBattle", !.todo = @ \ {b},
                               !.b = Finished(b), !.ms = ranked, !.left = ranked]
      BY DEF Execute, ms
<1>7. ranked \subseteq BattleMember
      BY <1>4, <1>5, RankedType
<1>8. Finished(b) \in Battle
      BY DEF Finished, Battle, BattleStatus
<1> QED BY <1>6, <1>7, <1>8
        DEF TypeInv, TypeOK, WorkerTypeOK, EnderState, EnderLabels

\* What has to be shown of a step of the end loop.
EnderOK ==
    StoreStep /\ SqlTypeOK' /\ ender' \in EnderState /\ kicker' = kicker

LEMMA ScanTypes ==
    ASSUME TypeInv, ScanExpired \/ ScanIdle \/ ScanFinished
    PROVE  EnderOK
<1> USE WorkerLocals DEF TypeInv, TypeOK, EnderOK
<1>1. /\ MayBeOnGoingExpired \subseteq Battle /\ FindOnGoing \subseteq Battle
      /\ FindOnGoingAllMembersFinished \subseteq Battle
      BY DEF MayBeOnGoingExpired, FindOnGoing, FindOnGoingAllMembersFinished, PgTypeOK
<1>2. CASE ScanExpired
      BY <1>1, <1>2, EndNextType DEF ScanExpired, StoreStep, SqlTypeOK, sqlVars
<1>3. CASE ScanIdle
  <2>1. PICK idle \in SUBSET members :
          Work("Idle", {b \in FindOnGoing : \E m \in idle : m.battle = b.id}, idle)
        BY <1>3 DEF ScanIdle
  <2>2. ender' \in EnderState
        BY <1>1, <2>1, WorkType DEF PgTypeOK
  <2> QED BY <1>3, <2>2 DEF ScanIdle, StoreStep, SqlTypeOK, sqlVars
<1>4. CASE ScanFinished
      BY <1>1, <1>4, EndNextType DEF ScanFinished, StoreStep, SqlTypeOK, sqlVars
<1> QED BY <1>2, <1>3, <1>4

LEMMA LoadTypes ==
    ASSUME TypeInv,
           LoadExpired \/ LoadIdle \/ LoadFinished \/ DropMembers \/ DropBattle \/ SaveIdle
    PROVE  EnderOK
<1> USE WorkerLocals DEF TypeInv, TypeOK, EnderOK
<1>1. CASE LoadExpired
  <2>1. PICK b \in ender.todo :
          IF ShouldDeleteAIBattle(b, MembersOf(b.id))
            THEN ender' = [ender EXCEPT !.at = "dropMembers", !.todo = @ \ {b}, !.b = b]
            ELSE Execute(b, MembersOf(b.id), TRUE)
        BY <1>1 DEF LoadExpired
  <2>2. ender' \in EnderState
        BY <2>1, ExecuteType DEF WorkerTypeOK, EnderState, EnderLabels
  <2> QED BY <1>1, <2>2 DEF LoadExpired, StoreStep, SqlTypeOK, sqlVars
<1>2. CASE LoadIdle
  <2>1. \A b : IdleMembers(MembersOf(b.id)) \subseteq BattleMember
        BY DEF IdleMembers, MembersOf, PgTypeOK
  <2>2. PICK b \in ender.todo :
          IF IdleMembers(MembersOf(b.id)) = {}
            THEN EndNext("Idle", ender.todo \ {b})
            ELSE ender' = [ender EXCEPT !.at = "saveIdle", !.todo = @ \ {b}, !.b = b,
                                        !.left = IdleMembers(MembersOf(b.id))]
        BY <1>2 DEF LoadIdle
  <2>3. ender' \in EnderState
    <3> DEFINE idle == IdleMembers(MembersOf(b.id))
    <3>1. idle \in SUBSET BattleMember
          BY <2>1
    <3> HIDE DEF idle
    <3>2. CASE EndNext("Idle", ender.todo \ {b})
          BY <3>2, EndNextType
    <3>3. CASE ender' = [ender EXCEPT !.at = "saveIdle", !.todo = @ \ {b}, !.b = b,
                                      !.left = idle]
          BY <3>1, <3>3 DEF WorkerTypeOK, EnderState, EnderLabels
    <3> QED BY <2>2, <3>2, <3>3 DEF idle
  <2> QED BY <1>2, <2>3 DEF LoadIdle, StoreStep, SqlTypeOK, sqlVars
<1>3. CASE LoadFinished
  <2>1. PICK b \in ender.todo :
          IF AllMembersFinished(MembersOf(b.id))
            THEN Execute(b, MembersOf(b.id), FALSE)
            ELSE EndNext("Finished", ender.todo \ {b})
        BY <1>3 DEF LoadFinished
  <2>2. ender' \in EnderState
        BY <2>1, ExecuteType, EndNextType
  <2> QED BY <1>3, <2>2 DEF LoadFinished, StoreStep, SqlTypeOK, sqlVars
<1>4. CASE DropMembers
      BY <1>4 DEF DropMembers, DeleteByBattle, StoreStep, MembersDeleted, SqlTypeOK,
                  sqlVars, WorkerTypeOK, EnderState, EnderLabels
<1>5. CASE DropBattle
      BY <1>5, EndNextType DEF DropBattle, StoreStep, BattleDeleted, SqlTypeOK, sqlVars
<1>6. CASE SaveIdle
  <2>1. PICK m \in ender.left :
          /\ IF MemberStored(m) THEN SaveMember(FillBlanks(ender.b, m))
                                ELSE UNCHANGED members
          /\ IF LeftAfter(m) = {} THEN EndNext("Idle", ender.todo)
                                  ELSE ender' = [ender EXCEPT !.left = LeftAfter(m)]
        BY <1>6 DEF SaveIdle
  <2>2. FillBlanks(ender.b, m) \in BattleMember
        BY FillBlanksType
  <2>3. ender' \in EnderState
        BY <2>1, EndNextType DEF LeftAfter, WorkerTypeOK, EnderState
  <2> QED BY <1>6, <2>1, <2>2, <2>3
          DEF SaveIdle, StoreStep, MemberSaved, pgVars, SqlTypeOK, sqlVars
<1> QED BY <1>1, <1>2, <1>3, <1>4, <1>5, <1>6

LEMMA SaveTypes ==
    ASSUME TypeInv,
           \/ SavePgBattle \/ SavePgMember \/ SaveSqlBattle \/ SaveSqlMember
           \/ UpsertStats
    PROVE  EnderOK
<1> USE WorkerLocals, GiveUpType DEF TypeInv, TypeOK, EnderOK
<1>1. CASE SavePgBattle
  <2>1. ender' \in EnderState
        BY <1>1 DEF SavePgBattle, WorkerTypeOK, EnderState, EnderLabels
  <2> QED BY <1>1, <2>1 DEF SavePgBattle, StoreStep, BattleSaved, pgVars, SqlTypeOK,
                            sqlVars
<1>2. CASE SavePgMember
  <2>1. ender' \in EnderState
        BY <1>2, EndedOneType DEF SavePgMember, EnderLabels
  <2> QED BY <1>2, <2>1 DEF SavePgMember, StoreStep, MemberSaved, pgVars, SqlTypeOK,
                            sqlVars
<1>3. CASE SaveSqlBattle
  <2>1. ender' \in EnderState
        BY <1>3 DEF SaveSqlBattle, WorkerTypeOK, EnderState, EnderLabels
  <2> QED BY <1>3, <2>1 DEF SaveSqlBattle, SqlSaveBattle, StoreStep, SqlTypeOK
<1>4. CASE SaveSqlMember
  <2>1. PICK m \in ender.left : SqlUpdateMember(ender.b, m) /\ EndedOne(m, "sqlStats")
        BY <1>4 DEF SaveSqlMember
  <2>2. ender' \in EnderState
        BY <2>1, EndedOneType DEF EnderLabels
  <2>3. SqlRow(ender.b, m) \in SqlMember
        BY DEF SqlRow, SqlMember, BattleMember
  <2>4. sqlMembers' \subseteq SqlMember
        BY <2>1, <2>3 DEF SqlUpdateMember, SqlTypeOK
  <2> QED BY <1>4, <2>2, <2>4 DEF SaveSqlMember, StoreStep, SqlTypeOK
<1>5. CASE UpsertStats
  <2>1. PICK m \in ender.left :
          /\ UpsertStudentBattle(m)
          /\ IF LeftAfter(m) = {} THEN GiveUp
                                  ELSE ender' = [ender EXCEPT !.left = LeftAfter(m)]
        BY <1>5 DEF UpsertStats
  <2>2. ender' \in EnderState
        BY <2>1 DEF LeftAfter, WorkerTypeOK, EnderState
  <2>3. \A counts \in Counts : Counted(counts, m) \in Counts
        BY DEF Counted, Counts
  <2>4. studentBattle' \in [Students -> Counts]
        BY <2>1, <2>3 DEF UpsertStudentBattle, SqlTypeOK
  <2> QED BY <1>5, <2>2, <2>4 DEF UpsertStats, StoreStep, SqlTypeOK
<1> QED BY <1>1, <1>2, <1>3, <1>4, <1>5

LEMMA EnderTypes ==
    ASSUME TypeInv, EnderStep
    PROVE  EnderOK
BY ScanTypes, LoadTypes, SaveTypes DEF EnderStep

LEMMA EndErrorTypes ==
    ASSUME TypeInv, EndError
    PROVE  EnderOK
<1> USE WorkerLocals, EndNextType DEF TypeInv, TypeOK
<1>1. CASE \E b \in ender.todo : EndNext(ender.pass, ender.todo \ {b})
      BY <1>1 DEF EndError, EnderOK, StoreStep, SqlTypeOK, sqlVars
<1>2. CASE ender' = [ender EXCEPT !.at = "dropBattle"]
  <2>1. ender' \in EnderState
        BY <1>2 DEF WorkerTypeOK, EnderState, EnderLabels
  <2> QED BY <2>1 DEF EndError, EnderOK, StoreStep, SqlTypeOK, sqlVars
<1>3. CASE \E m \in ender.left :
             IF LeftAfter(m) = {} THEN EndNext("Idle", ender.todo)
                                  ELSE ender' = [ender EXCEPT !.left = LeftAfter(m)]
  <2>1. ender' \in EnderState
        BY <1>3 DEF LeftAfter, WorkerTypeOK, EnderState
  <2> QED BY <2>1 DEF EndError, EnderOK, StoreStep, SqlTypeOK, sqlVars
<1>4. CASE GiveUp
      BY <1>4, GiveUpType DEF EndError, EnderOK, StoreStep, SqlTypeOK, sqlVars
<1> QED BY <1>1, <1>2, <1>3, <1>4 DEF EndError

-----------------------------------------------------------------------------
(* Type correctness *)

\* One statement of the store keeps its tables well typed and finite.
LEMMA StoreTypes ==
    ASSUME PgTypeOK, IsFiniteSet(members), StoreStep
    PROVE  PgTypeOK' /\ IsFiniteSet(members')
<1> USE DEF PgTypeOK
<1>1. CASE UNCHANGED pgVars
      BY <1>1 DEF pgVars
<1>2. CASE BattleCreated
      BY <1>2 DEF BattleCreated, CreateBattle, NewBattleRow, Battle
<1>3. CASE BattleSaved
  <2>1. PICK b \in Battle : SaveBattle(b) /\ UNCHANGED <<members, battleSeq, memberSeq>>
        BY <1>3 DEF BattleSaved
  <2>2. \A r \in battles : SavedRow(r, b) \in Battle
        BY DEF SavedRow, Battle
  <2> QED BY <2>1, <2>2 DEF SaveBattle
<1>4. CASE BattleDeleted
  <2>1. members' \in SUBSET members
        BY <1>4 DEF BattleDeleted, DeleteBattle
  <2> QED BY <1>4, <2>1, FS_Subset DEF BattleDeleted, DeleteBattle
<1>5. CASE MemberCreated
  <2>1. PICK m \in BattleMember : CreateMember(m) /\ UNCHANGED <<battles, battleSeq>>
        BY <1>5 DEF MemberCreated
  <2> DEFINE row == [m EXCEPT !.id = memberSeq + 1]
  <2>2. row \in BattleMember
        BY DEF BattleMember
  <2>3. members' = members \cup {row} /\ memberSeq' = memberSeq + 1
        BY <2>1 DEF CreateMember
  <2> HIDE DEF row
  <2> QED BY <2>1, <2>2, <2>3, FS_AddElement
<1>6. CASE MemberSaved
  <2>1. PICK m \in BattleMember : SaveMember(m) /\ UNCHANGED <<battles, battleSeq, memberSeq>>
        BY <1>6 DEF MemberSaved
  <2> DEFINE f == [r \in members |-> IF r.id = m.id THEN SavedMemberRow(r, m) ELSE r]
  <2>2. \A r \in members : SavedMemberRow(r, m) \in BattleMember
        BY DEF SavedMemberRow, BattleMember
  <2>3. members' \subseteq BattleMember
        BY <2>1, <2>2 DEF SaveMember
  <2>4. members' = {f[r] : r \in members}
        BY <2>1 DEF SaveMember
  <2> HIDE DEF f
  <2>5. IsFiniteSet({f[r] : r \in members})
        BY ONLY IsFiniteSet(members), FiniteImage
  <2> QED BY <2>1, <2>3, <2>4, <2>5
<1>7. CASE MembersDeleted
      BY <1>7, FS_Subset DEF MembersDeleted
<1> QED BY <1>1, <1>2, <1>3, <1>4, <1>5, <1>6, <1>7 DEF StoreStep

\* A step of the system is at most one statement of the store.
LEMMA NextTypes ==
    ASSUME TypeInv, Next
    PROVE  StoreStep /\ SqlTypeOK' /\ ApiTypeOK' /\ StudentsAtWork' /\ WorkerTypeOK'
<1> USE DEF TypeInv, TypeOK
<1>1. ASSUME NEW h \in Handlers, Arrive(h)
      PROVE  StoreStep /\ SqlTypeOK' /\ ApiTypeOK' /\ StudentsAtWork' /\ WorkerTypeOK'
      BY <1>1, RequestTypes DEF Arrive, SqlTypeOK, sqlVars, WorkerTypeOK, workerVars
<1>2. ASSUME NEW h \in Handlers, Handle(h)
      PROVE  StoreStep /\ SqlTypeOK' /\ ApiTypeOK' /\ StudentsAtWork' /\ WorkerTypeOK'
      BY <1>2, HandlerTypes
         DEF Handle, HandlerOK, ControlOK, ApiTypeOK, SqlTypeOK, sqlVars, WorkerTypeOK,
             workerVars
<1>3. CASE Kick
      BY <1>3, KickerTypes
         DEF Kick, KickerOK, ApiTypeOK, StudentsAtWork, At, apiVars, SqlTypeOK, sqlVars,
             WorkerTypeOK
<1>4. CASE End
      BY <1>4, EnderTypes
         DEF End, EnderOK, ApiTypeOK, StudentsAtWork, At, apiVars, WorkerTypeOK
<1>5. CASE Fault
  <2>1. ASSUME NEW h \in Handlers, Abort(h), UNCHANGED workerVars
        PROVE  StoreStep /\ SqlTypeOK' /\ ApiTypeOK' /\ StudentsAtWork' /\ WorkerTypeOK'
    <3>1. ControlOK
          BY <2>1, ReturnType DEF Abort
    <3> QED BY <2>1, <3>1
            DEF Abort, ControlOK, StoreStep, ApiTypeOK, SqlTypeOK, sqlVars, WorkerTypeOK,
                workerVars
  <2>2. CASE KickError /\ UNCHANGED apiVars
        BY <2>2, KickErrorTypes
           DEF KickerOK, ApiTypeOK, StudentsAtWork, At, apiVars, SqlTypeOK, sqlVars,
               WorkerTypeOK
  <2>3. CASE EndError /\ UNCHANGED apiVars
        BY <2>3, EndErrorTypes
           DEF EnderOK, ApiTypeOK, StudentsAtWork, At, apiVars, WorkerTypeOK
  <2>4. CASE WorkerCrash /\ UNCHANGED apiVars
        BY <2>4, WorkerIdleType
           DEF WorkerCrash, StoreStep, ApiTypeOK, StudentsAtWork, At, apiVars, SqlTypeOK,
               sqlVars, WorkerTypeOK
  <2> QED BY <1>5, <2>1, <2>2, <2>3, <2>4 DEF Fault
<1> QED BY <1>1, <1>2, <1>3, <1>4, <1>5 DEF Next

LEMMA TypeStutter ==
    ASSUME TypeInv, UNCHANGED vars
    PROVE  TypeInv' /\ StoreStep
BY DEF TypeInv, TypeOK, vars, pgVars, sqlVars, apiVars, workerVars, PgTypeOK, SqlTypeOK,
       ApiTypeOK, WorkerTypeOK, StudentsAtWork, At, StoreStep

LEMMA TypeInit ==
    ASSUME Init
    PROVE  TypeInv
<1>1. PgTypeOK /\ IsFiniteSet(members)
      BY FS_EmptySet DEF Init, PgInit, PgTypeOK
<1>2. SqlTypeOK
      BY DEF Init, SqlInit, SqlTypeOK, Counts
<1>3. ApiTypeOK /\ StudentsAtWork
      BY IdleType DEF Init, ApiInit, ApiTypeOK, StudentsAtWork, At, Idle
<1>4. WorkerTypeOK
      BY WorkerIdleType DEF Init, WorkerInit, WorkerTypeOK
<1> QED BY <1>1, <1>2, <1>3, <1>4 DEF TypeInv, TypeOK

\* The inductive invariant of type correctness holds in every state.
THEOREM TypeInvariant == Spec => []TypeInv
<1>1. TypeInv /\ [Next]_vars => TypeInv'
      BY NextTypes, StoreTypes, TypeStutter DEF TypeInv, TypeOK
<1> QED BY TypeInit, <1>1, PTL DEF Spec

\* Type correctness: every row, every copy of a row and every local variable of
\* the handlers and the worker is what its declaration says, for any number of
\* students, requests in flight and questions.
THEOREM TypeCorrect == Spec => []TypeOK
<1>1. TypeInv => TypeOK
      BY DEF TypeInv
<1> QED BY TypeInvariant, <1>1, PTL

-----------------------------------------------------------------------------
(* The tables *)

\* A statement of the store keeps every student in a battle at most once: an
\* INSERT passes the unique index, an UPDATE leaves battle_id and student_id alone.
LEMMA StoreUnique ==
    ASSUME PgTypeOK, UniqueMembership, StoreStep
    PROVE  UniqueMembership'
<1> USE DEF PgTypeOK, UniqueMembership
<1>1. CASE members' \subseteq members
      BY <1>1
<1>2. CASE MemberCreated
  <2>1. PICK m \in BattleMember : Insertable(m) /\ CreateMember(m)
        BY <1>2 DEF MemberCreated
  <2> DEFINE row == [m EXCEPT !.id = memberSeq + 1]
  <2>2. row.battle = m.battle /\ row.student = m.student
        BY DEF BattleMember
  <2>3. \A n \in members : ~(n.battle = row.battle /\ n.student = row.student)
        BY <2>1, <2>2
           DEF Insertable, ExistsInBattle, FindByBattleAndStudent, MembersOf
  <2>4. members' = members \cup {row}
        BY <2>1 DEF CreateMember
  <2> HIDE DEF row
  <2> QED BY <2>3, <2>4
<1>3. CASE MemberSaved
  <2>1. PICK m \in BattleMember : SaveMember(m)
        BY <1>3 DEF MemberSaved
  <2> DEFINE f(r) == IF r.id = m.id THEN SavedMemberRow(r, m) ELSE r
  <2>2. \A r \in members : f(r).battle = r.battle /\ f(r).student = r.student
        BY DEF SavedMemberRow, BattleMember
  <2>3. members' = {f(r) : r \in members}
        BY <2>1 DEF SaveMember
  <2> HIDE DEF f
  <2> QED BY <2>2, <2>3
<1> QED BY <1>1, <1>2, <1>3
        DEF StoreStep, pgVars, BattleCreated, BattleSaved, BattleDeleted, DeleteBattle,
            MembersDeleted

\* A statement of the store leaves no member without its battle: an INSERT passes
\* the foreign key, and a DELETE of a battle cascades.
LEMMA StoreNoOrphans ==
    ASSUME PgTypeOK, NoOrphans, StoreStep
    PROVE  NoOrphans'
<1> USE DEF PgTypeOK, NoOrphans
<1>1. CASE members' \subseteq members /\ battles \subseteq battles'
      BY <1>1
<1>2. CASE BattleSaved
  <2>1. PICK b \in Battle : SaveBattle(b) /\ UNCHANGED members
        BY <1>2 DEF BattleSaved
  <2>2. \A r \in battles : SavedRow(r, b).id = r.id
        BY DEF SavedRow, Battle
  <2>3. \A r \in battles : \E c \in battles' : c.id = r.id
        BY <2>1, <2>2 DEF SaveBattle
  <2> QED BY <2>1, <2>3
<1>3. CASE BattleDeleted
      BY <1>3 DEF BattleDeleted, DeleteBattle
<1>4. CASE MemberCreated
  <2>1. PICK m \in BattleMember : Insertable(m) /\ CreateMember(m) /\ UNCHANGED battles
        BY <1>4 DEF MemberCreated
  <2>2. [m EXCEPT !.id = memberSeq + 1].battle = m.battle
        BY DEF BattleMember
  <2> QED BY <2>1, <2>2 DEF Insertable, CreateMember
<1>5. CASE MemberSaved
  <2>1. PICK m \in BattleMember : SaveMember(m) /\ UNCHANGED battles
        BY <1>5 DEF MemberSaved
  <2>2. \A r \in members : SavedMemberRow(r, m).battle = r.battle
        BY DEF SavedMemberRow, BattleMember
  <2> QED BY <2>1, <2>2 DEF SaveMember
<1> QED BY <1>1, <1>2, <1>3, <1>4, <1>5
        DEF StoreStep, pgVars, BattleCreated, CreateBattle, MembersDeleted

\* Whatever handlers and loops interleave, a student is in a battle at most once.
THEOREM MembershipIsUnique == Spec => []UniqueMembership
<1>1. Init => UniqueMembership
      BY DEF Init, PgInit, UniqueMembership
<1>2. TypeInv /\ UniqueMembership /\ [Next]_vars => UniqueMembership'
      BY NextTypes, TypeStutter, StoreUnique DEF TypeInv, TypeOK
<1> QED BY TypeInvariant, <1>1, <1>2, PTL DEF Spec

\* Whatever handlers and loops interleave, crash or give up on, every member
\* belongs to a battle that exists.
THEOREM MembersHaveBattles == Spec => []NoOrphans
<1>1. Init => NoOrphans
      BY DEF Init, PgInit, NoOrphans
<1>2. TypeInv /\ NoOrphans /\ [Next]_vars => NoOrphans'
      BY NextTypes, TypeStutter, StoreNoOrphans DEF TypeInv, TypeOK
<1> QED BY TypeInvariant, <1>1, <1>2, PTL DEF Spec
=============================================================================
