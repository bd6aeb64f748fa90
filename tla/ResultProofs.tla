---------------------------- MODULE ResultProofs ----------------------------
(***************************************************************************)
(* What a battle leaves behind, for every value of the constants: answers  *)
(* and counted results, whatever handlers and loops interleave, crash or   *)
(* give up on.                                                             *)
(*                                                                         *)
(* OneAnswerPerQuestion speaks of the rows, and a row is what some copy of *)
(* it was when saved: the strengthening SingleCopies speaks of every copy  *)
(* that may still be saved.  CountedResultsAreStored is about the order of *)
(* the ender's writes to MySQL: CountedEnder says what has been written by *)
(* the time each of them is made.                                          *)
(***************************************************************************)
EXTENDS TimerProofs

\* No two answers of m are to the same question.
Single(m) == \A x, y \in m.answers : x.question = y.question => x = y

AllSingle(ms) == \A m \in ms : Single(m)

SingleHandler(s) == Single(s.m) /\ AllSingle(s.ms)

SingleEnder(e) == AllSingle(e.ms) /\ AllSingle(e.left)

\* The inductive invariant of OneAnswerPerQuestion.
SingleCopies ==
    /\ AllSingle(members)
    /\ \A h \in Handlers : SingleHandler(handler[h])
    /\ AllSingle(kicker.left)
    /\ SingleEnder(ender)

-----------------------------------------------------------------------------
(* The rules of a battle answer a question once *)

\* Answers made up for the questions of a set are told apart by the question.
LEMMA MadeUpAnswers ==
    ASSUME NEW qs, NEW S,
           \/ S = [question : qs, isCorrect : {FALSE}]
           \/ S = [question : qs, isCorrect : {TRUE}]
    PROVE  \A x, y \in S : x.question = y.question => x = y
<1> SUFFICES ASSUME NEW x \in S, NEW y \in S, x.question = y.question
             PROVE  x = y
    OBVIOUS
<1>1. CASE S = [question : qs, isCorrect : {FALSE}]
  <2>1. /\ x = [question |-> x.question, isCorrect |-> FALSE]
        /\ y = [question |-> y.question, isCorrect |-> FALSE]
        BY <1>1
  <2> QED BY <2>1
<1>2. CASE S = [question : qs, isCorrect : {TRUE}]
  <2>1. /\ x = [question |-> x.question, isCorrect |-> TRUE]
        /\ y = [question |-> y.question, isCorrect |-> TRUE]
        BY <1>2
  <2> QED BY <2>1
<1> QED BY <1>1, <1>2

\* An accepted answer is to a question not answered before.
LEMMA ProcessedSingle ==
    ASSUME NEW b, NEW m \in BattleMember, Single(m), NEW q, NEW isCorrect,
           MayProcessAnswer(b, m, q)
    PROVE  Single([ProcessAnswer(b, m, q, isCorrect) EXCEPT !.lastQuestionAt = TRUE])
<1>1. PICK n : n = [ProcessAnswer(b, m, q, isCorrect) EXCEPT !.lastQuestionAt = TRUE]
      OBVIOUS
<1>2. n.answers = m.answers \cup {[question |-> q, isCorrect |-> isCorrect]}
      BY <1>1 DEF ProcessAnswer, BattleMember
<1>3. \A x \in m.answers : x.question # q
      BY DEF MayProcessAnswer, Answered
<1>4. Single(n)
      BY <1>2, <1>3 DEF Single
<1> QED BY <1>1, <1>4

\* Blanks are for the questions without an answer.
LEMMA BlanksSingle ==
    ASSUME NEW b, NEW m \in BattleMember, Single(m)
    PROVE  Single(FillBlanks(b, m))
<1>1. PICK n : n = FillBlanks(b, m)
      OBVIOUS
<1>0. PICK blanks : blanks = [question : b.questions \ Answered(m), isCorrect : {FALSE}]
      OBVIOUS
<1>2. n.answers = m.answers \cup blanks
      BY <1>0, <1>1 DEF FillBlanks, BattleMember
<1>3. \A x \in m.answers, y \in blanks : x.question # y.question
      BY <1>0 DEF Answered
<1>4. \A x, y \in blanks : x.question = y.question => x = y
      BY <1>0, MadeUpAnswers
<1>5. Single(n)
      BY <1>2, <1>3, <1>4 DEF Single
<1> QED BY <1>1, <1>5

\* A bot answers every question right or wrong.
LEMMA FilledAISingle ==
    ASSUME NEW b, NEW m \in BattleMember, Single(m),
           NEW filled \in FilledAIMembers(b, m)
    PROVE  Single(filled)
<1>1. CASE b.questions = {}
      BY <1>1 DEF FilledAIMembers
<1>2. CASE b.questions # {}
  <2>1. PICK right \in SUBSET b.questions :
          filled = [m EXCEPT !.answers = [question : right, isCorrect : {TRUE}] \cup
                                         [question : b.questions \ right,
                                          isCorrect : {FALSE}],
                             !.isFinished = TRUE,
                             !.currentQuestion = Cardinality(b.questions)]
        BY <1>2, Zenon DEF FilledAIMembers
  <2>2. PICK yes : yes = [question : right, isCorrect : {TRUE}]
        OBVIOUS
  <2>0. PICK wrong : wrong = b.questions \ right
        OBVIOUS
  <2>3. PICK no : no = [question : wrong, isCorrect : {FALSE}]
        OBVIOUS
  <2>4. filled.answers = yes \cup no
        BY <2>0, <2>1, <2>2, <2>3 DEF BattleMember
  <2>5. \A x, y \in yes : x.question = y.question => x = y
        BY <2>2, MadeUpAnswers
  <2>6. \A x, y \in no : x.question = y.question => x = y
        BY <2>3, MadeUpAnswers
  <2>7. \A x \in yes, y \in no : x.question # y.question
        BY <2>0, <2>2, <2>3
  <2> QED BY <2>4, <2>5, <2>6, <2>7 DEF Single
<1> QED BY <1>1, <1>2

\* Ranking leaves the answers alone.
LEMMA RankedKeeps ==
    ASSUME NEW ms \in SUBSET BattleMember, NEW ranked \in RankedMembers(ms),
           NEW n \in ranked
    PROVE  \E m \in ms : /\ n.answers = m.answers
                         /\ n.id = m.id /\ n.battle = m.battle
                         /\ n.student = m.student /\ n.type = m.type
                         /\ n.isFinished = m.isFinished
                         /\ n.lastQuestionAt = m.lastQuestionAt
<1>1. PICK place \in Placements(ms) :
        ranked = {[m EXCEPT !.place = place[m],
                            !.points = IF TooManyWrong(m)
                                         THEN 0
                                         ELSE RewardPoints(place[m], Cardinality(ms))] :
                    m \in ms}
      BY Zenon DEF RankedMembers
<1> DEFINE points(m) == IF TooManyWrong(m) THEN 0
                        ELSE RewardPoints(place[m], Cardinality(ms))
<1>2. ranked = {[m EXCEPT !.place = place[m], !.points = points(m)] : m \in ms}
      BY <1>1, Zenon
<1> HIDE DEF points
<1>3. PICK m \in ms : n = [m EXCEPT !.place = place[m], !.points = points(m)]
      BY <1>2
<1> QED BY <1>3 DEF BattleMember

\* The members a battle ends with answered a question once.
LEMMA ExecuteSingle ==
    ASSUME TypeInv, AllSingle(members), NEW b \in Battle, NEW fillBlanks,
           Execute(b, MembersOf(b.id), fillBlanks)
    PROVE  SingleEnder(ender')
<1>1. PICK ms : ms = Filled(b, MembersOf(b.id), fillBlanks)
      OBVIOUS
<1>2. MembersOf(b.id) \subseteq members /\ members \subseteq BattleMember
      BY DEF MembersOf, TypeInv, TypeOK, PgTypeOK
<1>3. ms \subseteq BattleMember /\ AllSingle(ms)
      BY <1>1, <1>2, FillBlanksType, BlanksSingle DEF Filled, AllSingle
<1>4. PICK ranked \in RankedMembers(ms) : ender'.ms = ranked /\ ender'.left = ranked
      BY <1>1 DEF Execute, TypeInv, TypeOK, WorkerTypeOK, EnderState
<1>5. AllSingle(ranked)
      BY <1>3, <1>4, RankedKeeps DEF AllSingle, Single
<1> QED BY <1>4, <1>5 DEF SingleEnder

-----------------------------------------------------------------------------
(* Steps of a handler *)

\* The statement leaves every row with one answer per question, and so is what
\* handler h holds.
HandlerSingle(h) ==
    /\ AllSingle(members')
    /\ \A g \in Handlers \ {h} : handler'[g] = handler[g]
    /\ SingleHandler(handler'[h])

LEMMA NoAnswersSingle == Single(NoMember) /\ SingleHandler(Idle)
BY DEF Single, SingleHandler, AllSingle, NoMember, Idle

\* What a handler goes on with when it reads no member.
LEMMA ControlSingle ==
    ASSUME ApiTypeOK, NEW h \in Handlers, SingleHandler(handler[h]), AllSingle(members'),
           NEW b, NEW label,
           Return(h) \/ Respond(h) \/ Goto(h, label) \/ HoldBattle(h, b, label)
    PROVE  HandlerSingle(h)
BY NoAnswersSingle
   DEF ApiTypeOK, HandlerState, Return, Respond, Goto, HoldBattle, HandlerSingle,
       SingleHandler

LEMMA HoldSingle ==
    ASSUME ApiTypeOK, NEW h \in Handlers, SingleHandler(handler[h]), AllSingle(members'),
           NEW m, NEW label,
           \/ Single(m) /\ HoldMember(h, m, label)
           \/ AllSingle(m) /\ HoldMembers(h, m, label)
    PROVE  HandlerSingle(h)
BY DEF ApiTypeOK, HandlerState, HoldMember, HoldMembers, HandlerSingle, SingleHandler

\* A copy saved over a row brings its answers.
LEMMA SaveSingle ==
    ASSUME PgTypeOK, AllSingle(members), NEW m \in BattleMember, Single(m), SaveMember(m)
    PROVE  AllSingle(members')
<1>1. \A r \in members : SavedMemberRow(r, m).answers = m.answers
      BY DEF SavedMemberRow, BattleMember
<1> QED BY <1>1 DEF SaveMember, AllSingle, Single

\* A new row has no answers.
LEMMA CreateSingle ==
    ASSUME AllSingle(members), NEW m \in BattleMember, m.answers = {}, CreateMember(m)
    PROVE  AllSingle(members')
<1>1. [m EXCEPT !.id = memberSeq + 1].answers = {}
      BY DEF BattleMember
<1> QED BY <1>1 DEF CreateMember, AllSingle, Single

LEMMA NewMemberAnswers ==
    ASSUME NEW b, NEW s, NEW memberType
    PROVE  NewMember(b, s, memberType).answers = {}
BY DEF NewMember, NoMember

LEMMA InsertSingle ==
    ASSUME TypeInv, SingleCopies, NEW h \in Handlers, NEW m \in BattleMember,
           m.answers = {}, NEW next, InsertMember(h, m, next)
    PROVE  HandlerSingle(h)
BY CreateSingle, ControlSingle DEF InsertMember, TypeInv, TypeOK, SingleCopies

LEMMA OpponentSingle ==
    ASSUME TypeInv, SingleCopies, NEW h \in Handlers, NEW next, MakeAIOpponent(h, next)
    PROVE  HandlerSingle(h)
<1>1. ASSUME NEW bot \in Bots
      PROVE  /\ AIOpponent(handler[h].b, bot) \in BattleMember
             /\ AIOpponent(handler[h].b, bot).answers = {}
  <2>1. NewMember(handler[h].b, bot, "AI") \in BattleMember
        BY NewMemberType, Locals DEF TypeInv, TypeOK, Students, MemberType
  <2> QED BY <2>1, NewMemberAnswers DEF AIOpponent, BattleMember, MemberStatus
<1>2. CASE Return(h) /\ UNCHANGED members
      BY <1>2, ControlSingle DEF TypeInv, TypeOK, SingleCopies
<1>3. CASE \E bot \in Bots : InsertMember(h, AIOpponent(handler[h].b, bot), next)
      BY <1>1, <1>3, InsertSingle
<1> QED BY <1>2, <1>3 DEF MakeAIOpponent

\* Steps that write no member row, or only delete some, and hold no new member.
LEMMA QuietSingle ==
    ASSUME TypeInv, SingleCopies, NEW h \in Handlers,
           \/ FindWaitingBattle(h) \/ CheckExistsInBattle(h) \/ LowerLevel(h)
           \/ CountMembers(h) \/ SetOnQueue(h) \/ CreateNewBattle(h) \/ StartBattle(h)
           \/ ConfirmFind(h) \/ CountConfirmed(h) \/ AnswerFind(h)
           \/ LeaveFind(h) \/ LeaveDeleteMembers(h) \/ LeaveDeleteBattle(h)
           \/ LeaveDelete(h) \/ ChangeFind(h) \/ ChangeCount(h) \/ ChangeSave(h)
    PROVE  HandlerSingle(h)
<1>1. members' \subseteq members
      BY DEF FindWaitingBattle, CheckExistsInBattle, LowerLevel, CountMembers, SetOnQueue,
             CreateNewBattle, StartBattle, ConfirmFind, CountConfirmed, AnswerFind,
             LeaveFind, LeaveDeleteMembers, LeaveDeleteBattle, LeaveDelete, ChangeFind,
             ChangeCount, ChangeSave, FindBattle, DeleteByBattle, DeleteBattle,
             DeleteByBattleAndStudent, pgVars
<1>2. \E b, label : Return(h) \/ Respond(h) \/ Goto(h, label) \/ HoldBattle(h, b, label)
      BY DEF FindWaitingBattle, CheckExistsInBattle, LowerLevel, CountMembers, SetOnQueue,
             CreateNewBattle, StartBattle, ConfirmFind, CountConfirmed, AnswerFind,
             LeaveFind, LeaveDeleteMembers, LeaveDeleteBattle, LeaveDelete, ChangeFind,
             ChangeCount, ChangeSave, FindBattle
<1>3. AllSingle(members')
      BY <1>1 DEF SingleCopies, AllSingle
<1> QED BY <1>2, <1>3, ControlSingle DEF TypeInv, TypeOK, SingleCopies

\* Steps that insert a row, read one or save one.
LEMMA WritingSingle ==
    ASSUME TypeInv, SingleCopies, NEW h \in Handlers,
           \/ CreateParticipant(h) \/ CreateCreator(h) \/ FindOpponent(h)
           \/ LoadAI(h) \/ SaveAI(h) \/ ConfirmFindMember(h) \/ ConfirmSave(h)
           \/ AnswerFindMember(h) \/ AnswerSave(h)
           \/ LeaveFindMember(h) \/ LeaveSave(h) \/ ChangeOpponent(h)
    PROVE  HandlerSingle(h)
<1> DEFINE b == handler[h].b
           m == handler[h].m
<1>0. /\ b \in Battle /\ m \in BattleMember /\ handler[h].ms \subseteq BattleMember
      /\ Single(m) /\ AllSingle(handler[h].ms) /\ AllSingle(members)
      /\ PgTypeOK /\ ApiTypeOK /\ SingleHandler(handler[h])
      /\ handler[h].student \in Students \cup {NoStudent}
      BY Locals DEF TypeInv, TypeOK, SingleCopies, SingleHandler
<1>1. ASSUME NEW n \in BattleMember, Single(n), SaveHeld(h, n)
      PROVE  HandlerSingle(h)
      BY <1>0, <1>1, SaveSingle, ControlSingle DEF SaveHeld
<1>2. ASSUME NEW from, NEW next, NEW otherwise, FindMember(h, from, next, otherwise)
      PROVE  HandlerSingle(h)
  <2>1. AllSingle(members')
        BY <1>0, <1>2 DEF FindMember, pgVars
  <2> QED BY <1>0, <1>2, <2>1, HoldSingle, ControlSingle
          DEF FindMember, FindByBattleAndStudent, MembersOf, AllSingle
<1>3. CASE CreateParticipant(h) \/ CreateCreator(h)
  <2>1. ASSUME NEW memberType \in MemberType
        PROVE  /\ NewMember(b, handler[h].student, memberType) \in BattleMember
               /\ NewMember(b, handler[h].student, memberType).answers = {}
        BY <1>0, NewMemberType, NewMemberAnswers
  <2> QED BY <1>3, <2>1, InsertSingle DEF CreateParticipant, CreateCreator, MemberType
<1>4. CASE FindOpponent(h) \/ ChangeOpponent(h)
      BY <1>4, OpponentSingle DEF FindOpponent, ChangeOpponent
<1>5. CASE LoadAI(h)
  <2>1. AllSingle(members') /\ AllSingle({n \in MembersOf(b.id) : n.type = "AI"})
        BY <1>0, <1>5 DEF LoadAI, MembersOf, pgVars, AllSingle
  <2> QED BY <1>0, <1>5, <2>1, HoldSingle, ControlSingle DEF LoadAI
<1>6. CASE SaveAI(h)
  <2>1. PICK n \in handler[h].ms :
          IF MemberStored(n)
            THEN /\ \E filled \in FilledAIMembers(b, n) : SaveMember(filled)
                 /\ IF handler[h].ms = {n} THEN Respond(h)
                    ELSE HoldMembers(h, handler[h].ms \ {n}, "saveAI")
            ELSE Return(h) /\ UNCHANGED members
        BY <1>6 DEF SaveAI
  <2>2. \A filled \in FilledAIMembers(b, n) : filled \in BattleMember /\ Single(filled)
        BY <1>0, FilledAIType, FilledAISingle DEF AllSingle
  <2>3. AllSingle(members')
        BY <1>0, <2>1, <2>2, SaveSingle
  <2>4. AllSingle(handler[h].ms \ {n})
        BY <1>0 DEF AllSingle
  <2> QED BY <1>0, <2>1, <2>3, <2>4, HoldSingle, ControlSingle
<1>7. CASE ConfirmFindMember(h) \/ AnswerFindMember(h) \/ LeaveFindMember(h)
      BY <1>2, <1>7 DEF ConfirmFindMember, AnswerFindMember, LeaveFindMember
<1>8. CASE ConfirmSave(h)
  <2>1. Confirmed(m) \in BattleMember /\ Single(Confirmed(m))
        BY <1>0 DEF Confirmed, BattleMember, MemberStatus, Single
  <2> QED BY <1>0, <1>8, <2>1, SaveSingle, HoldSingle, ControlSingle, NoAnswersSingle
          DEF ConfirmSave
<1>9. CASE AnswerSave(h)
  <2>1. CASE Return(h) /\ UNCHANGED members
        BY <1>0, <2>1, ControlSingle
  <2>2. ASSUME NEW q \in Questions, NEW isCorrect \in BOOLEAN, NEW n,
               n = [ProcessAnswer(b, m, q, isCorrect) EXCEPT !.lastQuestionAt = TRUE],
               MayProcessAnswer(b, m, q), SaveHeld(h, n)
        PROVE  HandlerSingle(h)
    <3>1. ProcessAnswer(b, m, q, isCorrect) \in BattleMember
          BY <1>0, ProcessAnswerType
    <3>2. n \in BattleMember
          BY <2>2, <3>1 DEF BattleMember
    <3>3. Single(n)
          BY <1>0, <2>2, ProcessedSingle
    <3> QED BY <1>1, <2>2, <3>2, <3>3
  <2> QED BY <1>9, <2>1, <2>2 DEF AnswerSave, pgVars
<1>10. CASE LeaveSave(h)
      BY <1>0, <1>1, <1>10, FillBlanksType, BlanksSingle DEF LeaveSave
<1> QED BY <1>3, <1>4, <1>5, <1>6, <1>7, <1>8, <1>9, <1>10

-----------------------------------------------------------------------------
(* Steps of the worker *)

\* The same for a step of the kick loop.
LEMMA KickerSingle ==
    ASSUME TypeInv, SingleCopies, KickerStep \/ KickError
    PROVE  AllSingle(members') /\ AllSingle(kicker'.left)
<1> USE WorkerLocals DEF TypeInv, TypeOK
<1>0. AllSingle(members) /\ AllSingle(kicker.left) /\ AllSingle({})
      BY DEF SingleCopies, AllSingle
<1>1. ASSUME NEW todo, KickNext(todo)
      PROVE  kicker'.left = {}
      BY <1>1 DEF KickNext, KickerIdle
<1>2. CASE KickLoad
  <2>1. PICK b \in kicker.todo :
          kicker'.left = MembersOf(b.id) \ KickExpiredMembers(b, MembersOf(b.id))
        BY <1>2 DEF KickLoad
  <2>2. members' = members
        BY <1>2 DEF KickLoad, pgVars
  <2> QED BY <1>0, <2>1, <2>2 DEF MembersOf, AllSingle
<1>3. CASE KickUnconfirm
  <2>1. PICK m \in kicker.left :
          /\ IF MemberStored(m) THEN SaveMember(Unconfirmed(m)) ELSE UNCHANGED members
          /\ UnconfirmedOne(m)
        BY <1>3 DEF KickUnconfirm
  <2>2. Unconfirmed(m) \in BattleMember /\ Single(Unconfirmed(m))
        BY <1>0 DEF Unconfirmed, BattleMember, MemberStatus, Single, AllSingle
  <2>3. AllSingle(members')
        BY <1>0, <2>1, <2>2, SaveSingle
  <2>4. kicker'.left \subseteq kicker.left
        BY <1>1, <2>1 DEF UnconfirmedOne, WorkerTypeOK, KickerState
  <2> QED BY <1>0, <2>3, <2>4 DEF AllSingle
<1>4. CASE ~KickLoad /\ ~KickUnconfirm
  <2>1. members' \subseteq members
        BY <1>4 DEF KickerStep, KickError, KickScan, KickDeleteMembers,
                    KickDeleteBattle, KickMember, KickReset, DeleteByBattle,
                    DeleteBattle, DeleteMember, pgVars
  <2>2. kicker'.left \subseteq kicker.left
        BY <1>1, <1>4
           DEF KickerStep, KickError, KickScan, KickDeleteMembers, KickDeleteBattle,
               KickMember, KickReset, KickedOne, UnconfirmedOne, WorkerTypeOK,
               KickerState
  <2> QED BY <1>0, <2>1, <2>2 DEF AllSingle
<1> QED BY <1>2, <1>3, <1>4

LEMMA WorkHoldsNone ==
    ASSUME NEW pass, NEW todo, NEW idle, Work(pass, todo, idle)
    PROVE  ender'.ms = {} /\ ender'.left = {}
BY DEF Work, EnderIdle

\* The same for a step of the end loop.
LEMMA EnderSingle ==
    ASSUME TypeInv, SingleCopies, EnderStep \/ EndError
    PROVE  AllSingle(members') /\ SingleEnder(ender')
<1> USE WorkerLocals DEF TypeInv, TypeOK
<1>0. AllSingle(members) /\ AllSingle(ender.ms) /\ AllSingle(ender.left) /\ AllSingle({})
      BY DEF SingleCopies, SingleEnder, AllSingle
<1>1. ASSUME NEW pass, NEW todo, EndNext(pass, todo)
      PROVE  ender'.ms = {} /\ ender'.left = {}
      BY <1>1, WorkHoldsNone DEF EndNext
<1>2. CASE LoadExpired \/ LoadFinished
  <2>1. members' = members
        BY <1>2 DEF LoadExpired, LoadFinished, pgVars
  <2>2. PICK b \in ender.todo :
          \/ ender' = [ender EXCEPT !.at = "dropMembers", !.todo = @ \ {b}, !.b = b]
          \/ \E fillBlanks : Execute(b, MembersOf(b.id), fillBlanks)
          \/ EndNext("Finished", ender.todo \ {b})
        BY <1>2 DEF LoadExpired, LoadFinished
  <2>3. CASE ender' = [ender EXCEPT !.at = "dropMembers", !.todo = @ \ {b}, !.b = b]
        BY <1>0, <2>1, <2>3 DEF SingleEnder, WorkerTypeOK, EnderState
  <2> QED BY <1>0, <1>1, <2>1, <2>2, <2>3, ExecuteSingle DEF SingleEnder
<1>3. CASE LoadIdle
  <2>1. PICK b \in ender.todo :
          \/ EndNext("Idle", ender.todo \ {b})
          \/ ender' = [ender EXCEPT !.at = "saveIdle", !.todo = @ \ {b}, !.b = b,
                                    !.left = IdleMembers(MembersOf(b.id))]
        BY <1>3 DEF LoadIdle
  <2>2. members' = members /\ IdleMembers(MembersOf(b.id)) \subseteq members
        BY <1>3 DEF LoadIdle, IdleMembers, MembersOf, pgVars
  <2> QED BY <1>0, <1>1, <2>1, <2>2
          DEF SingleEnder, AllSingle, WorkerTypeOK, EnderState
<1>4. CASE SaveIdle \/ SavePgMember
  <2>0. PICK m \in ender.left :
          \/ SaveMember(m) \/ SaveMember(FillBlanks(ender.b, m)) \/ UNCHANGED members
        BY <1>4 DEF SaveIdle, SavePgMember
  <2>1. PICK n : /\ n = m \/ n = FillBlanks(ender.b, m)
                 /\ SaveMember(n) \/ UNCHANGED members
        BY <2>0
  <2>2. n \in BattleMember /\ Single(n)
        BY <1>0, <2>0, <2>1, FillBlanksType, BlanksSingle DEF AllSingle
  <2>3. AllSingle(members')
        BY <1>0, <2>1, <2>2, SaveSingle
  <2>4. ender'.ms \subseteq ender.ms /\ ender'.left \subseteq ender.left \cup ender.ms
        BY <1>1, <1>4
           DEF SaveIdle, SavePgMember, EndedOne, LeftAfter, GiveUp, WorkerTypeOK,
               EnderState
  <2> QED BY <1>0, <2>3, <2>4 DEF SingleEnder, AllSingle
<1>5. CASE ~(LoadExpired \/ LoadFinished \/ LoadIdle \/ SaveIdle \/ SavePgMember)
  <2>1. members' \subseteq members
        BY <1>5 DEF EnderStep, EndError, ScanExpired, ScanIdle, ScanFinished,
                    DropMembers, DropBattle, DeleteByBattle, DeleteBattle, SavePgBattle,
                    SaveSqlBattle, SaveSqlMember, UpsertStats, pgVars
  <2>2. ender'.ms \subseteq ender.ms /\ ender'.left \subseteq ender.left \cup ender.ms
        BY <1>1, <1>5, WorkHoldsNone
           DEF EnderStep, EndError, ScanExpired, ScanIdle, ScanFinished, DropMembers,
               DropBattle, SavePgBattle, SaveSqlBattle, SaveSqlMember, UpsertStats,
               EndedOne, LeftAfter, GiveUp, WorkerTypeOK, EnderState
  <2> QED BY <1>0, <2>1, <2>2 DEF SingleEnder, AllSingle
<1> QED BY <1>2, <1>3, <1>4, <1>5

-----------------------------------------------------------------------------
(* Answers *)

LEMMA SingleStep ==
    ASSUME TypeInv, SingleCopies, [Next]_vars
    PROVE  SingleCopies'
<1>1. ASSUME NEW h \in Handlers, HandlerSingle(h), UNCHANGED workerVars
      PROVE  SingleCopies'
  <2>1. \A g \in Handlers : SingleHandler(handler'[g])
    <3> SUFFICES ASSUME NEW g \in Handlers
                 PROVE  SingleHandler(handler'[g])
        OBVIOUS
    <3> QED BY <1>1 DEF HandlerSingle, SingleCopies
  <2> QED BY <1>1, <2>1
          DEF HandlerSingle, SingleCopies, SingleHandler, SingleEnder, AllSingle, Single,
              workerVars
<1>2. ASSUME NEW h \in Handlers, Arrive(h)
      PROVE  SingleCopies'
  <2>1. ASSUME NEW kind, NEW s, NEW b, NEW label, Accept(h, kind, s, b, label)
        PROVE  HandlerSingle(h)
        BY <2>1, NoAnswersSingle
           DEF Accept, Idle, pgVars, TypeInv, TypeOK, ApiTypeOK, SingleCopies,
               HandlerSingle, SingleHandler
  <2>2. HandlerSingle(h)
        BY <1>2, <2>1
           DEF Arrive, Request, FindRequest, ConfirmRequest, AnswerRequest, LeaveRequest,
               ChangeTypeRequest, BattleRequest
  <2> QED BY <1>1, <1>2, <2>2 DEF Arrive
<1>3. ASSUME NEW h \in Handlers, Handle(h)
      PROVE  SingleCopies'
  <2>1. HandlerSingle(h)
        BY <1>3, QuietSingle, WritingSingle DEF Handle, HandlerStep
  <2> QED BY <1>1, <1>3, <2>1 DEF Handle
<1>4. ASSUME KickerStep \/ KickError, UNCHANGED <<apiVars, ender>>
      PROVE  SingleCopies'
      BY <1>4, KickerSingle
         DEF SingleCopies, SingleHandler, SingleEnder, AllSingle, Single, apiVars
<1>5. ASSUME EnderStep \/ EndError, UNCHANGED <<apiVars, kicker>>
      PROVE  SingleCopies'
      BY <1>5, EnderSingle
         DEF SingleCopies, SingleHandler, SingleEnder, AllSingle, Single, apiVars
<1>6. CASE Kick
      BY <1>4, <1>6, KickerTypes DEF Kick, KickerOK
<1>7. CASE End
      BY <1>5, <1>7, EnderTypes DEF End, EnderOK
<1>8. CASE Fault
  <2>1. ASSUME NEW h \in Handlers, Abort(h), UNCHANGED workerVars
        PROVE  SingleCopies'
    <3>1. HandlerSingle(h)
          BY <2>1, ControlSingle DEF Abort, pgVars, TypeInv, TypeOK, SingleCopies
    <3> QED BY <1>1, <2>1, <3>1
  <2>2. CASE KickError /\ UNCHANGED apiVars
        BY <1>4, <2>2, KickErrorTypes DEF KickerOK
  <2>3. CASE EndError /\ UNCHANGED apiVars
        BY <1>5, <2>3, EndErrorTypes DEF EnderOK
  <2>4. CASE WorkerCrash /\ UNCHANGED apiVars
        BY <2>4 DEF WorkerCrash, KickerIdle, EnderIdle, pgVars, apiVars, SingleCopies,
                    SingleHandler, SingleEnder, AllSingle, Single
  <2> QED BY <1>8, <2>1, <2>2, <2>3, <2>4 DEF Fault
<1>9. CASE UNCHANGED vars
      BY <1>9 DEF vars, pgVars, apiVars, workerVars, SingleCopies, SingleHandler,
                  SingleEnder, AllSingle, Single
<1> QED BY <1>2, <1>3, <1>6, <1>7, <1>8, <1>9 DEF Next

\* Every copy in flight answers a question once.
THEOREM CopiesAreSingle == Spec => []SingleCopies
<1>1. Init => SingleCopies
      BY NoAnswersSingle
         DEF Init, PgInit, ApiInit, WorkerInit, KickerIdle, EnderIdle, SingleCopies,
             SingleEnder, AllSingle
<1>2. TypeInv /\ SingleCopies /\ [Next]_vars => SingleCopies'
      BY SingleStep
<1> QED BY TypeInvariant, <1>1, <1>2, PTL DEF Spec

\* However answers, blanks, made-up answers and retries overlap, a member has one
\* answer to a question.
THEOREM AnswersAreSingle == Spec => []OneAnswerPerQuestion
<1>1. SingleCopies => OneAnswerPerQuestion
      BY DEF SingleCopies, AllSingle, Single, OneAnswerPerQuestion
<1> QED BY CopiesAreSingle, <1>1, PTL

-----------------------------------------------------------------------------
(* Counted results *)

\* MySQL has a row for student s in battle id.
ResultStored(id, s) == \E r \in sqlMembers : r.battle = id /\ r.student = s

\* What the ender has written to MySQL by the time of its next write: the battle
\* before the members, every member before the first count.
CountedEnder ==
    /\ ender.at \in {"saveBattle", "saveMembers", "sqlBattle", "sqlMembers", "sqlStats"} =>
          ender.left \subseteq ender.ms
    /\ ender.at \in {"saveBattle", "sqlBattle"} => ender.left = ender.ms
    /\ ender.at \in {"sqlMembers", "sqlStats"} => ender.b.id \in sqlBattles
    /\ ender.at = "sqlMembers" =>
          \A m \in ender.ms \ ender.left : ResultStored(ender.b.id, m.student)
    /\ ender.at = "sqlStats" =>
          \A m \in ender.ms : ResultStored(ender.b.id, m.student)

\* Results are overwritten, never lost.
ResultsKept ==
    /\ sqlBattles \subseteq sqlBattles'
    /\ \A id, s : ResultStored(id, s) => ResultStored(id, s)'

\* What has to be shown of a step, when it is not the one that counts.
NothingCounted == ResultsKept /\ studentBattle' = studentBattle

LEMMA KeptStored ==
    ASSUME NEW s, FinishedBattlesOf(s) # {}, ResultsKept
    PROVE  (FinishedBattlesOf(s) # {})'
<1>1. PICK r \in sqlMembers : r.student = s /\ r.battle \in sqlBattles
      BY DEF FinishedBattlesOf
<1>2. ResultStored(r.battle, s)' /\ r.battle \in sqlBattles'
      BY <1>1 DEF ResultStored, ResultsKept
<1> QED BY <1>2 DEF FinishedBattlesOf, ResultStored

\* The ender turns to another battle, or to none.
LEMMA WorkCounted ==
    ASSUME NEW pass \in {"Expired", "Idle", "Finished"}, NEW todo, NEW idle,
           Work(pass, todo, idle)
    PROVE  CountedEnder'
<1>1. /\ AfterPass[pass] \in {"scanIdle", "scanFinished", "scanExpired"}
      /\ LoadLabel[pass] \in {"loadExpired", "loadIdle", "loadFinished"}
  <2>1. CASE pass = "Expired"
        BY <2>1 DEF AfterPass, LoadLabel
  <2>2. CASE pass = "Idle"
        BY <2>2 DEF AfterPass, LoadLabel
  <2>3. CASE pass = "Finished"
        BY <2>3 DEF AfterPass, LoadLabel
  <2> QED BY <2>1, <2>2, <2>3
<1>2. CASE todo = {}
      BY <1>1, <1>2 DEF Work, EnderIdle, CountedEnder
<1>3. CASE todo # {}
      BY <1>1, <1>3 DEF Work, EnderIdle, CountedEnder
<1> QED BY <1>2, <1>3

LEMMA KeepsCounted ==
    ASSUME CountedResultsAreStored, NothingCounted
    PROVE  CountedResultsAreStored'
BY KeptStored DEF CountedResultsAreStored, NothingCounted

\* Steps of the ender that write nothing to MySQL.
LEMMA PgStepCounted ==
    ASSUME TypeInv, CountedEnder,
           EndError \/ (EnderStep /\ ~SaveSqlBattle /\ ~SaveSqlMember /\ ~UpsertStats)
    PROVE  CountedEnder' /\ NothingCounted
<1> USE WorkerLocals DEF TypeInv, TypeOK
<1>1. NothingCounted
      BY DEF EndError, EnderStep, ScanExpired, LoadExpired, DropMembers, DropBattle,
             ScanIdle, LoadIdle, SaveIdle, ScanFinished, LoadFinished, SavePgBattle,
             SavePgMember, sqlVars, NothingCounted, ResultsKept, ResultStored
<1>2. ASSUME NEW todo, \/ EndNext(ender.pass, todo) \/ EndNext("Expired", todo)
                       \/ EndNext("Idle", todo) \/ EndNext("Finished", todo)
      PROVE  CountedEnder'
      BY <1>2, WorkCounted DEF EndNext
<1>3. CASE GiveUp
      BY <1>1, <1>2, <1>3 DEF GiveUp
<1>4. ASSUME ender'.at \in {"dropMembers", "dropBattle", "saveIdle"}
      PROVE  CountedEnder'
      BY <1>4 DEF CountedEnder
<1>5. ASSUME NEW b, NEW ms, NEW fillBlanks, Execute(b, ms, fillBlanks)
      PROVE  CountedEnder'
  <2>1. ender'.at = "saveBattle" /\ ender'.left = ender'.ms
        BY <1>5 DEF Execute, WorkerTypeOK, EnderState
  <2> QED BY <2>1 DEF CountedEnder
<1>6. CASE ScanIdle
      BY <1>1, <1>6, WorkCounted DEF ScanIdle
<1>7. CASE SavePgBattle
  <2>1. ASSUME BattleStored(ender.b)
        PROVE  /\ ender'.at \in {"sqlBattle", "saveMembers"}
               /\ ender'.left = ender'.ms
        BY <1>7, <2>1 DEF SavePgBattle, CountedEnder, WorkerTypeOK, EnderState
  <2>2. CASE BattleStored(ender.b)
        BY <1>1, <2>1, <2>2 DEF CountedEnder
  <2> QED BY <1>3, <1>7, <2>2 DEF SavePgBattle
<1>8. CASE SavePgMember
  <2>1. ASSUME NEW m \in ender.left, EndedOne(m, "sqlBattle")
        PROVE  \/ ender'.at = "sqlBattle" /\ ender'.left = ender'.ms
               \/ ender'.at = "saveMembers" /\ ender'.left \subseteq ender'.ms
        BY <1>8, <2>1
           DEF SavePgMember, EndedOne, LeftAfter, CountedEnder, WorkerTypeOK, EnderState
  <2>2. ASSUME NEW m \in ender.left, EndedOne(m, "sqlBattle")
        PROVE  CountedEnder'
        BY <2>1, <2>2 DEF CountedEnder
  <2> QED BY <1>1, <1>3, <1>8, <2>2 DEF SavePgMember
<1>9. CASE LoadExpired
  <2>1. \/ ender'.at = "dropMembers"
        \/ \E b, ms : Execute(b, ms, TRUE)
        BY <1>9 DEF LoadExpired, WorkerTypeOK, EnderState
  <2> QED BY <1>1, <1>4, <1>5, <2>1
<1>10. CASE LoadIdle
  <2>1. (\E todo : EndNext("Idle", todo)) \/ ender'.at = "saveIdle"
        BY <1>10 DEF LoadIdle, WorkerTypeOK, EnderState
  <2> QED BY <1>1, <1>2, <1>4, <2>1
<1>11. CASE LoadFinished
      BY <1>1, <1>2, <1>5, <1>11 DEF LoadFinished
<1>12. CASE SaveIdle \/ DropMembers
  <2>1. (\E todo : EndNext("Idle", todo)) \/ ender'.at \in {"saveIdle", "dropBattle"}
        BY <1>12 DEF SaveIdle, DropMembers, WorkerTypeOK, EnderState
  <2> QED BY <1>1, <1>2, <1>4, <2>1
<1>13. CASE ScanExpired \/ ScanFinished \/ DropBattle
      BY <1>1, <1>2, <1>13 DEF ScanExpired, ScanFinished, DropBattle
<1>14. CASE EndError
  <2>1. \/ \E todo : EndNext(ender.pass, todo) \/ EndNext("Idle", todo)
        \/ ender'.at \in {"dropBattle", "saveIdle"} \/ GiveUp
        BY <1>14 DEF EndError, WorkerTypeOK, EnderState
  <2> QED BY <1>1, <1>2, <1>3, <1>4, <2>1
<1> QED BY <1>1, <1>6, <1>7, <1>8, <1>9, <1>10, <1>11, <1>12, <1>13, <1>14 DEF EnderStep

LEMMA SqlBattleCounted ==
    ASSUME TypeInv, CountedEnder, SaveSqlBattle
    PROVE  CountedEnder' /\ NothingCounted
<1> USE WorkerLocals DEF TypeInv, TypeOK
<1>1. sqlBattles' = sqlBattles \cup {ender.b.id} /\ sqlMembers' = sqlMembers
      BY DEF SaveSqlBattle, SqlSaveBattle
<1>2. NothingCounted
      BY <1>1 DEF SaveSqlBattle, NothingCounted, ResultsKept, ResultStored
<1>3. CASE GiveUp
      BY <1>2, <1>3, WorkCounted DEF GiveUp, EndNext
<1>4. CASE ender' = [ender EXCEPT !.at = "sqlMembers"]
  <2>1. /\ ender'.at = "sqlMembers" /\ ender'.b = ender.b
        /\ ender'.left = ender'.ms
        BY <1>4 DEF SaveSqlBattle, CountedEnder, WorkerTypeOK, EnderState
  <2> QED BY <1>1, <1>2, <2>1 DEF CountedEnder
<1> QED BY <1>3, <1>4 DEF SaveSqlBattle

LEMMA SqlMemberCounted ==
    ASSUME TypeInv, CountedEnder, SaveSqlMember
    PROVE  CountedEnder' /\ NothingCounted
<1> USE WorkerLocals DEF TypeInv, TypeOK
<1>1. PICK m \in ender.left : SqlUpdateMember(ender.b, m) /\ EndedOne(m, "sqlStats")
      BY DEF SaveSqlMember
<1>2. ender.b.id \in sqlBattles /\ sqlBattles' = sqlBattles
      BY DEF SaveSqlMember, CountedEnder
<1>3. /\ SqlRow(ender.b, m).battle = ender.b.id
      /\ SqlRow(ender.b, m).student = m.student
      /\ SqlRow(ender.b, m) \in sqlMembers'
      BY <1>1, <1>2 DEF SqlUpdateMember, SqlRow
<1>4. ResultStored(ender.b.id, m.student)'
  <2>1. PICK id, s : id = ender.b.id /\ s = m.student
        OBVIOUS
  <2>2. ResultStored(id, s)'
        BY <1>3, <2>1 DEF ResultStored
  <2>3. \E r \in sqlMembers' : r.battle = ender.b.id /\ r.student = m.student
        BY <1>3
  <2>4. ender'.b = ender.b
        BY <1>1 DEF EndedOne, WorkerTypeOK, EnderState
  <2> QED BY <2>3, <2>4 DEF ResultStored
<1>5. NothingCounted
  <2>1. ASSUME NEW id, NEW s, ResultStored(id, s)
        PROVE  ResultStored(id, s)'
    <3>1. PICK r \in sqlMembers : r.battle = id /\ r.student = s
          BY <2>1 DEF ResultStored
    <3>2. CASE r.battle = ender.b.id /\ r.student = m.student
          BY <1>3, <3>1, <3>2 DEF ResultStored
    <3>3. CASE ~(r.battle = ender.b.id /\ r.student = m.student)
      <4>1. r \in sqlMembers'
            BY <1>1, <3>3 DEF SqlUpdateMember
      <4> QED BY <3>1, <4>1 DEF ResultStored
    <3> QED BY <3>2, <3>3
  <2> QED BY <1>2, <2>1 DEF SaveSqlMember, NothingCounted, ResultsKept
<1>6. /\ ender'.b = ender.b /\ ender'.ms = ender.ms
      /\ \/ ender'.at = "sqlStats" /\ ender'.left = ender.ms /\ ender.left = {m}
         \/ ender'.at = "sqlMembers" /\ ender'.left = ender.left \ {m}
      BY <1>1 DEF SaveSqlMember, EndedOne, LeftAfter, WorkerTypeOK, EnderState
<1>7. \A n \in ender.ms \ (ender.left \ {m}) : ResultStored(ender.b.id, n.student)'
      BY <1>4, <1>5, <1>6 DEF SaveSqlMember, CountedEnder, NothingCounted, ResultsKept,
                              ResultStored
<1> QED BY <1>2, <1>5, <1>6, <1>7 DEF SaveSqlMember, CountedEnder, ResultStored

LEMMA StatsCounted ==
    ASSUME TypeInv, CountedEnder, CountedResultsAreStored, UpsertStats
    PROVE  CountedEnder' /\ CountedResultsAreStored'
<1> USE WorkerLocals DEF TypeInv, TypeOK
<1>1. PICK m \in ender.left :
        /\ UpsertStudentBattle(m)
        /\ IF LeftAfter(m) = {} THEN GiveUp
                                ELSE ender' = [ender EXCEPT !.left = LeftAfter(m)]
      BY DEF UpsertStats
<1>2. sqlBattles' = sqlBattles /\ sqlMembers' = sqlMembers
      BY DEF UpsertStats
<1>3. CountedEnder'
  <2>1. CASE GiveUp
        BY <2>1, WorkCounted DEF GiveUp, EndNext
  <2>2. CASE ender' = [ender EXCEPT !.left = LeftAfter(m)]
    <3>1. /\ ender'.at = "sqlStats" /\ ender'.b = ender.b /\ ender'.ms = ender.ms
          /\ ender'.left \subseteq ender.left
          BY <2>2 DEF UpsertStats, LeftAfter, WorkerTypeOK, EnderState
    <3> QED BY <1>2, <3>1 DEF UpsertStats, CountedEnder, ResultStored
  <2> QED BY <1>1, <2>1, <2>2
<1>4. FinishedBattlesOf(m.student) # {}
  <2>1. PICK r \in sqlMembers : r.battle = ender.b.id /\ r.student = m.student
        BY <1>1 DEF UpsertStats, CountedEnder, ResultStored
  <2> QED BY <2>1 DEF UpsertStats, CountedEnder, FinishedBattlesOf
<1>5. \A s \in Students : s # m.student => studentBattle'[s] = studentBattle[s]
      BY <1>1 DEF UpsertStudentBattle, SqlTypeOK
<1>6. ASSUME NEW s
      PROVE  FinishedBattlesOf(s)' = FinishedBattlesOf(s)
      BY <1>2 DEF FinishedBattlesOf
<1>7. ASSUME NEW s \in Students, studentBattle'[s].win + studentBattle'[s].lose > 0
      PROVE  FinishedBattlesOf(s)' # {}
  <2>1. CASE s = m.student
        BY <1>4, <1>6, <2>1
  <2>2. CASE s # m.student
        BY <1>5, <1>6, <1>7, <2>2 DEF CountedResultsAreStored
  <2> QED BY <2>1, <2>2
<1> QED BY <1>3, <1>7 DEF CountedResultsAreStored

\* The ender writes results to MySQL in the order that makes counts backed.
THEOREM ResultsComeFirst == Spec => [](CountedEnder /\ CountedResultsAreStored)
<1>1. Init => CountedEnder /\ CountedResultsAreStored
      BY DEF Init, SqlInit, WorkerInit, EnderIdle, CountedEnder, CountedResultsAreStored
<1>2. TypeInv /\ CountedEnder /\ CountedResultsAreStored /\ [Next]_vars
        => CountedEnder' /\ CountedResultsAreStored'
  <2> SUFFICES ASSUME TypeInv, CountedEnder, CountedResultsAreStored, [Next]_vars
               PROVE  CountedEnder' /\ CountedResultsAreStored'
      OBVIOUS
  <2>1. ASSUME UNCHANGED <<sqlVars, ender>>
        PROVE  CountedEnder' /\ CountedResultsAreStored'
        BY <2>1 DEF sqlVars, CountedEnder, ResultStored, CountedResultsAreStored,
                    FinishedBattlesOf
  <2>2. CASE End
    <3>1. CASE SaveSqlBattle \/ SaveSqlMember
          BY <3>1, SqlBattleCounted, SqlMemberCounted, KeepsCounted
    <3>2. CASE UpsertStats
          BY <3>2, StatsCounted
    <3>3. CASE ~SaveSqlBattle /\ ~SaveSqlMember /\ ~UpsertStats
          BY <2>2, <3>3, PgStepCounted, KeepsCounted DEF End
    <3> QED BY <3>1, <3>2, <3>3
  <2>3. CASE EndError
        BY <2>3, PgStepCounted, KeepsCounted
  <2>4. CASE WorkerCrash
    <3>1. CountedEnder'
          BY <2>4 DEF WorkerCrash, EnderIdle, CountedEnder
    <3>2. NothingCounted
          BY <2>4 DEF WorkerCrash, sqlVars, NothingCounted, ResultsKept, ResultStored
    <3> QED BY <3>1, <3>2, KeepsCounted
  <2>5. ASSUME NEW h \in Handlers, Arrive(h) \/ Handle(h)
        PROVE  UNCHANGED <<sqlVars, ender>>
        BY <2>5, RequestTypes, HandlerTypes DEF Arrive, Handle, HandlerOK, workerVars
  <2>6. CASE Kick \/ KickError
        BY <2>1, <2>6, KickerTypes, KickErrorTypes DEF Kick, KickerOK
  <2>7. ASSUME NEW h \in Handlers, Abort(h), UNCHANGED workerVars
        PROVE  UNCHANGED <<sqlVars, ender>>
        BY <2>7 DEF Abort, workerVars
  <2>8. CASE UNCHANGED vars
        BY <2>1, <2>8 DEF vars, workerVars
  <2> QED BY <2>1, <2>2, <2>3, <2>4, <2>5, <2>6, <2>7, <2>8 DEF Next, Fault
<1> QED BY TypeInvariant, <1>1, <1>2, PTL DEF Spec

\* Wherever the worker crashes or a write fails, a win or a loss is only counted
\* for a student whose result of that battle MySQL already holds.
THEOREM CountsAreBacked == Spec => []CountedResultsAreStored
BY ResultsComeFirst, PTL
=============================================================================
