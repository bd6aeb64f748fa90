-------------------------- MODULE BattleClockProofs --------------------------
(***************************************************************************)
(* The deadlines of a battle, for every question time, start delay, worker *)
(* period, number of questions and number of members.                      *)
(*                                                                         *)
(* Each deadline is bounded by the last tick of the worker: what a tick    *)
(* leaves open had not expired when it ran, and the clock is at most one   *)
(* period further.  That a punctual member is never blanked is a sum: k    *)
(* answers take at most k question times from start_time on, and end_time  *)
(* leaves one for every question.  An AI battle is deleted only if its     *)
(* student has not moved past the first question, which takes a battle of  *)
(* one question that was not answered in time.                             *)
(***************************************************************************)
EXTENDS BattleClock, FiniteSetTheorems, TLAPS

USE TimesAssumption, QuestionsAssumption

-----------------------------------------------------------------------------
(* Sizes and times *)

LEMMA QuestionCount ==
    ASSUME NEW Q \in SUBSET Questions
    PROVE  IsFiniteSet(Q) /\ Cardinality(Q) \in Nat
BY FS_Subset, FS_CardinalityType

LEMMA ProductType == \A m, n \in Nat : m * n \in Nat
OBVIOUS

LEMMA ProductGrows ==
    ASSUME NEW n \in Nat, NEW i \in Nat, NEW j \in Nat, i < j
    PROVE  n * i + n <= n * j
<1>1. j = i + 1 + (j - i - 1) /\ j - i - 1 \in Nat
      OBVIOUS
<1> DEFINE d == j - i - 1
<1>2. d \in Nat /\ j = i + 1 + d
      BY <1>1
<1> HIDE DEF d
<1>3. n * (i + 1 + d) = n * i + n + n * d
      BY <1>2
<1>4. n * d \in Nat /\ n * i \in Nat
      BY <1>2, ProductType
<1> QED BY <1>2, <1>3, <1>4

LEMMA EndTimeType ==
    ASSUME now \in Nat, NEW count \in Nat
    PROVE  EndTime(count) \in Nat /\ now <= EndTime(count)
BY ProductType DEF EndTime, TimesAssumption

-----------------------------------------------------------------------------
(* Types *)

LEMMA BlankedType ==
    ASSUME TypeOK, NEW m \in TimedMember
    PROVE  /\ Blanked(m) \in TimedMember
           /\ Blanked(m).isFinished
           /\ Blanked(m).blanked
           /\ Blanked(m).lastQuestionAt = m.lastQuestionAt
           /\ Blanked(m).late = (m.late \/ IsLate(m))
           /\ Blanked(m).currentQuestion = Cardinality(battle.questions)
<1> DEFINE count == Cardinality(battle.questions)
<1>1. battle.questions \subseteq Questions /\ count \in Nat
      BY QuestionCount DEF TypeOK, TimedBattle
<1>2. [question : battle.questions \ Answered(m), isCorrect : {FALSE}] \subseteq Answer
      BY <1>1 DEF Answer
<1>3. IsLate(m) \in BOOLEAN
      BY DEF IsLate
<1> HIDE DEF count
<1>4. DEFINE filled == m.answers \cup [question : battle.questions \ Answered(m),
                                       isCorrect : {FALSE}]
<1>5. filled \subseteq Answer
      BY <1>2 DEF TimedMember
<1>6. Blanked(m) = [m EXCEPT !.answers = filled, !.isFinished = TRUE,
                             !.currentQuestion = count,
                             !.blanked = TRUE, !.late = m.late \/ IsLate(m)]
      BY DEF Blanked, FillBlanks, count, TimedMember
<1> HIDE DEF filled
<1>7. Blanked(m).currentQuestion = count
      BY <1>6 DEF TimedMember
<1> QED BY <1>1, <1>3, <1>5, <1>6, <1>7 DEF TimedMember, count

LEMMA AnsweredType ==
    ASSUME TypeOK, NEW s \in DOMAIN members, AnswerQuestion(s)
    PROVE  /\ members' = [members EXCEPT ![s] = members'[s]]
           /\ members'[s] \in TimedMember
           /\ members'[s].lastQuestionAt = now
           /\ members'[s].blanked = members[s].blanked
           /\ members'[s].late = (members[s].late \/ IsLate(members[s]))
           /\ \E q \in battle.questions :
                 /\ q \notin Answered(members[s])
                 /\ members'[s].answers =
                       members[s].answers \cup {[question |-> q, isCorrect |-> TRUE]}
           /\ members'[s].isFinished =
                 (members[s].isFinished
                    \/ Cardinality(members'[s].answers) = Cardinality(battle.questions))
           /\ members'[s].currentQuestion =
                 IF Cardinality(members'[s].answers) = Cardinality(battle.questions)
                   THEN Cardinality(battle.questions)
                   ELSE members[s].currentQuestion + 1
<1> DEFINE m == members[s]
           count == Cardinality(battle.questions)
<1>1. m \in TimedMember /\ now \in Nat
      BY DEF TypeOK
<1>2. battle.questions \subseteq Questions /\ count \in Nat
      BY QuestionCount DEF TypeOK, TimedBattle
<1>3. IsLate(m) \in BOOLEAN
      BY DEF IsLate
<1>4. PICK q \in battle.questions :
        /\ q \notin Answered(m)
        /\ members' = [members EXCEPT ![s] =
              [ProcessAnswer(battle, m, q, TRUE) EXCEPT
                  !.lastQuestionAt = now, !.late = @ \/ IsLate(m)]]
      BY DEF AnswerQuestion, MayProcessAnswer
<1> DEFINE answers == m.answers \cup {[question |-> q, isCorrect |-> TRUE]}
           last == Cardinality(answers) = count
<1>5. answers \subseteq Answer
  <2>1. m.answers \subseteq Answer
        BY <1>1 DEF TimedMember
  <2>2. [question |-> q, isCorrect |-> TRUE] \in Answer
        BY <1>2 DEF Answer
  <2> QED BY <2>1, <2>2
<1>6. ProcessAnswer(battle, m, q, TRUE) =
        [m EXCEPT !.answers = answers,
                  !.isFinished = m.isFinished \/ last,
                  !.currentQuestion = IF last THEN count ELSE m.currentQuestion + 1]
      BY <1>1 DEF ProcessAnswer, TimedMember
<1> DEFINE next == [ProcessAnswer(battle, m, q, TRUE) EXCEPT
                       !.lastQuestionAt = now, !.late = @ \/ IsLate(m)]
<1>7. /\ next = [m EXCEPT !.answers = answers,
                          !.isFinished = m.isFinished \/ last,
                          !.currentQuestion = IF last THEN count ELSE m.currentQuestion + 1,
                          !.lastQuestionAt = now,
                          !.late = m.late \/ IsLate(m)]
      BY <1>1, <1>6 DEF TimedMember
<1>8. members' = [members EXCEPT ![s] = next] /\ members'[s] = next
      BY <1>4
<1> HIDE DEF next, answers, count, last
<1>9. last \in BOOLEAN
      BY DEF last
<1>10. next \in TimedMember
  <2>1. m.currentQuestion + 1 \in Nat
        BY <1>1 DEF TimedMember
  <2>2. (IF last THEN count ELSE m.currentQuestion + 1) \in Nat
        BY <1>2, <2>1
  <2>3. (m.isFinished \/ last) \in BOOLEAN /\ (m.late \/ IsLate(m)) \in BOOLEAN
        OBVIOUS
  <2> QED BY <1>1, <1>5, <1>7, <2>2, <2>3 DEF TimedMember
<1>11. /\ next.answers = answers /\ next.lastQuestionAt = now
       /\ next.blanked = m.blanked /\ next.late = (m.late \/ IsLate(m))
       /\ next.isFinished = (m.isFinished \/ last)
       /\ next.currentQuestion = IF last THEN count ELSE m.currentQuestion + 1
       BY <1>1, <1>7 DEF TimedMember
<1> QED BY <1>4, <1>8, <1>10, <1>11 DEF answers, last, count

LEMMA AfterIdleType ==
    ASSUME TypeOK, NEW s \in DOMAIN members
    PROVE  /\ DOMAIN AfterIdle = DOMAIN members
           /\ AfterIdle[s] \in TimedMember
           /\ AfterIdle[s] = IF IsMemberIdle(members[s]) THEN Blanked(members[s])
                                                         ELSE members[s]
<1>1. members[s] \in TimedMember
      BY DEF TypeOK
<1> QED BY <1>1, BlankedType DEF AfterIdle

LEMMA TypesInit == Init => TypeOK
<1> SUFFICES ASSUME Init PROVE TypeOK
    OBVIOUS
<1>1. NewMember \in TimedMember
      BY DEF NewMember, TimedMember, MemberType, NoTime
<1>2. battle \in TimedBattle /\ battle.status # "ON_GOING"
      BY DEF Init, TimedBattle, BattleType, NoTime
<1> QED BY <1>1, <1>2 DEF Init, TypeOK

LEMMA StartTypes ==
    ASSUME TypeOK, StartBattle
    PROVE  /\ TypeOK'
           /\ \E questions \in SUBSET Questions :
                 /\ battle'.questions = questions /\ questions # {}
                 /\ battle'.start = now + StartDelay
                 /\ battle'.end = EndTime(Cardinality(questions))
           /\ battle'.status = "ON_GOING"
<1>1. PICK questions \in QuestionSets \ {{}} :
        battle' = [battle EXCEPT !.questions = questions,
                                 !.start = now + StartDelay,
                                 !.end = EndTime(Cardinality(questions)),
                                 !.status = "ON_GOING"]
      BY DEF StartBattle
<1>2. questions \in SUBSET Questions /\ questions # {}
      BY DEF Questions
<1>3. EndTime(Cardinality(questions)) \in Nat /\ now + StartDelay \in Nat
      BY <1>2, QuestionCount, EndTimeType DEF TypeOK, TimesAssumption
<1>4. battle \in TimedBattle
      BY DEF TypeOK
<1> DEFINE end == EndTime(Cardinality(questions))
           start == now + StartDelay
<1> HIDE DEF end, start
<1>5. battle' = [battle EXCEPT !.questions = questions, !.start = start, !.end = end,
                               !.status = "ON_GOING"]
      BY <1>1 DEF end, start
<1>6. end \in Nat /\ start \in Nat
      BY <1>3 DEF end, start
<1>7. /\ battle' \in TimedBattle /\ battle'.questions = questions
      /\ battle'.start = start /\ battle'.end = end /\ battle'.status = "ON_GOING"
      BY <1>2, <1>4, <1>5, <1>6 DEF TimedBattle
<1>8. TypeOK'
      BY <1>2, <1>6, <1>7 DEF StartBattle, TypeOK, NoTime
<1> QED BY <1>2, <1>7, <1>8 DEF end, start

LEMMA AnswerTypes ==
    ASSUME TypeOK, NEW s \in DOMAIN members, AnswerQuestion(s)
    PROVE  TypeOK'
<1>1. members' = [members EXCEPT ![s] = members'[s]] /\ members'[s] \in TimedMember
      BY AnsweredType
<1>2. DOMAIN members' = DOMAIN members
      BY <1>1
<1>3. \A t \in DOMAIN members : t # s => members'[t] = members[t]
      BY <1>1
<1> QED BY <1>1, <1>2, <1>3 DEF AnswerQuestion, TypeOK

\* What a tick does to the battle and to each member.
LEMMA TickStep ==
    ASSUME TypeOK, Tick
    PROVE  /\ TypeOK'
           /\ \/ battle' = battle /\ (battle.status = "ON_GOING" => ~Expired)
              \/ battle'.status \in {"FINISHED", "DELETED"} /\ battle.status = "ON_GOING"
           /\ \A s \in DOMAIN members' :
                 /\ s \in DOMAIN members
                 /\ \/ members'[s] = members[s]
                    \/ members'[s] = Blanked(members[s])
                 /\ battle.status = "ON_GOING" => \/ members'[s].isFinished
                                                  \/ ~IsMemberIdle(members[s])
                 /\ members'[s] # members[s] =>
                       (Expired /\ ~members[s].isFinished) \/ IsMemberIdle(members[s])
                 /\ battle.status = "ON_GOING" /\ battle'.status = "FINISHED" =>
                       members'[s].isFinished
<1>1. /\ battle \in TimedBattle /\ DOMAIN members \subseteq Humans
      /\ \A s \in DOMAIN members : members[s] \in TimedMember
      BY DEF TypeOK
<1>2. /\ [battle EXCEPT !.status = "DELETED"] \in TimedBattle
      /\ [battle EXCEPT !.status = "FINISHED"] \in TimedBattle
      /\ [battle EXCEPT !.status = "DELETED"].status = "DELETED"
      /\ [battle EXCEPT !.status = "FINISHED"].status = "FINISHED"
      BY <1>1 DEF TimedBattle
<1>3. lastTick' = now /\ UNCHANGED <<now, starts>>
      BY DEF Tick
<1>4. CASE DeleteUnplayed
  <2>1. battle.status = "ON_GOING" /\ battle'.status = "DELETED" /\ battle' \in TimedBattle
        BY <1>2, <1>4 DEF DeleteUnplayed, Expired
  <2>2. DOMAIN members' = {}
        BY <1>4 DEF DeleteUnplayed
  <2>3. deleted' \subseteq TimedMember
        BY <1>1, <1>4 DEF DeleteUnplayed, Rows
  <2>4. TypeOK'
        BY <1>3, <2>1, <2>2, <2>3 DEF TypeOK
  <2> QED BY <2>1, <2>2, <2>4
<1>5. CASE EndExpired
  <2>1. /\ battle.status = "ON_GOING" /\ battle'.status = "FINISHED" /\ Expired
        /\ battle' \in TimedBattle /\ deleted' = deleted
        BY <1>2, <1>5 DEF EndExpired, Expired
  <2>2. members' = [s \in DOMAIN members |->
                       IF members[s].isFinished THEN members[s] ELSE Blanked(members[s])]
        BY <1>5 DEF EndExpired
  <2>3. \A s \in DOMAIN members : members'[s] \in TimedMember /\ members'[s].isFinished
        BY <1>1, <2>2, BlankedType
  <2>4. TypeOK'
        BY <1>1, <1>3, <2>1, <2>2, <2>3 DEF TypeOK
  <2> QED BY <2>1, <2>2, <2>3, <2>4
<1>6. CASE EndWhenFinished /\ battle.status # "ON_GOING"
  <2>1. UNCHANGED <<battle, members, deleted>>
        BY <1>6 DEF EndWhenFinished
  <2> QED BY <1>3, <1>6, <2>1 DEF TypeOK
<1>7. CASE EndWhenFinished /\ battle.status = "ON_GOING"
  <2>1. ~Expired /\ members' = AfterIdle /\ deleted' = deleted
        BY <1>7 DEF EndWhenFinished
  <2>2. \/ battle' = battle
        \/ /\ battle' = [battle EXCEPT !.status = "FINISHED"]
           /\ AllMembersFinished({AfterIdle[s] : s \in DOMAIN members})
        BY <1>7 DEF EndWhenFinished
  <2>3. battle'.status = "FINISHED" => \A s \in DOMAIN members : AfterIdle[s].isFinished
        BY <1>7, <2>2 DEF AllMembersFinished
  <2>4. ASSUME NEW s \in DOMAIN members
        PROVE  /\ members'[s] \in TimedMember
               /\ members'[s] = members[s] \/ members'[s] = Blanked(members[s])
               /\ members'[s].isFinished \/ ~IsMemberIdle(members[s])
               /\ members'[s] # members[s] => IsMemberIdle(members[s])
        BY <1>1, <2>1, AfterIdleType, BlankedType
  <2>5. DOMAIN members' = DOMAIN members
        BY <2>1 DEF AfterIdle
  <2>6. TypeOK'
        BY <1>1, <1>2, <1>3, <2>1, <2>2, <2>4, <2>5 DEF TypeOK
  <2> QED BY <1>2, <1>7, <2>1, <2>2, <2>3, <2>4, <2>5, <2>6
<1> QED BY <1>4, <1>5, <1>6, <1>7 DEF Tick

LEMMA TypesNext ==
    ASSUME TypeOK, [Next]_vars
    PROVE  TypeOK'
<1>1. CASE Advance
      BY <1>1 DEF Advance, TypeOK
<1>2. CASE UNCHANGED vars
      BY <1>2 DEF vars, TypeOK
<1> QED BY <1>1, <1>2, StartTypes, AnswerTypes, TickStep DEF Next

\* Every variable keeps its type.
THEOREM ClockTypeCorrect == Spec => []TypeOK
BY TypesInit, TypesNext, PTL DEF Spec

-----------------------------------------------------------------------------
(* Deadlines of the battle and of idle members *)

\* The last tick came before every deadline that is still open.
Ticked ==
    /\ lastTick <= now /\ now <= lastTick + Period
    /\ battle.status = "ON_GOING" => battle.start \in Nat /\ lastTick <= battle.end
    /\ \A s \in DOMAIN members :
          /\ battle.status = "ON_QUEUE" => members[s].lastQuestionAt = NoTime
          /\ battle.status = "FINISHED" => members[s].isFinished
          /\ battle.status = "ON_GOING" /\ ~members[s].isFinished =>
                lastTick <= Base(members[s]) + IdleTimeout

LEMMA BaseType ==
    ASSUME TypeOK, battle.start \in Nat, NEW s \in DOMAIN members
    PROVE  Base(members[s]) \in Nat
BY DEF Base, TypeOK, TimedMember

LEMMA TickedInit == Init => Ticked
BY DEF Init, Ticked, NewMember, TimesAssumption

LEMMA StartTicked ==
    ASSUME TypeOK, Ticked, StartBattle
    PROVE  Ticked'
<1>1. UNCHANGED <<now, lastTick, members>> /\ battle.status # "DELETED"
      BY DEF StartBattle
<1>2. /\ battle'.status = "ON_GOING" /\ battle'.start = now + StartDelay
      /\ now <= battle'.end
      BY StartTypes, QuestionCount, EndTimeType DEF TypeOK
<1>3. now \in Nat /\ lastTick \in Nat /\ now + StartDelay \in Nat /\ IdleTimeout \in Nat
      BY DEF TypeOK, TimesAssumption, IdleTimeout
<1>4. lastTick <= battle'.end
      BY <1>2, <1>3, StartTypes DEF Ticked, TypeOK, TimedBattle, NoTime
<1>5. ASSUME NEW s \in DOMAIN members, ~members[s].isFinished
      PROVE  lastTick <= Base(members[s])' + IdleTimeout
  <2>1. members[s].lastQuestionAt \in Nat \cup {NoTime}
        BY DEF TypeOK, TimedMember
  <2>2. CASE members[s].lastQuestionAt = NoTime
    <3>1. Base(members[s])' = now + StartDelay
          BY <1>1, <1>2, <2>2 DEF Base
    <3> QED BY <1>3, <3>1 DEF Ticked, TimesAssumption
  <2>3. CASE members[s].lastQuestionAt # NoTime
    <3>1. battle.status = "ON_GOING"
          BY <1>1, <1>5, <2>3 DEF Ticked, TypeOK, TimedBattle
    <3>2. Base(members[s])' = Base(members[s])
          BY <1>1, <2>3 DEF Base
    <3> QED BY <1>5, <3>1, <3>2 DEF Ticked
  <2> QED BY <2>2, <2>3
<1> QED BY <1>1, <1>2, <1>3, <1>4, <1>5 DEF Ticked

LEMMA AnswerTicked ==
    ASSUME TypeOK, Ticked, NEW s \in DOMAIN members, AnswerQuestion(s)
    PROVE  Ticked'
<1>1. UNCHANGED <<now, lastTick, battle>> /\ battle.status = "ON_GOING"
      BY DEF AnswerQuestion
<1>2. members' = [members EXCEPT ![s] = members'[s]] /\ members'[s].lastQuestionAt = now
      BY AnsweredType
<1>3. DOMAIN members' = DOMAIN members /\ \A t \in DOMAIN members : t # s => members'[t] = members[t]
      BY <1>2
<1>4. now \in Nat /\ lastTick \in Nat /\ IdleTimeout \in Nat
      BY DEF TypeOK, IdleTimeout, TimesAssumption
<1>5. Base(members[s])' = now
      BY <1>2, <1>4 DEF Base, NoTime
<1>6. ASSUME NEW t \in DOMAIN members, ~members'[t].isFinished
      PROVE  lastTick <= Base(members[t])' + IdleTimeout
  <2>1. CASE t = s
        BY <1>4, <1>5, <2>1 DEF Ticked
  <2>2. CASE t # s
    <3>1. Base(members[t])' = Base(members[t])
          BY <1>1, <1>3, <2>2 DEF Base
    <3> QED BY <1>1, <1>3, <1>6, <2>2, <3>1 DEF Ticked
  <2> QED BY <2>1, <2>2
<1> QED BY <1>1, <1>3, <1>6 DEF Ticked

LEMMA TickTicked ==
    ASSUME TypeOK, Ticked, Tick
    PROVE  Ticked'
<1>1. UNCHANGED now /\ lastTick' = now
      BY DEF Tick
<1>2. now \in Nat /\ IdleTimeout \in Nat /\ Period \in Nat
      BY DEF TypeOK, IdleTimeout, TimesAssumption
<1>3. CASE battle'.status # "ON_GOING"
  <2>1. ASSUME NEW s \in DOMAIN members'
        PROVE  /\ s \in DOMAIN members
               /\ battle'.status = "ON_QUEUE" => members'[s].lastQuestionAt = NoTime
               /\ battle'.status = "FINISHED" => members'[s].isFinished
    <3>1. members[s] \in TimedMember /\ s \in DOMAIN members
          BY TickStep DEF TypeOK
    <3>2. CASE battle' = battle
          BY <3>1, <3>2, BlankedType, TickStep DEF Ticked
    <3>3. CASE battle' # battle
          BY <3>1, <3>3, TickStep
    <3> QED BY <3>1, <3>2, <3>3
  <2> QED BY <1>1, <1>2, <1>3, <2>1 DEF Ticked
<1>4. CASE battle'.status = "ON_GOING"
  <2>1. battle' = battle /\ ~Expired /\ battle.status = "ON_GOING"
        BY <1>4, TickStep
  <2>2. battle.end \in Nat /\ battle.start \in Nat
        BY <2>1 DEF Ticked, TypeOK, TimedBattle, NoTime
  <2>3. now <= battle.end
        BY <1>2, <2>1, <2>2 DEF Expired
  <2>4. ASSUME NEW s \in DOMAIN members', ~members'[s].isFinished
        PROVE  now <= Base(members[s])' + IdleTimeout
    <3>1. members[s] \in TimedMember /\ s \in DOMAIN members
          BY TickStep DEF TypeOK
    <3>2. members'[s] = members[s] /\ ~IsMemberIdle(members[s])
          BY <2>1, <2>4, <3>1, TickStep, BlankedType
    <3>3. Base(members[s])' = Base(members[s]) /\ Base(members[s]) \in Nat
          BY <2>1, <2>2, <3>1, <3>2, BaseType DEF Base
    <3> QED BY <1>2, <2>4, <3>2, <3>3 DEF IsMemberIdle
  <2> QED BY <1>1, <1>2, <1>4, <2>1, <2>2, <2>3, <2>4 DEF Ticked
<1> QED BY <1>3, <1>4

LEMMA TickedNext ==
    ASSUME TypeOK, Ticked, [Next]_vars
    PROVE  Ticked'
<1>1. CASE Advance
      BY <1>1 DEF Advance, Ticked, TypeOK, TimesAssumption, Base
<1>2. CASE UNCHANGED vars
      BY <1>2 DEF vars, Ticked, Base
<1> QED BY <1>1, <1>2, StartTicked, AnswerTicked, TickTicked DEF Next

LEMMA TickedInvariant == Spec => [](TypeOK /\ Ticked)
<1>1. TypeOK /\ Ticked /\ [Next]_vars => Ticked'
      BY TickedNext
<1> QED BY <1>1, TickedInit, ClockTypeCorrect, PTL DEF Spec

\* A started battle is over one period after its end_time.
THEOREM BattlesEndInTime == Spec => []EndsInTime
<1>1. TypeOK /\ Ticked => EndsInTime
      BY DEF TypeOK, TimedBattle, NoTime, Ticked, EndsInTime, TimesAssumption
<1> QED BY <1>1, TickedInvariant, PTL

\* An idle member is finished one period after the idle timeout.
THEOREM IdleMembersEndInTime == Spec => []IdleInTime
<1>1. ASSUME TypeOK, Ticked, battle.status = "ON_GOING", NEW s \in DOMAIN members,
             ~members[s].isFinished
      PROVE  now <= Base(members[s]) + IdleTimeout + Period
  <2>1. lastTick <= Base(members[s]) + IdleTimeout /\ now <= lastTick + Period
        BY <1>1 DEF Ticked
  <2>2. Base(members[s]) \in Nat /\ now \in Nat /\ lastTick \in Nat
        BY <1>1, BaseType DEF Ticked, TypeOK
  <2>3. IdleTimeout \in Nat /\ Period \in Nat
        BY DEF IdleTimeout, TimesAssumption
  <2> QED BY <2>1, <2>2, <2>3
<1>2. TypeOK /\ Ticked => IdleInTime
      BY <1>1 DEF IdleInTime
<1> QED BY <1>2, TickedInvariant, PTL

-----------------------------------------------------------------------------
(* Punctual members *)

\* A member of a battle of n questions that has kept to the question time: k answers,
\* the last of them k question times after start_time at the latest.
OnTime(m, n) ==
    /\ IsFiniteSet(m.answers)
    /\ Cardinality(m.answers) < n
    /\ Base(m) <= battle.start + QuestionTime * Cardinality(m.answers)

Punctual ==
    starts <= 1 =>
        /\ \A s \in DOMAIN members : members[s].blanked => members[s].late
        /\ starts = 0 =>
              /\ battle.status = "ON_QUEUE"
              /\ \A s \in DOMAIN members :
                    members[s].answers = {} /\ members[s].lastQuestionAt = NoTime
        /\ battle.status = "ON_GOING" =>
              /\ battle.start \in Nat
              /\ battle.end = battle.start - StartDelay + QuestionTime
                              + QuestionTime * Cardinality(battle.questions)
              /\ \A s \in DOMAIN members :
                    ~members[s].isFinished /\ ~members[s].late =>
                        OnTime(members[s], Cardinality(battle.questions))

LEMMA PunctualInit == Init => Punctual
BY DEF Init, Punctual, NewMember

\* The time the next answer is due is before end_time, and before the idle timeout.
LEMMA NotYet ==
    ASSUME TypeOK, Punctual, starts <= 1, battle.status = "ON_GOING",
           NEW s \in DOMAIN members, ~members[s].isFinished, ~members[s].late,
           ~IsLate(members[s])
    PROVE  ~Expired /\ ~IsMemberIdle(members[s])
<1> DEFINE n == Cardinality(battle.questions)
           k == Cardinality(members[s].answers)
           base == Base(members[s])
<1>1. n \in Nat
      BY QuestionCount DEF TypeOK, TimedBattle
<1>2. OnTime(members[s], n) /\ battle.start \in Nat
      /\ battle.end = battle.start - StartDelay + QuestionTime + QuestionTime * n
      BY DEF Punctual
<1>3. k \in Nat /\ k < n /\ base <= battle.start + QuestionTime * k
      BY <1>2, FS_CardinalityType DEF OnTime
<1>4. QuestionTime \in Nat \ {0} /\ StartDelay \in 0..QuestionTime
      BY DEF TimesAssumption
<1>5. QuestionTime * k + QuestionTime <= QuestionTime * n
      BY <1>1, <1>3, <1>4, ProductGrows
<1>6. base \in Nat /\ now \in Nat /\ now - base <= QuestionTime
      BY <1>2, <1>4, BaseType DEF IsLate, TypeOK
<1> DEFINE upToK == QuestionTime * k
           upToN == QuestionTime * n
<1>7. upToK \in Nat /\ upToN \in Nat
      BY <1>1, <1>3, <1>4, ProductType
<1>8. /\ base <= battle.start + upToK /\ upToK + QuestionTime <= upToN
      /\ battle.end = battle.start - StartDelay + QuestionTime + upToN
      BY <1>2, <1>3, <1>5
<1> HIDE DEF upToK, upToN, base
<1>9. now <= battle.end
      BY <1>2, <1>4, <1>6, <1>7, <1>8
<1>10. battle.end \in Int
       BY <1>2, <1>4, <1>7, <1>8
<1>11. ~Expired
       BY <1>6, <1>9, <1>10 DEF Expired
<1>12. ~(now - base >= IdleTimeout)
       BY <1>4, <1>6 DEF IdleTimeout
<1> QED BY <1>11, <1>12 DEF IsMemberIdle, base

LEMMA StartPunctual ==
    ASSUME TypeOK, Punctual, StartBattle
    PROVE  Punctual'
<1>1. UNCHANGED <<now, members>> /\ starts' = starts + 1 /\ starts \in Nat
      BY DEF StartBattle, TypeOK
<1>2. CASE starts = 0
  <2>1. PICK questions \in SUBSET Questions :
          /\ battle'.questions = questions /\ questions # {}
          /\ battle'.start = now + StartDelay
          /\ battle'.end = EndTime(Cardinality(questions))
        BY StartTypes
  <2> DEFINE n == Cardinality(questions)
             upToN == QuestionTime * n
  <2>2. n \in Nat /\ n > 0
        BY <2>1, QuestionCount, FS_EmptySet
  <2>3. now \in Nat /\ StartDelay \in Nat /\ QuestionTime \in Nat /\ upToN \in Nat
        BY <2>2, ProductType DEF TypeOK, TimesAssumption
  <2>4. battle'.start \in Nat /\ battle'.end = battle'.start - StartDelay + QuestionTime + upToN
    <3>1. battle'.end = now + upToN + QuestionTime
          BY <2>1 DEF EndTime
    <3> HIDE DEF upToN
    <3> QED BY <2>1, <2>3, <3>1
  <2>5. ASSUME NEW s \in DOMAIN members
        PROVE  OnTime(members[s], n)'
    <3>1. members[s].answers = {} /\ members[s].lastQuestionAt = NoTime
          BY <1>2 DEF Punctual
    <3>2. Base(members[s])' = battle'.start
          BY <1>1, <3>1 DEF Base
    <3>3. IsFiniteSet({}) /\ Cardinality({}) = 0
          BY FS_EmptySet
    <3> QED BY <1>1, <2>2, <2>3, <2>4, <3>1, <3>2, <3>3 DEF OnTime
  <2> QED BY <1>1, <1>2, <2>1, <2>4, <2>5 DEF Punctual
<1>3. CASE starts # 0
      BY <1>1, <1>3 DEF Punctual
<1> QED BY <1>2, <1>3

LEMMA AnswerPunctual ==
    ASSUME TypeOK, Punctual, NEW s \in DOMAIN members, AnswerQuestion(s)
    PROVE  Punctual'
<1>1. UNCHANGED <<now, battle, starts>> /\ battle.status = "ON_GOING"
      BY DEF AnswerQuestion
<1> SUFFICES ASSUME starts <= 1 PROVE Punctual'
    BY <1>1 DEF Punctual
<1> DEFINE n == Cardinality(battle.questions)
           m == members[s]
           next == members'[s]
<1>2. starts # 0 /\ battle.start \in Nat /\ n \in Nat
      BY <1>1, QuestionCount DEF Punctual, TypeOK, TimedBattle
<1>3. DOMAIN members' = DOMAIN members /\ \A t \in DOMAIN members : t # s => members'[t] = members[t]
  <2>1. members' = [members EXCEPT ![s] = next]
        BY AnsweredType
  <2> QED BY <2>1
<1>4. m \in TimedMember /\ next \in TimedMember
      BY AnsweredType DEF TypeOK
<1>5. next.blanked => next.late
      BY <1>3, AnsweredType DEF Punctual
<1>6. ASSUME ~next.isFinished, ~next.late
      PROVE  OnTime(m, n)'
  <2>1. ~m.isFinished /\ ~m.late /\ ~IsLate(m)
        BY <1>4, <1>6, AnsweredType DEF TimedMember
  <2>2. OnTime(m, n)
        BY <1>1, <2>1 DEF Punctual
  <2>3. PICK q : q \notin Answered(m) /\ next.answers = m.answers \cup {[question |-> q, isCorrect |-> TRUE]}
        BY AnsweredType
  <2> DEFINE a == [question |-> q, isCorrect |-> TRUE]
             k == Cardinality(m.answers)
  <2>4. a \notin m.answers
        BY <2>3 DEF Answered
  <2>5. IsFiniteSet(next.answers) /\ Cardinality(next.answers) = k + 1
        BY <2>2, <2>3, <2>4, FS_AddElement DEF OnTime
  <2>6. k \in Nat /\ k < n /\ Base(m) <= battle.start + QuestionTime * k
        BY <2>2, FS_CardinalityType DEF OnTime
  <2>7. Cardinality(next.answers) < n
    <3>1. Cardinality(next.answers) # n
          BY <1>6, AnsweredType
    <3> HIDE DEF next, n, k
    <3> QED BY <1>2, <2>5, <2>6, <3>1
  <2>8. now \in Nat /\ Base(m) \in Nat /\ QuestionTime \in Nat /\ now - Base(m) <= QuestionTime
        BY <1>2, <2>1, BaseType DEF IsLate, TypeOK, TimesAssumption
  <2>9. Base(m)' = now
        BY <2>8, AnsweredType DEF Base, NoTime
  <2>10. QuestionTime * k + QuestionTime <= QuestionTime * (k + 1)
        BY <2>6, <2>8, ProductGrows
  <2>11. now <= battle.start + QuestionTime * (k + 1)
    <3> DEFINE upToK == QuestionTime * k
               next1 == QuestionTime * (k + 1)
    <3>1. upToK \in Nat /\ next1 \in Nat
          BY <2>6, <2>8, ProductType
    <3>2. upToK + QuestionTime <= next1 /\ Base(m) <= battle.start + upToK
          BY <2>6, <2>10
    <3> HIDE DEF upToK, next1
    <3>3. now <= battle.start + next1
          BY <1>2, <2>8, <3>1, <3>2
    <3> QED BY <3>3 DEF next1
  <2> QED BY <1>1, <2>5, <2>7, <2>9, <2>11 DEF OnTime
<1>7. ASSUME NEW t \in DOMAIN members, ~members'[t].isFinished, ~members'[t].late
      PROVE  OnTime(members[t], n)'
  <2>1. CASE t = s
        BY <1>6, <1>7, <2>1
  <2>2. CASE t # s
    <3>1. members'[t] = members[t] /\ OnTime(members[t], n)
          BY <1>1, <1>3, <1>7, <2>2 DEF Punctual
    <3> QED BY <1>1, <3>1 DEF OnTime, Base
  <2> QED BY <2>1, <2>2
<1>8. \A t \in DOMAIN members : members'[t].blanked => members'[t].late
      BY <1>3, <1>5 DEF Punctual
<1> QED BY <1>1, <1>2, <1>3, <1>7, <1>8 DEF Punctual

LEMMA TickPunctual ==
    ASSUME TypeOK, Punctual, Tick
    PROVE  Punctual'
<1>1. UNCHANGED <<now, starts>>
      BY DEF Tick
<1> SUFFICES ASSUME starts <= 1 PROVE Punctual'
    BY <1>1 DEF Punctual
<1> DEFINE n == Cardinality(battle.questions)
<1>2. CASE battle.status # "ON_GOING"
  <2>1. UNCHANGED <<battle, members>>
        BY <1>2 DEF Tick, DeleteUnplayed, EndExpired, EndWhenFinished, Expired
  <2> QED BY <1>1, <1>2, <2>1 DEF Punctual
<1>3. CASE battle.status = "ON_GOING"
  <2>1. starts # 0
        BY <1>3 DEF Punctual
  <2>2. ASSUME NEW s \in DOMAIN members'
        PROVE  /\ s \in DOMAIN members
               /\ members'[s].blanked => members'[s].late
               /\ ~members'[s].isFinished => members'[s] = members[s]
    <3>1. s \in DOMAIN members /\ members[s] \in TimedMember
          BY TickStep DEF TypeOK
    <3>2. CASE members'[s] = members[s]
          BY <3>1, <3>2 DEF Punctual
    <3>3. CASE members'[s] # members[s]
      <4>1. members'[s] = Blanked(members[s])
            BY <3>3, TickStep
      <4>2. ~members[s].isFinished /\ (Expired \/ IsMemberIdle(members[s]))
            BY <3>3, TickStep DEF IsMemberIdle
      <4>3. members[s].late \/ IsLate(members[s])
            BY <1>3, <3>1, <4>2, NotYet
      <4> QED BY <3>1, <4>1, <4>3, BlankedType
    <3> QED BY <3>1, <3>2, <3>3
  <2>3. CASE battle' = battle
    <3>1. ASSUME NEW s \in DOMAIN members', ~members'[s].isFinished, ~members'[s].late
          PROVE  OnTime(members[s], n)'
      <4>1. members'[s] = members[s] /\ OnTime(members[s], n)
            BY <1>3, <2>2, <3>1 DEF Punctual
      <4> QED BY <2>3, <4>1 DEF OnTime, Base
    <3> QED BY <1>1, <1>3, <2>1, <2>2, <2>3, <3>1 DEF Punctual
  <2>4. CASE battle' # battle
        BY <1>1, <2>1, <2>2, <2>4, TickStep DEF Punctual
  <2> QED BY <2>3, <2>4
<1> QED BY <1>2, <1>3

LEMMA PunctualNext ==
    ASSUME TypeOK, Punctual, [Next]_vars
    PROVE  Punctual'
<1>1. CASE Advance
      BY <1>1 DEF Advance, Punctual, OnTime, Base
<1>2. CASE UNCHANGED vars
      BY <1>2 DEF vars, Punctual, OnTime, Base
<1> QED BY <1>1, <1>2, StartPunctual, AnswerPunctual, TickPunctual DEF Next

\* Who keeps to the question time is never blanked, however many questions there are.
THEOREM PunctualMembersKeepTheirAnswers == Spec => []PunctualNeverBlanked
<1>1. TypeOK /\ Punctual /\ [Next]_vars => Punctual'
      BY PunctualNext
<1>2. Punctual => PunctualNeverBlanked
      BY DEF Punctual, PunctualNeverBlanked
<1> QED BY <1>1, <1>2, PunctualInit, ClockTypeCorrect, PTL DEF Spec

-----------------------------------------------------------------------------
(* The battle of a student against a bot *)

\* The worker is back before the time that end_time leaves after the last question (in
\* the code 3s and 15s - 10s).
TickFits == Period <= QuestionTime - StartDelay

\* The student of an AI battle that started once: current_question leaves 1 with the
\* first answer of several, and what a tick leaves open is unfinished.
Unplayed(m, n) ==
    /\ ~m.isFinished =>
          /\ m.currentQuestion = 1 => m.answers = {}
          /\ m.answers = {} => m.lastQuestionAt = NoTime
    /\ m.isFinished => m.currentQuestion >= n
    /\ m.isFinished /\ ~m.late => lastTick <= battle.start + QuestionTime * n

Solo ==
    /\ battle.type = "AI" => \A s, t \in DOMAIN members : s = t
    /\ battle.type # "AI" => deleted = {}
    /\ \A s \in DOMAIN members : members[s].currentQuestion > 0
    /\ starts <= 1 =>
          /\ \A m \in deleted : m.answers # {} => m.late
          /\ starts = 0 =>
                /\ deleted = {}
                /\ \A s \in DOMAIN members : ~members[s].isFinished
          /\ battle.type = "AI" /\ battle.status = "ON_GOING" =>
                \A s \in DOMAIN members :
                    Unplayed(members[s], Cardinality(battle.questions))

LEMMA SoloInit == Init => Solo
<1> SUFFICES ASSUME Init PROVE Solo
    OBVIOUS
<1>1. PICK S \in SUBSET Humans :
        /\ battle.type = "AI" => \E s \in Humans : S = {s}
        /\ members = [s \in S |-> NewMember]
      BY DEF Init
<1>2. /\ DOMAIN members = S /\ deleted = {}
      /\ \A s \in S : members[s].currentQuestion = 1 /\ ~members[s].isFinished
      BY <1>1 DEF Init, NewMember
<1>3. battle.status = "ON_QUEUE" /\ starts = 0
      BY DEF Init
<1>4. battle.type = "AI" => \A s, t \in S : s = t
      BY <1>1
<1> QED BY <1>2, <1>3, <1>4 DEF Solo

LEMMA StartSolo ==
    ASSUME TypeOK, Punctual, Solo, StartBattle
    PROVE  Solo'
<1>1. UNCHANGED <<lastTick, members, deleted>> /\ starts' = starts + 1 /\ starts \in Nat
      BY DEF StartBattle, TypeOK
<1>2. battle'.type = battle.type
      BY DEF StartBattle, TypeOK, TimedBattle
<1>3. starts' <= 1 => starts = 0 /\ deleted = {}
      BY <1>1 DEF Solo
<1>4. ASSUME starts' <= 1, NEW s \in DOMAIN members
      PROVE  Unplayed(members[s], Cardinality(battle.questions))'
  <2>1. /\ ~members[s].isFinished /\ members[s].answers = {}
        /\ members[s].lastQuestionAt = NoTime
        BY <1>3, <1>4 DEF Solo, Punctual
  <2> QED BY <1>1, <2>1 DEF Unplayed
<1>5. starts' # 0
      BY <1>1
<1> QED BY <1>1, <1>2, <1>3, <1>4, <1>5 DEF Solo

LEMMA QuestionsAsked ==
    ASSUME TypeOK, battle.status = "ON_GOING"
    PROVE  Cardinality(battle.questions) \in Nat /\ Cardinality(battle.questions) > 0
BY QuestionCount, FS_EmptySet DEF TypeOK, TimedBattle

LEMMA AnswerSolo ==
    ASSUME TypeOK, Ticked, Punctual, Solo, NEW s \in DOMAIN members, AnswerQuestion(s)
    PROVE  Solo'
<1> DEFINE n == Cardinality(battle.questions)
           m == members[s]
           next == members'[s]
<1>1. UNCHANGED <<now, lastTick, battle, starts, deleted>> /\ battle.status = "ON_GOING"
      BY DEF AnswerQuestion
<1>2. n \in Nat /\ n > 0
      BY <1>1, QuestionsAsked
<1>3. DOMAIN members' = DOMAIN members /\ \A t \in DOMAIN members : t # s => members'[t] = members[t]
  <2>1. members' = [members EXCEPT ![s] = next]
        BY AnsweredType
  <2> QED BY <2>1
<1>4. m \in TimedMember /\ next \in TimedMember
      BY AnsweredType DEF TypeOK
<1>5. /\ next.answers # {}
      /\ next.late = (m.late \/ IsLate(m))
      /\ next.isFinished = (m.isFinished \/ Cardinality(next.answers) = n)
      /\ next.currentQuestion = IF Cardinality(next.answers) = n
                                  THEN n ELSE m.currentQuestion + 1
      BY AnsweredType
<1>6. m.currentQuestion \in Nat /\ m.currentQuestion > 0
      BY <1>4 DEF Solo, TimedMember
<1>7. next.isFinished <=> m.isFinished \/ Cardinality(next.answers) = n
      BY <1>5
<1> HIDE DEF n, m, next
<1>8. next.currentQuestion > 0
      BY <1>2, <1>5, <1>6
<1>9. ASSUME starts <= 1, battle.type = "AI"
      PROVE  Unplayed(members[s], Cardinality(battle.questions))'
  <2>1. Unplayed(m, n)
        BY <1>1, <1>9 DEF Solo, n, m
  <2>2. ~next.isFinished => next.currentQuestion # 1
        BY <1>5, <1>6, <1>7
  <2>3. next.isFinished => next.currentQuestion >= n
        BY <1>2, <1>5, <1>6, <1>7, <2>1 DEF Unplayed
  <2>4. ASSUME next.isFinished, ~next.late
        PROVE  lastTick <= battle.start + QuestionTime * n
    <3>1. ~m.late /\ ~IsLate(m)
          BY <1>5, <2>4
    <3>2. CASE m.isFinished
          BY <2>1, <3>1, <3>2 DEF Unplayed
    <3>3. CASE ~m.isFinished
      <4>1. OnTime(m, n) /\ battle.start \in Nat
            BY <1>1, <1>9, <3>1, <3>3 DEF Punctual, n, m
      <4> DEFINE k == Cardinality(m.answers)
                 upToK == QuestionTime * k
                 upToN == QuestionTime * n
      <4>2. k \in Nat /\ k < n /\ Base(m) <= battle.start + upToK
            BY <4>1, FS_CardinalityType DEF OnTime
      <4>3. QuestionTime \in Nat
            BY DEF TimesAssumption
      <4>4. upToK + QuestionTime <= upToN
            BY <1>2, <4>2, <4>3, ProductGrows
      <4>5. /\ now \in Nat /\ lastTick \in Nat /\ lastTick <= now
            /\ Base(m) \in Nat /\ now - Base(m) <= QuestionTime
            BY <3>1, <4>1, <4>3, BaseType DEF IsLate, TypeOK, Ticked, m
      <4>6. upToK \in Nat /\ upToN \in Nat
            BY <1>2, <4>2, <4>3, ProductType
      <4> HIDE DEF upToK, k
      <4>7. lastTick <= battle.start + upToN
        <5> HIDE DEF upToN
        <5> QED BY <4>1, <4>2, <4>3, <4>4, <4>5, <4>6
      <4> QED BY <4>7
    <3> QED BY <3>2, <3>3
  <2>5. UNCHANGED <<lastTick, battle.start>>
        BY <1>1
  <2>6. n = Cardinality(battle'.questions)
        BY <1>1 DEF n
  <2> QED BY <1>5, <2>2, <2>3, <2>4, <2>5, <2>6 DEF Unplayed, next
<1>10. ASSUME starts <= 1, battle.type = "AI", NEW t \in DOMAIN members
       PROVE  Unplayed(members[t], Cardinality(battle.questions))'
  <2>1. t = s
        BY <1>10 DEF Solo
  <2> QED BY <1>1, <1>9, <1>10, <2>1 DEF n, next
<1>11. starts <= 1 => starts # 0
       BY <1>1 DEF Punctual
<1> QED BY <1>1, <1>3, <1>8, <1>10, <1>11 DEF Solo, next

\* When an AI battle has expired, the student whose current_question is still 1 has
\* answered nothing or has been late.
LEMMA ExpiredUnplayed ==
    ASSUME TickFits, TypeOK, Ticked, Punctual, Solo, starts <= 1, Expired,
           battle.type = "AI", NEW s \in DOMAIN members, members[s].currentQuestion = 1
    PROVE  members[s].answers # {} => members[s].late
<1> DEFINE n == Cardinality(battle.questions)
           m == members[s]
           upToN == QuestionTime * n
<1>1. battle.status = "ON_GOING" /\ battle.end < now
      BY DEF Expired
<1>2. n \in Nat /\ n > 0
      BY <1>1, QuestionsAsked
<1>3. battle.start \in Nat
      /\ battle.end = battle.start - StartDelay + QuestionTime + upToN
      BY <1>1 DEF Punctual
<1>4. QuestionTime \in Nat /\ StartDelay \in Nat /\ Period \in Nat
      /\ Period <= QuestionTime - StartDelay
      BY DEF TimesAssumption, TickFits
<1>5. now \in Nat /\ lastTick \in Nat /\ now <= lastTick + Period
      BY DEF TypeOK, Ticked
<1>6. Unplayed(m, n)
      BY <1>1 DEF Solo
<1>7. upToN \in Nat
      BY <1>2, <1>4, ProductType
<1>8. CASE m.isFinished
  <2> SUFFICES ASSUME ~m.late PROVE FALSE
      OBVIOUS
  <2>1. lastTick <= battle.start + upToN
        BY <1>6, <1>8 DEF Unplayed
  <2> HIDE DEF upToN
  <2> QED BY <1>1, <1>3, <1>4, <1>5, <1>7, <2>1
<1>9. CASE ~m.isFinished
      BY <1>6, <1>9 DEF Unplayed
<1> QED BY <1>8, <1>9

LEMMA TickSolo ==
    ASSUME TickFits, TypeOK, Ticked, Punctual, Solo, Tick
    PROVE  Solo'
<1> DEFINE n == Cardinality(battle.questions)
<1>1. UNCHANGED <<now, starts>> /\ lastTick' = now
      BY DEF Tick
<1>2. CASE battle.status # "ON_GOING"
  <2>1. UNCHANGED <<battle, members, deleted>>
        BY <1>2 DEF Tick, DeleteUnplayed, EndExpired, EndWhenFinished, Expired
  <2> QED BY <1>1, <1>2, <2>1 DEF Solo
<1>3. CASE battle.status = "ON_GOING" /\ DeleteUnplayed
  <2>1. /\ Expired /\ ShouldDeleteAIBattle(battle, Rows)
        /\ battle' = [battle EXCEPT !.status = "DELETED"]
        /\ deleted' = Rows /\ DOMAIN members' = {}
        BY <1>3 DEF DeleteUnplayed
  <2>2. PICK s \in DOMAIN members : battle.type = "AI" /\ members[s].currentQuestion = 1
        BY <2>1 DEF ShouldDeleteAIBattle, Rows
  <2>3. deleted' = {members[s]}
        BY <2>1, <2>2 DEF Solo, Rows
  <2>4. battle'.type = battle.type /\ battle'.questions = battle.questions
        /\ battle'.status = "DELETED"
        BY <2>1 DEF TypeOK, TimedBattle
  <2>5. starts <= 1 => starts # 0
        BY <1>3 DEF Punctual
  <2>6. starts <= 1 /\ members[s].answers # {} => members[s].late
        BY <2>1, <2>2, ExpiredUnplayed
  <2> QED BY <1>1, <2>1, <2>2, <2>3, <2>4, <2>5, <2>6 DEF Solo
<1>4. CASE battle.status = "ON_GOING" /\ ~DeleteUnplayed
  <2>1. /\ deleted' = deleted
        /\ battle'.type = battle.type /\ battle'.questions = battle.questions
        BY <1>4 DEF Tick, EndExpired, EndWhenFinished, TypeOK, TimedBattle
  <2>2. ASSUME NEW s \in DOMAIN members'
        PROVE  s \in DOMAIN members /\ members'[s].currentQuestion > 0
    <3>1. s \in DOMAIN members /\ members[s] \in TimedMember
          BY TickStep DEF TypeOK
    <3>2. members'[s] = members[s] \/ members'[s] = Blanked(members[s])
          BY TickStep
    <3> QED BY <1>4, <3>1, <3>2, BlankedType, QuestionsAsked DEF Solo
  <2>3. starts <= 1 => starts # 0
        BY <1>4 DEF Punctual
  <2>4. ASSUME starts <= 1, battle.type = "AI", battle'.status = "ON_GOING",
               NEW s \in DOMAIN members'
        PROVE  Unplayed(members[s], n)'
    <3>1. s \in DOMAIN members /\ \A t \in DOMAIN members : t = s
          BY <2>2, <2>4 DEF Solo
    <3>2. battle' = battle /\ EndWhenFinished
          BY <1>4, <2>4, TickStep DEF Tick, EndExpired, TypeOK, TimedBattle
    <3>3. /\ members' = AfterIdle
          /\ ~AllMembersFinished({AfterIdle[t] : t \in DOMAIN members})
          BY <1>4, <2>4, <3>2 DEF EndWhenFinished, TypeOK, TimedBattle
    <3>4. ~members'[s].isFinished
          BY <3>1, <3>3 DEF AllMembersFinished
    <3>5. members'[s] = members[s]
          BY <3>1, <3>4, TickStep, BlankedType DEF TypeOK
    <3>6. Unplayed(members[s], n)
          BY <1>4, <2>4, <3>1 DEF Solo
    <3> QED BY <3>2, <3>4, <3>5, <3>6 DEF Unplayed
  <2> QED BY <1>1, <2>1, <2>2, <2>3, <2>4 DEF Solo
<1> QED BY <1>2, <1>3, <1>4

LEMMA SoloNext ==
    ASSUME TickFits, TypeOK, Ticked, Punctual, Solo, [Next]_vars
    PROVE  Solo'
<1>1. CASE Advance
      BY <1>1 DEF Advance, Solo, Unplayed
<1>2. CASE UNCHANGED vars
      BY <1>2 DEF vars, Solo, Unplayed
<1> QED BY <1>1, <1>2, StartSolo, AnswerSolo, TickSolo DEF Next

LEMMA SoloInvariant == TickFits /\ Spec => []Solo
<1>1. TickFits => TickFits'
      BY DEF TickFits
<1>2. TypeOK /\ Punctual /\ [Next]_vars => Punctual'
      BY PunctualNext
<1>3. TickFits /\ TypeOK /\ Ticked /\ Punctual /\ Solo /\ [Next]_vars => Solo'
      BY SoloNext
<1> QED BY <1>1, <1>2, <1>3, PunctualInit, SoloInit, TickedInvariant, PTL DEF Spec

\* An AI battle the student played in time is never deleted, if the worker is back in
\* time: without TickFits the answer to an only question may come after the last tick
\* before end_time.
THEOREM PlayedBattlesStay == TickFits /\ Spec => []PlayedIsNotDeleted
<1>1. Solo => PlayedIsNotDeleted
      BY DEF Solo, PlayedIsNotDeleted
<1> QED BY <1>1, SoloInvariant, PTL
=============================================================================
