---------------------------- MODULE BattleModels ----------------------------
(***************************************************************************)
(* The domain model (internal/models) and the rules of a battle            *)
(* (internal/battle): rows, statuses and the functions over them that      *)
(* the request handlers and the worker share.  Nothing here has state.     *)
(*                                                                         *)
(* Data the properties do not tell apart is abstracted: a question is an   *)
(* element of a set, an answer is the question it answers and whether it   *)
(* is right, a timestamp is whether it is NULL.  start_time, end_time and  *)
(* questions are only ever assigned together (startBattle), so one field   *)
(* stands for the three: questions = {} is the row that never started.     *)
(* place and points are assigned together as well: place = 0 is NULL.      *)
(***************************************************************************)
EXTENDS Integers, FiniteSets, Functions

CONSTANTS
    Humans,        \* students who send requests
    Bots,          \* students with is_testing_user = 1
    NoStudent,     \* the student of a Go zero value
    QuestionSets,  \* what a question reader may return; {} when it finds none
    Level          \* Level[s]: the level_id of student s, 0 when there is none

Students == Humans \cup Bots
Questions == UNION QuestionSets

ASSUME StudentsAssumption ==
    /\ NoStudent \notin Students
    /\ Level \in [Students -> Nat]

ASSUME QuestionsAssumption == IsFiniteSet(Questions)

BattleStatus == {"WAITING", "ON_QUEUE", "ON_GOING", "FINISHED"}
BattleType   == {"P2P", "GROUP", "AI"}
MemberStatus == {"NOT_CONFIRMED", "CONFIRMED"}
MemberType   == {"CREATOR", "PARTICIPANT", "AI"}

BattleMemberCount == [P2P |-> 2, GROUP |-> 4, AI |-> 2]

Answer == [question : Questions, isCorrect : BOOLEAN]

Battle ==
    [id        : Nat,
     type      : BattleType,
     status    : BattleStatus,
     expire    : BOOLEAN,          \* expire_time IS NOT NULL
     questions : SUBSET Questions,
     level     : Nat]

BattleMember ==
    [id              : Nat,
     student         : Students \cup {NoStudent},
     battle          : Nat,
     place           : Nat,
     points          : Nat,
     status          : MemberStatus,
     currentQuestion : Nat,
     answers         : SUBSET Answer,
     isFinished      : BOOLEAN,
     type            : MemberType,
     lastQuestionAt  : BOOLEAN]    \* last_question_at IS NOT NULL

\* The zero values a handler's local variables hold before they are loaded.
NoBattle ==
    [id |-> 0, type |-> "P2P", status |-> "WAITING", expire |-> FALSE,
     questions |-> {}, level |-> 0]

NoMember ==
    [id |-> 0, student |-> NoStudent, battle |-> 0, place |-> 0, points |-> 0,
     status |-> "NOT_CONFIRMED", currentQuestion |-> 1, answers |-> {},
     isFinished |-> FALSE, type |-> "CREATOR", lastQuestionAt |-> FALSE]

-----------------------------------------------------------------------------
(* daemon.go *)

\* KickExpiredMembers: an AI battle loses everyone, any other battle its
\* unconfirmed members.  The battle itself goes when nobody would be left.
KickExpiredMembers(b, ms) ==
    {m \in ms : b.type = "AI" \/ m.status = "NOT_CONFIRMED"}

ShouldDeleteAIBattle(b, ms) ==
    /\ b.type = "AI"
    /\ \E m \in ms : m.type # "AI" /\ m.currentQuestion = 1

AllMembersFinished(ms) ==
    /\ ms # {}
    /\ \A m \in ms : m.isFinished

\* IsMemberIdle without the clock: an unfinished member that has a baseline to
\* count MemberIdleTimeout from.
MayBeIdle(b, m) ==
    /\ ~m.isFinished
    /\ m.lastQuestionAt \/ b.questions # {}

-----------------------------------------------------------------------------
(* answer.go and ai_opponent.go *)

Answered(m) == {a.question : a \in m.answers}

\* MayProcessAnswer without the duplicate check.
MayProcessAgain(b, m, q) == q \in b.questions

\* A question of the battle that the member has not answered yet: the case in
\* which ProcessAnswer changes the member.
MayProcessAnswer(b, m, q) ==
    /\ q \in b.questions
    /\ q \notin Answered(m)

\* ProcessAnswer that compares the answers from before the new one.
ProcessAnswerLate(b, m, q, isCorrect) ==
    [m EXCEPT !.answers = @ \cup {[question |-> q, isCorrect |-> isCorrect]},
              !.isFinished = @ \/ Cardinality(m.answers) = Cardinality(b.questions),
              !.currentQuestion = @ + 1]

\* The answer is appended; the one that completes the battle's questions finishes
\* the member.
ProcessAnswer(b, m, q, isCorrect) ==
    LET answers == m.answers \cup {[question |-> q, isCorrect |-> isCorrect]}
        last    == Cardinality(answers) = Cardinality(b.questions)
    IN  [m EXCEPT !.answers = answers,
                  !.isFinished = @ \/ last,
                  !.currentQuestion = IF last THEN Cardinality(b.questions)
                                              ELSE @ + 1]

\* FillBlanks that fills nothing in.
FinishOnly(b, m) ==
    [m EXCEPT !.isFinished = TRUE, !.currentQuestion = Cardinality(b.questions)]

\* FillBlanks that starts from an empty list of answers.
BlankAll(b, m) ==
    [m EXCEPT !.answers = [question : b.questions, isCorrect : {FALSE}],
              !.isFinished = TRUE,
              !.currentQuestion = Cardinality(b.questions)]

\* Every unanswered question gets a blank, wrong answer; answers given are kept.
FillBlanks(b, m) ==
    [m EXCEPT !.answers = @ \cup [question : b.questions \ Answered(m),
                                  isCorrect : {FALSE}],
              !.isFinished = TRUE,
              !.currentQuestion = Cardinality(b.questions)]

\* fillAIAnswers: all questions answered, 6 to 8 of them right.  A battle without
\* questions leaves the member alone.
FilledAIMembers(b, m) ==
    IF b.questions = {} THEN {m} ELSE
    {[m EXCEPT !.answers = [question : right, isCorrect : {TRUE}] \cup
                           [question : b.questions \ right, isCorrect : {FALSE}],
               !.isFinished = TRUE,
               !.currentQuestion = Cardinality(b.questions)] :
        right \in {r \in SUBSET b.questions :
                     \/ Cardinality(r) \in 6..8
                     \/ r = b.questions /\ Cardinality(r) < 6}}

-----------------------------------------------------------------------------
(* result.go *)

CorrectCount(m) == Cardinality({a \in m.answers : a.isCorrect})

TooManyWrong(m) ==
    /\ m.answers # {}
    /\ 2 * Cardinality({a \in m.answers : ~a.isCorrect}) >= Cardinality(m.answers)

\* The orders the sort may produce: most correct answers first; members with as
\* many are ordered by their answer times, which may come out either way.
Placements(ms) ==
    {place \in Bijection(ms, 1..Cardinality(ms)) :
        \A m, n \in ms : CorrectCount(m) > CorrectCount(n) => place[m] < place[n]}

RewardPoints(place, count) ==
    IF count >= 6 THEN IF place <= 3 THEN 4 - place ELSE 0
                  ELSE IF place = 1 THEN 1 ELSE 0

\* SumPointsAndSetPlacement: every way the members may come out ranked.
RankedMembers(ms) ==
    {{[m EXCEPT !.place = place[m],
                !.points = IF TooManyWrong(m)
                             THEN 0
                             ELSE RewardPoints(place[m], Cardinality(ms))] :
        m \in ms} : place \in Placements(ms)}
=============================================================================
