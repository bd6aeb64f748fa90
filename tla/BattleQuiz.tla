------------------------------ MODULE BattleQuiz ------------------------------
(***************************************************************************)
(* The questions of one battle, from the draw (service/start_battle.go and *)
(* db/mysql/question_reader.go) over the answers to the results            *)
(* (internal/battle/result.go).                                            *)
(*                                                                         *)
(* The other modules take a set of questions for granted and abstract how  *)
(* an answer is judged; this one leaves out whatever runs concurrently.    *)
(* MySQL is external: the words of a unit, the templates and the exercise  *)
(* questions are the rows its joins have, and a row may be there twice.    *)
(***************************************************************************)
EXTENDS QuizRules

CONSTANTS
    Members,            \* ids of the members' rows
    Words,              \* words: [id, word, translation]
    Pack,               \* Pack[u]: the rows of words of active unit u of the level
    Templates,          \* data of json_question rows: sequences of questions
    Exercises,          \* the rows of questions of the exercises the level may use
    WordCount,          \* WordQuestionCount
    OptionCount,        \* WordOptionCount
    ExerciseCount,      \* ExerciseQuestionCount
    Submitted,          \* values a client may send: any texts, however many
    Times               \* answer times a client may send

\* Texts a question may hold: no spelling makes one the text of a blank answer.
Text == {t \in DOMAIN Fold : Fold[t] # Fold[NoAnswerText]}

Word == [id : Nat, word : Text, translation : Text]

Alternative == [id : Nat, type : {"ANSWER", "OPTION"}, value : Text]

Question == [id : Nat, value : Text, alternatives : SUBSET Alternative]

ASSUME QuizAssumption ==
    /\ NoAnswerText \in DOMAIN Fold /\ NoAnswerTime \in Nat
    /\ Words \subseteq Word
    /\ Templates \subseteq Seq(Question) /\ Exercises \in Seq(Question)
    /\ Members \subseteq Nat /\ IsFiniteSet(Members)
    /\ \A u \in DOMAIN Pack : Pack[u] \in Seq(Words)
    /\ {WordCount, OptionCount, ExerciseCount} \subseteq Nat \ {0}
    /\ Submitted \subseteq Seq(DOMAIN Fold) /\ Times \subseteq Nat

VARIABLES
    battle,     \* [type, lobby]: what Find was asked for
    at,         \* how far the battle has come
    used,       \* usedUnits of fetchWords
    unit,       \* the unit randomUnit returned last
    words,      \* words drawn so far
    questions,  \* battle.Questions
    members,    \* members[id]: the row with that id
    ended       \* history: the rows that AddBonusPoints was given

vars == <<battle, at, used, unit, words, questions, members, ended>>

Units == DOMAIN Pack

NewMember == [answers |-> <<>>, isFinished |-> FALSE, place |-> 0, points |-> 0]

Init ==
    /\ battle \in [type : {"P2P", "GROUP"}, lobby : {"GRAMMAR", "VOCABULARY"}]
    /\ at = "template"
    /\ used = {}
    /\ unit = {}
    /\ words = <<>>
    /\ questions = <<>>
    /\ members = [id \in Members |-> NewMember]
    /\ ended = members

drawVars == <<used, unit, words>>
playVars == <<members, ended>>

-----------------------------------------------------------------------------
(* fetchQuestions *)

Shuffles(seq) ==
    {[i \in DOMAIN seq |-> seq[p[i]]] :
        p \in {q \in [DOMAIN seq -> DOMAIN seq] : IsInjective(q)}}

\* ORDER BY RAND() LIMIT n
Sample(rows, n) ==
    LET count == IF n < Len(rows) THEN n ELSE Len(rows) IN
    {SubSeq(order, 1, count) : order \in Shuffles(rows)}

\* A query fails, and with it the request; randomUnit's error is not passed on.
QueryFails ==
    /\ at \in {"template", "grammar", "pack"}
    /\ at' = "failed"
    /\ UNCHANGED <<battle, questions, drawVars, playVars>>

\* FindJsonTemplate: a template of the level group, drawn at random.
FindJsonTemplate ==
    /\ at = "template"
    /\ \E template \in Templates :
          /\ template # <<>>
          /\ questions' = template
    /\ at' = "play"
    /\ UNCHANGED <<battle, drawVars, playVars>>

\* No template, or one without questions.
NoTemplate ==
    /\ at = "template"
    /\ Templates = {} \/ <<>> \in Templates
    /\ at' = IF battle.lobby = "GRAMMAR" THEN "grammar" ELSE "unit"
    /\ UNCHANGED <<battle, questions, drawVars, playVars>>

\* FindGrammarQuestions; nothing when the level is not found.
FindGrammarQuestions ==
    /\ at = "grammar"
    /\ \E qs \in Sample(Exercises, ExerciseCount) \cup {<<>>} :
          /\ questions' = qs
          /\ at' = IF qs = <<>> THEN "none" ELSE "play"
    /\ UNCHANGED <<battle, drawVars, playVars>>

\* randomUnit that forgets which units were drawn.
RandomUnitAgain ==
    /\ at = "unit"
    /\ \E u \in Units :
          /\ unit' = {u}
          /\ UNCHANGED used
    /\ at' = "pack"
    /\ UNCHANGED <<battle, questions, words, playVars>>

\* randomUnit: one that was not drawn yet.
RandomUnit ==
    /\ at = "unit"
    /\ \E u \in Units \ used :
          /\ unit' = {u}
          /\ used' = used \cup {u}
    /\ at' = "pack"
    /\ UNCHANGED <<battle, questions, words, playVars>>

\* No unit is left, or the query failed: fetchWords makes do with what it has.
NoUnit ==
    /\ at = "unit"
    /\ at' = IF words = <<>> THEN "none" ELSE "make"
    /\ UNCHANGED <<battle, questions, drawVars, playVars>>

\* unitWords: words of the unit, as many as are missing.
UnitWords ==
    /\ at = "pack"
    /\ \E u \in unit : \E batch \in Sample(Pack[u], WordCount - Len(words)) :
          words' = words \o batch
    /\ at' = IF Len(words') < WordCount THEN "unit" ELSE "make"
    /\ UNCHANGED <<battle, questions, used, unit, playVars>>

\* The first words of the copy, the question's own among them.
FirstWords(shuffled, w) ==
    {shuffled[j] : j \in {k \in DOMAIN shuffled : k < OptionCount}}

\* The first words of the shuffled copy other than the question's.
Distractors(shuffled, w) ==
    LET others == {j \in DOMAIN shuffled : shuffled[j].id # w.id} IN
    {shuffled[j] : j \in {k \in others : Cardinality({i \in others : i < k}) < OptionCount - 1}}

\* The i-th word drawn becomes a question: the first half asks for the translation,
\* the rest for the word.
WordQuestion(i, shuffled) ==
    LET w     == words[i]
        toOwn == i <= Len(words) \div 2
        side(x) == IF toOwn THEN x.translation ELSE x.word
    IN  [id |-> w.id,
         value |-> IF toOwn THEN w.word ELSE w.translation,
         alternatives |->
            {[id |-> w.id, type |-> "ANSWER", value |-> side(w)]}
            \cup {[id |-> x.id, type |-> "OPTION", value |-> side(x)] :
                     x \in Distractors(shuffled, w)}]

\* FindVocabularyQuestions: the words are made into questions and shuffled.
MakeQuestions ==
    /\ at = "make"
    /\ \E shuffled \in Shuffles(words) :
          questions' \in Shuffles([i \in DOMAIN words |-> WordQuestion(i, shuffled)])
    /\ at' = "play"
    /\ UNCHANGED <<battle, drawVars, playVars>>

-----------------------------------------------------------------------------
(* The battle *)

QuestionIds == {questions[i].id : i \in DOMAIN questions}

AnswerQuestion(id) ==
    /\ at = "play"
    /\ \E q \in QuestionIds, values \in Submitted, time \in Times :
          members' = [members EXCEPT ![id] = ProcessAnswer(questions, @, q, values, time)]
    /\ UNCHANGED <<battle, at, questions, drawVars, ended>>

\* The idle pass gives up on a member, or EndBattle does at end_time.
Blanked(id) ==
    /\ at = "play"
    /\ ~members[id].isFinished
    /\ members' = [members EXCEPT ![id] = FillBlanks(questions, @)]
    /\ UNCHANGED <<battle, at, questions, drawVars, ended>>

\* EndBattleService once everyone has finished.
EndBattle ==
    /\ at = "play"
    /\ \A id \in Members : members[id].isFinished
    /\ ended' = members
    /\ \E rows \in WithBonus(battle.type, members) : members' = Ranked(rows)
    /\ at' = "ended"
    /\ UNCHANGED <<battle, questions, drawVars>>

Draw ==
    \/ FindJsonTemplate \/ NoTemplate \/ FindGrammarQuestions
    \/ RandomUnit \/ NoUnit \/ UnitWords \/ MakeQuestions

Next ==
    \/ Draw
    \/ QueryFails
    \/ \E id \in Members : AnswerQuestion(id) \/ Blanked(id)
    \/ EndBattle

Spec == Init /\ [][Next]_vars /\ WF_vars(Draw)
-----------------------------------------------------------------------------

Answer ==
    [question : Nat, text : DOMAIN Fold, values : Seq(DOMAIN Fold), time : Nat,
     isCorrect : BOOLEAN, points : Nat]

Row == [answers : Seq(Answer), isFinished : BOOLEAN, place : Nat, points : Nat]

TypeOK ==
    /\ battle \in [type : {"P2P", "GROUP"}, lobby : {"GRAMMAR", "VOCABULARY"}]
    /\ at \in {"template", "grammar", "unit", "pack", "make", "none", "failed",
              "play", "ended"}
    /\ used \subseteq Units
    /\ unit \subseteq Units
    /\ words \in Seq(Words)
    /\ questions \in Seq(Question)
    /\ members \in [Members -> Row]
    /\ ended \in [Members -> Row]
    /\ at = "ended" => \A id \in Members : members[id].place \in 1..Cardinality(Members)

\* The draw ends, whatever the packs hold: no unit is asked twice, an empty one
\* included (question_reader.go:195).
DrawEnds == <>(at \in {"none", "failed", "play", "ended"})

\* A vocabulary question has one right alternative, and that and its text are the two
\* sides of the word the question is named for; no other alternative stands for that
\* word, though the same word may have been drawn from two units
\* (question_reader.go:139).
VocabularyIsSound ==
    at = "play" /\ words # <<>> =>
        /\ Len(questions) <= WordCount
        /\ \A i \in DOMAIN questions : LET q == questions[i] IN
              /\ Cardinality(q.alternatives) <= OptionCount
              /\ \E a \in q.alternatives, w \in ToSet(words) :
                    /\ a.type = "ANSWER"
                    /\ a.id = q.id /\ w.id = q.id
                    /\ {q.value, a.value} = {w.word, w.translation}
                    /\ \A b \in q.alternatives \ {a} : b.type = "OPTION" /\ b.id # q.id

\* The answers fit the questions: at most one each, and a member is finished only with
\* an answer to every question, although a word drawn twice makes two questions with
\* one id, of which a client can answer only one (answer.go:97).
AnswersFit ==
    \A id \in Members :
        /\ Len(members[id].answers) <= Len(questions)
        /\ members[id].isFinished => AnsweredIds(members[id]) = QuestionIds

\* Right alternatives that no spelling makes equal.
Unambiguous(q) ==
    \A a, b \in {x \in q.alternatives : x.type = "ANSWER"} :
        a # b => Fold[a.value] # Fold[b.value]

\* Counting the pairs that match says what it should: an answer is right exactly when
\* something was submitted and each value is a right alternative, but for spelling, of
\* the first question with its id, however many values the client sends.  (Where two right alternatives fold to one text a
\* wrong value may go unnoticed: answer.go:63.)
CorrectMeansAllRight ==
    \A id \in Members : \A i \in DOMAIN members[id].answers :
        LET a == members[id].answers[i]
            q == FirstWithId(questions, a.question)
        IN  Unambiguous(q) =>
                (a.isCorrect <=>
                    /\ a.values # <<>>
                    /\ \A v \in ToSet(a.values) :
                          \E right \in RightValues(q) : Fold[right] = Fold[v])

BonusOf(a) == a.points - (IF a.isCorrect THEN BaseAnswerPoints ELSE 0)

\* The bonus of a question goes to its fastest right answers: a right answer that is
\* faster than one with a bonus has at least that bonus, a wrong one has none, and
\* P2P gives 50 once for each text that was answered right (result.go:18).
BonusGoesToTheFastest ==
    at = "ended" =>
        \A text \in Texts(members) :
            LET es == Entries(members, text)
                bonus(e) == BonusOf(members[e[1]].answers[e[2]])
            IN  /\ \A d, e \in es :
                      TimeOf(members, d) < TimeOf(members, e) => bonus(d) >= bonus(e)
                /\ battle.type = "P2P" /\ es # {} =>
                      \E e \in es : /\ bonus(e) = 50
                                    /\ \A d \in es \ {e} : bonus(d) = 0
                /\ \A id \in Members : \A i \in DOMAIN members[id].answers :
                      ~members[id].answers[i].isCorrect => members[id].answers[i].points = 0

\* A reward is earned: who gets points has at least as many right answers as wrong
\* ones, nobody has more right answers, and nobody else gets any; that nobody gets any
\* needs a member with the most right answers and no more of them right than wrong.
\* (Whether half the answers wrong still earns the reward is left open: the code at
\* result.go:87 and the comment at result.go:65 disagree.)
RewardsAreEarned ==
    at = "ended" =>
        /\ \A id \in Members : members[id].points > 0 =>
              /\ RightCount(members[id]) >= WrongCount(members[id])
              /\ \A o \in Members \ {id} :
                    /\ RightCount(members[o]) <= RightCount(members[id])
                    /\ members[o].points = 0
        /\ (\A id \in Members : members[id].points = 0) =>
              \E id \in Members :
                 /\ RightCount(members[id]) <= WrongCount(members[id])
                 /\ \A o \in Members : RightCount(members[o]) <= RightCount(members[id])

-----------------------------------------------------------------------------
(* BattleModels, with sets for sequences and without times and bonuses *)

Models == INSTANCE BattleModels
    WITH Humans <- Members, Bots <- {}, NoStudent <- 0, QuestionSets <- {QuestionIds},
         Level <- [id \in Members |-> 1]

AbstractRow(rows, id) ==
    LET as == rows[id].answers IN
    [id      |-> id,
     answers |-> {[question |-> as[i].question, isCorrect |-> as[i].isCorrect] :
                    i \in DOMAIN as},
     place   |-> rows[id].place,
     points  |-> rows[id].points]

AbstractRows(rows) == {AbstractRow(rows, id) : id \in Members}

\* The results are ones that BattleModels allows the worker of BattleSystem to write,
\* when no word was drawn twice (result.go:68).
ResultsRefineModels ==
    at = "ended" /\ Cardinality(QuestionIds) = Len(questions) =>
        AbstractRows(members) \in Models!RankedMembers(AbstractRows(ended))
=============================================================================
