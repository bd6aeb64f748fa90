------------------------------ MODULE QuizRules ------------------------------
(***************************************************************************)
(* What BattleModels abstracts of internal/battle: how submitted values    *)
(* are matched with the alternatives of a question, the speed bonus, and   *)
(* the placement by right answers, time and id.  Nothing here has state.   *)
(*                                                                         *)
(* A question has an id, a text, and alternatives, which a question of     *)
(* several options has in all of them together.  A text is a model value;  *)
(* Fold takes texts that differ in case and spaces to the same one.        *)
(***************************************************************************)
EXTENDS Integers, FiniteSets, Sequences, SequencesExt

CONSTANTS
    Fold,          \* normalize of ProcessAnswer: lower case, no spaces
    NoAnswerText,  \* the value of a blank answer
    NoAnswerTime   \* the time of a blank answer

BaseAnswerPoints == 500

\* The values of the right alternatives.
RightValues(q) == {a.value : a \in {x \in q.alternatives : x.type = "ANSWER"}}

-----------------------------------------------------------------------------
(* answer.go *)

\* The comparison without normalize.
SameText(alt, v) == alt = v

\* One alternative and one value that match.
Matches(alt, v) == Fold[alt] = Fold[v]

\* The pairs of a right alternative and a value that match are counted, and their
\* number compared with that of the values.
IsCorrect(q, values) ==
    LET right == {a \in q.alternatives : a.type = "ANSWER"}
        pairs == {p \in right \X DOMAIN values : Matches(p[1].value, values[p[2]])}
    IN  values # <<>> /\ Cardinality(pairs) = Len(values)

AnsweredIds(m) == {m.answers[i].question : i \in DOMAIN m.answers}

FirstWithId(questions, id) == questions[SelectInSeq(questions, LAMBDA x : x.id = id)]

WithAnswer(questions, m, id, values, time) ==
    LET q       == FirstWithId(questions, id)
        right   == IsCorrect(q, values)
        answers == Append(m.answers,
                      [question |-> id, text |-> q.value, values |-> values,
                       time |-> time, isCorrect |-> right,
                       points |-> IF right THEN BaseAnswerPoints ELSE 0])
    IN  [m EXCEPT !.answers = answers,
                  !.isFinished = @ \/ Len(answers) = Len(questions)]

\* ProcessAnswer without the check for a duplicate.
ProcessAnswerAgain(questions, m, id, values, time) ==
    WithAnswer(questions, m, id, values, time)

\* ProcessAnswer of a question of the battle; of two with that id the first counts.
ProcessAnswer(questions, m, id, values, time) ==
    IF id \in AnsweredIds(m) THEN m ELSE WithAnswer(questions, m, id, values, time)

Blank(q) ==
    [question |-> q.id, text |-> q.value, values |-> <<NoAnswerText>>,
     time |-> NoAnswerTime, isCorrect |-> FALSE, points |-> 0]

\* The k-th of a set of positions.
Nth(positions, k) ==
    CHOOSE i \in positions : Cardinality({j \in positions : j < i}) = k - 1

\* The questions that have no answer, by position.
Open(questions, m) == {i \in DOMAIN questions : questions[i].id \notin AnsweredIds(m)}

\* FillBlanks: which questions are answered is looked up before the first blank.
FillBlanks(questions, m) ==
    LET open == Open(questions, m) IN
    [m EXCEPT !.answers = @ \o [k \in 1..Cardinality(open) |-> Blank(questions[Nth(open, k)])],
              !.isFinished = TRUE]

-----------------------------------------------------------------------------
(* result.go; members is a function from ids to rows *)

\* The right answers to the questions with that text: entries of questionsMap.
Entries(members, text) ==
    {e \in UNION {{id} \X DOMAIN members[id].answers : id \in DOMAIN members} :
        LET a == members[e[1]].answers[e[2]] IN a.isCorrect /\ a.text = text}

TimeOf(members, e) == members[e[1]].answers[e[2]].time

\* The orders in which a sort may leave entries that are not in any order.
AnyOrder(members, text) ==
    LET es == Entries(members, text) IN
    {o \in [es -> 1..Cardinality(es)] : IsInjective(o)}

\* The orders by time; answers of the same time may come out either way.
SortedByTime(members, text) ==
    {o \in AnyOrder(members, text) :
        \A d, e \in DOMAIN o : TimeOf(members, d) < TimeOf(members, e) => o[d] < o[e]}

Bonus(type, rank) ==
    IF type = "P2P" THEN IF rank = 1 THEN 50 ELSE 0
    ELSE IF rank <= 3 THEN <<120, 70, 50>>[rank] ELSE 0

Texts(members) ==
    UNION {{m.answers[i].text : i \in DOMAIN m.answers} : m \in {members[id] : id \in DOMAIN members}}

\* The answers of one member with their bonuses; orders[text] is how the right
\* answers to that text were sorted.
AnswersWithBonus(type, members, orders, id) ==
    [i \in DOMAIN members[id].answers |->
        LET a == members[id].answers[i] IN
        IF a.isCorrect
          THEN [a EXCEPT !.points = @ + Bonus(type, orders[a.text][<<id, i>>])]
          ELSE a]

\* AddBonusPoints: every way the members may come out.
WithBonus(type, members) ==
    LET texts == Texts(members)
        AllOrders == {o \in [texts -> UNION {SortedByTime(members, t) : t \in texts}] :
                        \A t \in texts : o[t] \in SortedByTime(members, t)}
    IN  {[id \in DOMAIN members |->
            [members[id] EXCEPT !.answers = AnswersWithBonus(type, members, o, id)]] :
           o \in AllOrders}

RightCount(m) == Cardinality({i \in DOMAIN m.answers : m.answers[i].isCorrect})

WrongCount(m) == Len(m.answers) - RightCount(m)

\* The sum of the answer times, counted tick by tick.
Ticks(a) == 1..a.time

TotalTime(m) == Cardinality(UNION {{i} \X Ticks(m.answers[i]) : i \in DOMAIN m.answers})

TooManyWrong(m) == m.answers # <<>> /\ WrongCount(m) * 2 >= Len(m.answers)

\* The least time first.
BeforeByTime(members, i, j) ==
    \/ TotalTime(members[i]) < TotalTime(members[j])
    \/ TotalTime(members[i]) = TotalTime(members[j]) /\ i < j

\* Most right answers first, then the least time, then the lower id.
Before(members, i, j) ==
    LET m == members[i]
        n == members[j]
    IN  \/ RightCount(m) > RightCount(n)
        \/ /\ RightCount(m) = RightCount(n)
           /\ \/ TotalTime(m) < TotalTime(n)
              \/ TotalTime(m) = TotalTime(n) /\ i < j

RewardPoints(place, count) ==
    IF count >= 6 THEN IF place <= 3 THEN 4 - place ELSE 0
                  ELSE IF place = 1 THEN 1 ELSE 0

\* The reward of a place, however many answers are wrong.
RewardAnyway(m, place, count) == RewardPoints(place, count)

Reward(m, place, count) == IF TooManyWrong(m) THEN 0 ELSE RewardPoints(place, count)

\* Placements that count from zero.
RankedFromZero(members) ==
    [id \in DOMAIN members |->
        LET m     == members[id]
            place == Cardinality({j \in DOMAIN members : Before(members, j, id)})
        IN  [m EXCEPT !.place = place,
                      !.points = Reward(m, place, Cardinality(DOMAIN members))]]

\* SumPointsAndSetPlacement
Ranked(members) ==
    [id \in DOMAIN members |->
        LET m     == members[id]
            place == Cardinality({j \in DOMAIN members : Before(members, j, id)}) + 1
        IN  [m EXCEPT !.place = place,
                      !.points = Reward(m, place, Cardinality(DOMAIN members))]]
=============================================================================
