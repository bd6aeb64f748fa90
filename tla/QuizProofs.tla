----------------------------- MODULE QuizProofs -----------------------------
(***************************************************************************)
(* The questions, answers and results of one battle, for every value of    *)
(* the constants of BattleQuiz.                                            *)
(*                                                                         *)
(* A sort, a search and a placement all come down to counting those that   *)
(* come before: Ranking says that counting them numbers a finite set from  *)
(* one on, and the rest follows from that without induction.               *)
(***************************************************************************)
EXTENDS BattleQuiz, FiniteSetTheorems, SequenceTheorems, TLAPS

-----------------------------------------------------------------------------
(* Counting those that come before *)

\* The elements of S that R puts before x, and how many they are.
Preceding(S, R, x) == {y \in S : <<y, x>> \in R}

Rank(S, R) == [x \in S |-> Cardinality(Preceding(S, R, x)) + 1]

StrictOrder(S, R) ==
    /\ \A x \in S : <<x, x>> \notin R
    /\ \A x, y, z \in S : <<x, y>> \in R /\ <<y, z>> \in R => <<x, z>> \in R
    /\ \A x, y \in S : x # y => <<x, y>> \in R \/ <<y, x>> \in R

\* What comes later has more before it.
LEMMA RankOrders ==
    ASSUME NEW S, IsFiniteSet(S), NEW R, StrictOrder(S, R)
    PROVE  /\ \A x \in S : Rank(S, R)[x] \in 1..Cardinality(S)
           /\ \A x, y \in S : <<x, y>> \in R => Rank(S, R)[x] < Rank(S, R)[y]
<1>1. ASSUME NEW x \in S
      PROVE  /\ IsFiniteSet(Preceding(S, R, x))
             /\ Cardinality(Preceding(S, R, x)) \in Nat
             /\ Cardinality(Preceding(S, R, x)) < Cardinality(S)
  <2>1. Preceding(S, R, x) \in SUBSET S /\ x \notin Preceding(S, R, x)
        BY DEF Preceding, StrictOrder
  <2>2. /\ IsFiniteSet(Preceding(S, R, x))
        /\ Cardinality(Preceding(S, R, x)) <= Cardinality(S)
        /\ Cardinality(S) = Cardinality(Preceding(S, R, x)) => S = Preceding(S, R, x)
        BY <2>1, FS_Subset
  <2>3. Cardinality(Preceding(S, R, x)) \in Nat /\ Cardinality(S) \in Nat
        BY <2>2, FS_CardinalityType
  <2> QED BY <2>1, <2>2, <2>3
<1>2. Cardinality(S) \in Nat
      BY FS_CardinalityType
<1>3. \A x \in S : Rank(S, R)[x] \in 1..Cardinality(S)
      BY <1>1, <1>2 DEF Rank
<1>4. ASSUME NEW x \in S, NEW y \in S, <<x, y>> \in R
      PROVE  Rank(S, R)[x] < Rank(S, R)[y]
  <2>1. /\ Preceding(S, R, x) \in SUBSET Preceding(S, R, y)
        /\ x \in Preceding(S, R, y) /\ x \notin Preceding(S, R, x)
        BY <1>4 DEF Preceding, StrictOrder
  <2>2. /\ Cardinality(Preceding(S, R, x)) <= Cardinality(Preceding(S, R, y))
        /\ Cardinality(Preceding(S, R, y)) = Cardinality(Preceding(S, R, x))
             => Preceding(S, R, y) = Preceding(S, R, x)
        BY <2>1, <1>1, FS_Subset
  <2>3. Cardinality(Preceding(S, R, x)) < Cardinality(Preceding(S, R, y))
        BY <2>1, <2>2, <1>1
  <2> QED BY <2>3, <1>1 DEF Rank
<1> QED BY <1>3, <1>4

\* Counting numbers the elements from one on, each by a number of its own.
LEMMA Ranking ==
    ASSUME NEW S, IsFiniteSet(S), NEW R, StrictOrder(S, R)
    PROVE  /\ Rank(S, R) \in Bijection(S, 1..Cardinality(S))
           /\ \A x, y \in S : <<x, y>> \in R <=> Rank(S, R)[x] < Rank(S, R)[y]
<1> DEFINE n == Cardinality(S)
           r == Rank(S, R)
<1>1. n \in Nat
      BY FS_CardinalityType
<1>2. /\ \A x \in S : r[x] \in 1..n
      /\ \A x, y \in S : <<x, y>> \in R => r[x] < r[y]
      BY RankOrders
<1>3. \A x, y \in S : <<x, y>> \in R <=> r[x] < r[y]
  <2> SUFFICES ASSUME NEW x \in S, NEW y \in S, r[x] < r[y], <<x, y>> \notin R
               PROVE  FALSE
      BY <1>2
  <2>1. r[x] \in Int /\ r[y] \in Int
        BY <1>2
  <2>2. x = y \/ <<y, x>> \in R
        BY DEF StrictOrder
  <2> QED BY <1>2, <2>1, <2>2
<1>4. r \in [S -> 1..n]
      BY <1>2 DEF Rank
<1>5. IsInjective(r)
  <2> SUFFICES ASSUME NEW x \in S, NEW y \in S, r[x] = r[y], x # y
               PROVE  FALSE
      BY <1>4 DEF IsInjective
  <2>1. r[x] \in Int /\ r[y] \in Int
        BY <1>2
  <2>2. <<x, y>> \in R \/ <<y, x>> \in R
        BY DEF StrictOrder
  <2> QED BY <1>2, <2>1, <2>2
<1>6. r \in Injection(S, 1..n)
      BY <1>4, <1>5 DEF Injection
<1>7. IsFiniteSet(1..n) /\ Cardinality(1..n) = n
      BY <1>1, FS_Interval
<1>8. r \in Surjection(S, 1..n)
      BY <1>6, <1>7, FS_Injection
<1> QED BY <1>3, <1>6, <1>8 DEF Bijection

\* A non-empty finite set with a strict order has a first element.
LEMMA FirstExists ==
    ASSUME NEW S, IsFiniteSet(S), NEW R, StrictOrder(S, R), S # {}
    PROVE  \E x \in S : \A y \in S \ {x} : <<x, y>> \in R
<1> DEFINE n == Cardinality(S)
           r == Rank(S, R)
<1>1. /\ r \in Surjection(S, 1..n)
      /\ \A x, y \in S : <<x, y>> \in R <=> r[x] < r[y]
      /\ r \in Injection(S, 1..n)
      BY Ranking DEF Bijection
<1>2. n \in Nat /\ n # 0
      BY FS_CardinalityType, FS_EmptySet
<1>3. PICK x \in S : r[x] = 1
      BY <1>1, <1>2 DEF Surjection
<1>4. ASSUME NEW y \in S \ {x}
      PROVE  r[x] < r[y]
      BY <1>1, <1>2, <1>3 DEF Injection, IsInjective
<1> QED BY <1>1, <1>4

\* The order of the integers.
Less == {p \in Int \X Int : p[1] < p[2]}

LEMMA LessOrders ==
    ASSUME NEW S \in SUBSET Int
    PROVE  /\ StrictOrder(S, Less)
           /\ \A x, y \in S : <<x, y>> \in Less <=> x < y
<1>1. ASSUME NEW x \in S, NEW y \in S
      PROVE  <<x, y>> \in Less <=> x < y
  <2>1. x \in Int /\ y \in Int
        OBVIOUS
  <2>2. <<x, y>>[1] = x /\ <<x, y>>[2] = y
        OBVIOUS
  <2> QED BY <2>1, <2>2 DEF Less
<1>2. \A x, y, z \in S : x < y /\ y < z => x < z
      OBVIOUS
<1>3. \A x, y \in S : x # y => x < y \/ y < x
      OBVIOUS
<1>4. \A x \in S : ~(x < x)
      OBVIOUS
<1> QED BY <1>1, <1>2, <1>3, <1>4 DEF StrictOrder

\* Min picks a least element.
LEMMA MinExists ==
    ASSUME NEW S \in SUBSET Int, IsFiniteSet(S), S # {}
    PROVE  Min(S) \in S /\ \A y \in S : Min(S) <= y
<1>1. PICK x \in S : \A y \in S \ {x} : <<x, y>> \in Less
      BY LessOrders, FirstExists
<1>2. \A y \in S : x <= y
  <2> SUFFICES ASSUME NEW y \in S
               PROVE  x <= y
      OBVIOUS
  <2>1. <<x, y>> \in Less => x < y
        BY LessOrders
  <2> QED BY <1>1, <2>1
<1> QED BY <1>2 DEF Min

-----------------------------------------------------------------------------
(* Questions *)

\* FirstWithId is a question with the id, if there is one.
LEMMA FirstIsThere ==
    ASSUME NEW qs \in Seq(Question), NEW id, \E i \in DOMAIN qs : qs[i].id = id
    PROVE  \E i \in DOMAIN qs : /\ FirstWithId(qs, id) = qs[i]
                                /\ qs[i].id = id
                                /\ \A j \in DOMAIN qs : qs[j].id = id => i <= j
<1> DEFINE I == {i \in 1..Len(qs) : qs[i].id = id}
<1>1. DOMAIN qs = 1..Len(qs) /\ Len(qs) \in Nat
      OBVIOUS
<1>2. I \in SUBSET (1..Len(qs)) /\ I # {}
  <2>1. PICK i \in DOMAIN qs : qs[i].id = id
        OBVIOUS
  <2>2. i \in I
        BY <1>1, <2>1
  <2> QED BY <2>2
<1>3. IsFiniteSet(I)
  <2>1. IsFiniteSet(1..Len(qs))
        BY <1>1, FS_Interval
  <2> QED BY <1>2, <2>1, FS_Subset
<1>4. Min(I) \in I /\ \A y \in I : Min(I) <= y
  <2>1. I \in SUBSET Int
        BY <1>1
  <2> QED BY <1>2, <1>3, <2>1, MinExists
<1>5. FirstWithId(qs, id) = qs[Min(I)]
      BY <1>2 DEF FirstWithId, SelectInSeq
<1> QED BY <1>1, <1>4, <1>5

LEMMA FirstIsQuestion ==
    ASSUME NEW qs \in Seq(Question), NEW id, \E i \in DOMAIN qs : qs[i].id = id
    PROVE  FirstWithId(qs, id) \in Question /\ FirstWithId(qs, id).id = id
<1>1. PICK i \in DOMAIN qs : FirstWithId(qs, id) = qs[i] /\ qs[i].id = id
      BY FirstIsThere
<1> QED BY <1>1

\* Nth numbers a finite set of positions.
LEMMA NthNumbers ==
    ASSUME NEW P \in SUBSET Int, IsFiniteSet(P)
    PROVE  /\ \A k \in 1..Cardinality(P) : Nth(P, k) \in P
           /\ \A i \in P : \E k \in 1..Cardinality(P) : Nth(P, k) = i
<1> DEFINE n == Cardinality(P)
           r == Rank(P, Less)
<1>1. r \in Bijection(P, 1..n) /\ n \in Nat
      BY LessOrders, Ranking, FS_CardinalityType
<1>2. ASSUME NEW i \in P
      PROVE  Cardinality({j \in P : j < i}) = r[i] - 1
  <2>1. {j \in P : j < i} = Preceding(P, Less, i)
    <3>1. \A j \in P : <<j, i>> \in Less <=> j < i
          BY LessOrders
    <3> QED BY <3>1 DEF Preceding
  <2>2. r[i] = Cardinality(Preceding(P, Less, i)) + 1
        BY DEF Rank
  <2>3. r[i] \in Int
        BY <1>1 DEF Bijection, Injection
  <2>4. IsFiniteSet(Preceding(P, Less, i))
        BY FS_Subset DEF Preceding
  <2>5. Cardinality(Preceding(P, Less, i)) \in Nat
        BY <2>4, FS_CardinalityType
  <2>6. Cardinality(Preceding(P, Less, i)) = r[i] - 1
        BY <2>2, <2>5
  <2> QED BY <2>1, <2>6
<1>3. /\ \A i \in P : r[i] \in 1..n
      /\ \A k \in 1..n : \E i \in P : r[i] = k
      /\ \A i, j \in P : r[i] = r[j] => i = j
      BY <1>1 DEF Bijection, Injection, Surjection, IsInjective
<1> HIDE DEF n, r
<1>4. ASSUME NEW k \in 1..n
      PROVE  Nth(P, k) \in P /\ r[Nth(P, k)] = k
  <2>1. PICK i \in P : r[i] = k
        BY <1>3
  <2>2. Cardinality({j \in P : j < i}) = k - 1
        BY <2>1, <1>2
  <2>3. /\ Nth(P, k) \in P
        /\ Cardinality({j \in P : j < Nth(P, k)}) = k - 1
        BY <2>2 DEF Nth
  <2>4. r[Nth(P, k)] - 1 = k - 1
        BY <2>3, <1>2
  <2>5. r[Nth(P, k)] \in 1..n
        BY <2>3, <1>3
  <2>6. n \in Nat
        BY <1>1
  <2>7. r[Nth(P, k)] \in Int /\ k \in Int
        BY <2>5, <2>6
  <2> QED BY <2>3, <2>4, <2>7
<1>5. ASSUME NEW i \in P
      PROVE  \E k \in 1..n : Nth(P, k) = i
      BY <1>3, <1>4
<1> QED BY <1>4, <1>5 DEF n

-----------------------------------------------------------------------------
(* Rows of members while the battle is played *)

Ids(qs) == {qs[i].id : i \in DOMAIN qs}

\* No two answers of m have the same question.
Once(m) ==
    \A i, j \in DOMAIN m.answers : m.answers[i].question = m.answers[j].question => i = j

\* The answers of m fit the questions: AnswersFit, and no question has two
\* answers but in a row that has them all.
Fit(qs, m) ==
    /\ Len(m.answers) <= Len(qs)
    /\ AnsweredIds(m) \subseteq Ids(qs)
    /\ m.isFinished => AnsweredIds(m) = Ids(qs)
    /\ Once(m) \/ AnsweredIds(m) = Ids(qs)

\* An answer is what ProcessAnswer, or a blank, made of it.
Judged(qs, m) ==
    \A i \in DOMAIN m.answers : LET a == m.answers[i] IN
        /\ a.isCorrect <=> IsCorrect(FirstWithId(qs, a.question), a.values)
        /\ a.points = IF a.isCorrect THEN BaseAnswerPoints ELSE 0

LEMMA UpTo ==
    ASSUME NEW n \in Nat
    PROVE  IsFiniteSet(1..n) /\ Cardinality(1..n) = n
BY FS_Interval

LEMMA IdsFinite ==
    ASSUME NEW qs \in Seq(Question)
    PROVE  IsFiniteSet(Ids(qs)) /\ Cardinality(Ids(qs)) \in Nat /\ Cardinality(Ids(qs)) <= Len(qs)
<1> DEFINE f == [i \in 1..Len(qs) |-> qs[i].id]
<1>1. Len(qs) \in Nat /\ DOMAIN qs = 1..Len(qs)
      OBVIOUS
<1>2. f \in Surjection(1..Len(qs), Ids(qs))
      BY <1>1 DEF Surjection, Ids
<1>3. IsFiniteSet(1..Len(qs)) /\ Cardinality(1..Len(qs)) = Len(qs)
      BY <1>1, FS_Interval
<1>4. IsFiniteSet(Ids(qs)) /\ Cardinality(Ids(qs)) <= Len(qs)
      BY <1>2, <1>3, FS_Surjection
<1> QED BY <1>4, FS_CardinalityType

\* Answers to different questions are as many as the questions they answer.
LEMMA OnceCounts ==
    ASSUME NEW m \in Row
    PROVE  /\ IsFiniteSet(AnsweredIds(m)) /\ Cardinality(AnsweredIds(m)) \in Nat
           /\ Cardinality(AnsweredIds(m)) <= Len(m.answers)
           /\ Cardinality(AnsweredIds(m)) = Len(m.answers) <=> Once(m)
<1> DEFINE n == Len(m.answers)
           f == [i \in 1..n |-> m.answers[i].question]
<1>1. n \in Nat /\ DOMAIN m.answers = 1..n
      BY DEF Row
<1>2. f \in Surjection(1..n, AnsweredIds(m))
      BY <1>1 DEF Surjection, AnsweredIds
<1>3. IsFiniteSet(1..n) /\ Cardinality(1..n) = n
      BY <1>1, FS_Interval
<1>4. /\ IsFiniteSet(AnsweredIds(m)) /\ Cardinality(AnsweredIds(m)) <= n
      /\ Cardinality(AnsweredIds(m)) = n <=> f \in Injection(1..n, AnsweredIds(m))
      BY <1>2, <1>3, FS_Surjection
<1>5. f \in Injection(1..n, AnsweredIds(m)) <=> Once(m)
  <2>1. f \in [1..n -> AnsweredIds(m)]
        BY <1>2 DEF Surjection
  <2> QED BY <1>1, <2>1 DEF Injection, IsInjective, Once
<1> QED BY <1>4, <1>5, FS_CardinalityType

\* What an accepted answer adds to the row.
Added(qs, m, id, values, n) ==
    \E a \in Answer, finished \in BOOLEAN :
        /\ n = [m EXCEPT !.answers = Append(m.answers, a), !.isFinished = finished]
        /\ a.question = id /\ a.values = values
        /\ a.isCorrect <=> IsCorrect(FirstWithId(qs, id), values)
        /\ a.points = IF a.isCorrect THEN BaseAnswerPoints ELSE 0
        /\ finished <=> m.isFinished \/ Len(m.answers) + 1 = Len(qs)

LEMMA AnswerAdded ==
    ASSUME NEW qs \in Seq(Question), NEW m \in Row, NEW id \in Ids(qs),
           NEW values \in Seq(DOMAIN Fold), NEW time \in Nat
    PROVE  Added(qs, m, id, values, WithAnswer(qs, m, id, values, time))
<1>1. PICK q \in Question : q = FirstWithId(qs, id)
  <2>1. \E i \in DOMAIN qs : qs[i].id = id
        BY DEF Ids
  <2> QED BY <2>1, FirstIsQuestion
<1>2. PICK right \in BOOLEAN : right = IsCorrect(q, values)
      BY DEF IsCorrect
<1>3. PICK a : a = [question |-> id, text |-> q.value, values |-> values, time |-> time,
                    isCorrect |-> right, points |-> IF right THEN BaseAnswerPoints ELSE 0]
      OBVIOUS
<1>4. a \in Answer
  <2>1. id \in Nat
    <3>1. PICK i \in DOMAIN qs : id = qs[i].id
          BY DEF Ids
    <3>2. qs[i] \in Question
          BY <3>1
    <3> QED BY <3>1, <3>2 DEF Question
  <2>2. q.value \in DOMAIN Fold
        BY DEF Question, Text
  <2> QED BY <1>3, <2>1, <2>2 DEF Answer, BaseAnswerPoints
<1>5. /\ a.question = id /\ a.values = values
      /\ a.isCorrect = right
      /\ a.points = IF a.isCorrect THEN BaseAnswerPoints ELSE 0
      BY <1>3
<1>6. m.answers \in Seq(Answer) /\ Len(Append(m.answers, a)) = Len(m.answers) + 1
      BY <1>4 DEF Row
<1>7. PICK finished \in BOOLEAN :
          finished = (m.isFinished \/ Len(Append(m.answers, a)) = Len(qs))
      OBVIOUS
<1>8. WithAnswer(qs, m, id, values, time) =
        [m EXCEPT !.answers = Append(m.answers, a), !.isFinished = finished]
  <2>1. WithAnswer(qs, m, id, values, time) =
          [m EXCEPT !.answers = Append(m.answers, a),
                    !.isFinished = @ \/ Len(Append(m.answers, a)) = Len(qs)]
        BY <1>1, <1>2, <1>3, Zenon DEF WithAnswer
  <2> QED BY <2>1, <1>7
<1>9. finished <=> m.isFinished \/ Len(m.answers) + 1 = Len(qs)
      BY <1>7, <1>6
<1>10. a.isCorrect <=> IsCorrect(FirstWithId(qs, id), values)
      BY <1>1, <1>2, <1>5
<1> QED BY <1>4, <1>5, <1>8, <1>9, <1>10 DEF Added

LEMMA FunctionIsSequence ==
    ASSUME NEW S, NEW n \in Nat, NEW f \in [1..n -> S]
    PROVE  f \in Seq(S) /\ Len(f) = n /\ DOMAIN f = 1..n
OBVIOUS

\* The parts of a sequence that got one more element.
LEMMA Appended ==
    ASSUME NEW S, NEW s \in Seq(S), NEW e \in S
    PROVE  /\ Append(s, e) \in Seq(S)
           /\ Len(Append(s, e)) = Len(s) + 1 /\ Len(s) \in Nat
           /\ DOMAIN s = 1..Len(s) /\ DOMAIN Append(s, e) = 1..(Len(s) + 1)
           /\ \A i \in DOMAIN s : i \in DOMAIN Append(s, e) /\ Append(s, e)[i] = s[i]
           /\ Append(s, e)[Len(s) + 1] = e
           /\ \A i \in DOMAIN Append(s, e) : i \in DOMAIN s \/ i = Len(s) + 1
OBVIOUS

\* An accepted answer leaves a row that fits the questions.
LEMMA AnswerFits ==
    ASSUME NEW qs \in Seq(Question), NEW m \in Row, NEW id \in Ids(qs) \ AnsweredIds(m),
           NEW values \in Seq(DOMAIN Fold), NEW time \in Nat,
           Fit(qs, m), Judged(qs, m)
    PROVE  LET n == WithAnswer(qs, m, id, values, time) IN
           /\ n \in Row /\ n.place = m.place /\ n.points = m.points
           /\ Fit(qs, n) /\ Judged(qs, n)
<1>1. PICK a \in Answer, finished \in BOOLEAN :
              /\ WithAnswer(qs, m, id, values, time) =
                    [m EXCEPT !.answers = Append(m.answers, a), !.isFinished = finished]
              /\ a.question = id /\ a.values = values
              /\ a.isCorrect <=> IsCorrect(FirstWithId(qs, id), values)
              /\ a.points = IF a.isCorrect THEN BaseAnswerPoints ELSE 0
              /\ finished <=> m.isFinished \/ Len(m.answers) + 1 = Len(qs)
  <2>1. Added(qs, m, id, values, WithAnswer(qs, m, id, values, time))
        BY AnswerAdded
  <2> QED BY <2>1 DEF Added
<1>2. PICK n : n = [m EXCEPT !.answers = Append(m.answers, a), !.isFinished = finished]
      OBVIOUS
<1>3. m.answers \in Seq(Answer)
      BY DEF Row
<1>4. /\ n.answers = Append(m.answers, a) /\ n.isFinished = finished
      /\ n.place = m.place /\ n.points = m.points
      BY <1>2 DEF Row
<1>5. n \in Row
  <2>1. Append(m.answers, a) \in Seq(Answer)
        BY <1>3
  <2> QED BY <2>1, <1>2 DEF Row
<1>6. /\ Len(n.answers) = Len(m.answers) + 1 /\ Len(m.answers) \in Nat
      /\ \A i \in DOMAIN m.answers : i \in DOMAIN n.answers /\ n.answers[i] = m.answers[i]
      /\ n.answers[Len(m.answers) + 1] = a
      /\ \A i \in DOMAIN n.answers : i \in DOMAIN m.answers \/ i = Len(m.answers) + 1
      /\ Len(m.answers) + 1 \in DOMAIN n.answers
  <2>1. Len(m.answers) \in Nat /\ Len(m.answers) + 1 \in 1..(Len(m.answers) + 1)
        BY <1>3
  <2> QED BY <1>3, <1>4, <2>1, Appended
<1>7. AnsweredIds(n) = AnsweredIds(m) \cup {id}
  <2>1. n.answers[Len(m.answers) + 1].question = id
        BY <1>6, <1>1
  <2>2. AnsweredIds(n) \subseteq AnsweredIds(m) \cup {id}
        BY <1>6, <2>1 DEF AnsweredIds
  <2>3. AnsweredIds(m) \subseteq AnsweredIds(n)
        BY <1>6 DEF AnsweredIds
  <2>4. id \in AnsweredIds(n)
        BY <1>6, <2>1 DEF AnsweredIds
  <2> QED BY <2>2, <2>3, <2>4
<1>8. Once(m)
      BY DEF Fit
<1>9. Once(n)
  <2>1. \A i \in DOMAIN m.answers : n.answers[i].question # id
        BY <1>6 DEF AnsweredIds
  <2>2. n.answers[Len(m.answers) + 1].question = id
        BY <1>6, <1>1
  <2> SUFFICES ASSUME NEW i \in DOMAIN n.answers, NEW j \in DOMAIN n.answers,
                      n.answers[i].question = n.answers[j].question
               PROVE  i = j
      BY DEF Once
  <2>3. CASE i \in DOMAIN m.answers /\ j \in DOMAIN m.answers
        BY <1>6, <1>8, <2>3 DEF Once
  <2>4. CASE i = Len(m.answers) + 1 \/ j = Len(m.answers) + 1
        BY <1>6, <2>1, <2>2, <2>4
  <2> QED BY <1>6, <2>3, <2>4
<1>10. /\ IsFiniteSet(Ids(qs)) /\ Cardinality(Ids(qs)) \in Nat
       /\ Cardinality(Ids(qs)) <= Len(qs) /\ Len(qs) \in Nat
       BY IdsFinite
<1>11. AnsweredIds(n) \in SUBSET Ids(qs)
       BY <1>7 DEF Fit
<1>12. /\ Cardinality(AnsweredIds(n)) <= Cardinality(Ids(qs))
       /\ Cardinality(AnsweredIds(n)) = Cardinality(Ids(qs)) => AnsweredIds(n) = Ids(qs)
       BY <1>10, <1>11, FS_Subset
<1>13. Cardinality(AnsweredIds(n)) = Len(n.answers)
       BY <1>5, <1>9, OnceCounts
<1>14. Len(n.answers) <= Len(qs)
       BY <1>10, <1>12, <1>13, <1>6
<1>15. n.isFinished => AnsweredIds(n) = Ids(qs)
  <2> SUFFICES ASSUME n.isFinished
               PROVE  AnsweredIds(n) = Ids(qs)
      OBVIOUS
  <2>1. ~m.isFinished
        BY DEF Fit
  <2>2. Len(n.answers) = Len(qs)
        BY <2>1, <1>1, <1>4, <1>6
  <2> QED BY <2>2, <1>10, <1>12, <1>13
<1>16. Fit(qs, n)
       BY <1>9, <1>11, <1>14, <1>15 DEF Fit
<1>17. Judged(qs, n)
  <2> SUFFICES ASSUME NEW i \in DOMAIN n.answers
               PROVE  /\ n.answers[i].isCorrect <=>
                           IsCorrect(FirstWithId(qs, n.answers[i].question), n.answers[i].values)
                      /\ n.answers[i].points = IF n.answers[i].isCorrect
                                                 THEN BaseAnswerPoints ELSE 0
      BY DEF Judged
  <2>1. CASE i \in DOMAIN m.answers
        BY <2>1, <1>6 DEF Judged
  <2>2. CASE i = Len(m.answers) + 1
        BY <2>2, <1>6, <1>1
  <2> QED BY <1>6, <2>1, <2>2
<1> QED BY <1>1, <1>2, <1>4, <1>5, <1>16, <1>17

\* The parts of two sequences in one.
LEMMA Joined ==
    ASSUME NEW S, NEW s \in Seq(S), NEW t \in Seq(S)
    PROVE  /\ s \o t \in Seq(S)
           /\ Len(s \o t) = Len(s) + Len(t) /\ Len(s) \in Nat /\ Len(t) \in Nat
           /\ DOMAIN s = 1..Len(s) /\ DOMAIN t = 1..Len(t)
           /\ DOMAIN (s \o t) = 1..(Len(s) + Len(t))
           /\ \A i \in DOMAIN s : i \in DOMAIN (s \o t) /\ (s \o t)[i] = s[i]
           /\ \A i \in DOMAIN t : /\ Len(s) + i \in DOMAIN (s \o t)
                                  /\ (s \o t)[Len(s) + i] = t[i]
           /\ \A i \in DOMAIN (s \o t) : i \in DOMAIN s \/ \E j \in DOMAIN t : i = Len(s) + j
<1> DEFINE u == s \o t
<1>1. /\ u \in Seq(S) /\ Len(u) = Len(s) + Len(t) /\ Len(s) \in Nat /\ Len(t) \in Nat
      /\ DOMAIN s = 1..Len(s) /\ DOMAIN t = 1..Len(t) /\ DOMAIN u = 1..(Len(s) + Len(t))
      OBVIOUS
<1>2. \A i \in 1..(Len(s) + Len(t)) : u[i] = IF i <= Len(s) THEN s[i] ELSE t[i - Len(s)]
      OBVIOUS
<1> HIDE DEF u
<1>3. \A i \in DOMAIN s : i \in DOMAIN u /\ u[i] = s[i]
      BY <1>1, <1>2
<1>4. \A i \in DOMAIN t : Len(s) + i \in DOMAIN u /\ u[Len(s) + i] = t[i]
      BY <1>1, <1>2
<1>5. \A i \in DOMAIN u : i \in DOMAIN s \/ \E j \in DOMAIN t : i = Len(s) + j
  <2> SUFFICES ASSUME NEW i \in DOMAIN u, i \notin DOMAIN s
               PROVE  \E j \in DOMAIN t : i = Len(s) + j
      OBVIOUS
  <2>1. i - Len(s) \in DOMAIN t /\ i = Len(s) + (i - Len(s))
        BY <1>1
  <2> QED BY <2>1
<1> QED BY <1>1, <1>3, <1>4, <1>5 DEF u

\* A blank answer is wrong: no alternative folds to its text.
LEMMA BlankIsWrong ==
    ASSUME NEW q \in Question
    PROVE  ~IsCorrect(q, <<NoAnswerText>>)
<1> DEFINE right == {a \in q.alternatives : a.type = "ANSWER"}
           pairs == {p \in right \X DOMAIN <<NoAnswerText>> :
                        Matches(p[1].value, <<NoAnswerText>>[p[2]])}
<1>1. pairs = {}
  <2> SUFFICES ASSUME NEW a \in right, NEW i \in DOMAIN <<NoAnswerText>>,
                      Matches(a.value, <<NoAnswerText>>[i])
               PROVE  FALSE
      OBVIOUS
  <2>1. a \in Alternative
        BY DEF Question
  <2>2. Fold[a.value] # Fold[NoAnswerText]
        BY <2>1 DEF Alternative, Text
  <2>3. <<NoAnswerText>>[i] = NoAnswerText
        OBVIOUS
  <2> QED BY <2>2, <2>3 DEF Matches
<1>2. Cardinality(pairs) # Len(<<NoAnswerText>>)
      BY <1>1, FS_EmptySet
<1> QED BY <1>2 DEF IsCorrect

LEMMA BlankTyped ==
    ASSUME NEW q \in Question
    PROVE  Blank(q) \in Answer
<1>1. q.id \in Nat /\ q.value \in DOMAIN Fold
      BY DEF Question, Text
<1>2. <<NoAnswerText>> \in Seq(DOMAIN Fold) /\ NoAnswerTime \in Nat
      BY QuizAssumption
<1> QED BY <1>1, <1>2 DEF Blank, Answer

\* Which positions are open, and how many.
LEMMA OpenCounts ==
    ASSUME NEW qs \in Seq(Question), NEW m \in Row, Fit(qs, m)
    PROVE  /\ IsFiniteSet(Open(qs, m)) /\ Cardinality(Open(qs, m)) \in Nat
           /\ Len(m.answers) + Cardinality(Open(qs, m)) <= Len(qs)
<1> DEFINE open == Open(qs, m)
           done == DOMAIN qs \ open
           f == [i \in done |-> qs[i].id]
<1>1. Len(qs) \in Nat /\ DOMAIN qs = 1..Len(qs) /\ Len(m.answers) \in Nat
      BY DEF Row
<1>2. IsFiniteSet(DOMAIN qs) /\ Cardinality(DOMAIN qs) = Len(qs)
  <2>1. IsFiniteSet(1..Len(qs)) /\ Cardinality(1..Len(qs)) = Len(qs)
        BY <1>1, UpTo
  <2> QED BY <1>1, <2>1
<1>3. open \in SUBSET DOMAIN qs /\ done \in SUBSET DOMAIN qs
      BY DEF Open
<1>4. IsFiniteSet(open) /\ IsFiniteSet(done)
      BY <1>2, <1>3, FS_Subset
<1>5. Cardinality(open) \in Nat /\ Cardinality(done) \in Nat
      BY <1>4, FS_CardinalityType
<1>6. Cardinality(done) = Len(qs) - Cardinality(open)
  <2>1. DOMAIN qs \cap open = open
        BY <1>3
  <2> QED BY <1>2, <2>1, FS_Difference
<1>7. CASE Once(m)
  <2>1. f \in Surjection(done, AnsweredIds(m))
    <3>1. \A i \in done : qs[i].id \in AnsweredIds(m)
          BY DEF Open
    <3>2. ASSUME NEW x \in AnsweredIds(m)
          PROVE  \E i \in done : qs[i].id = x
      <4>1. PICK i \in DOMAIN qs : qs[i].id = x
            BY DEF Fit, Ids
      <4>2. i \in done
            BY <4>1 DEF Open
      <4> QED BY <4>1, <4>2
    <3> HIDE DEF done
    <3> QED BY <3>1, <3>2 DEF Surjection
  <2>2. Cardinality(AnsweredIds(m)) <= Cardinality(done)
        BY <2>1, <1>4, FS_Surjection
  <2>3. Cardinality(AnsweredIds(m)) = Len(m.answers)
        BY <1>7, OnceCounts
  <2> QED BY <1>1, <1>4, <1>5, <1>6, <2>2, <2>3
<1>8. CASE AnsweredIds(m) = Ids(qs)
  <2>1. open = {}
        BY <1>8 DEF Open, Ids
  <2>2. Cardinality(open) = 0
        BY <2>1, FS_EmptySet
  <2> QED BY <1>1, <1>4, <1>5, <2>2 DEF Fit
<1> QED BY <1>7, <1>8 DEF Fit

\* Blanks leave a row that fits the questions and is finished.
LEMMA BlanksFit ==
    ASSUME NEW qs \in Seq(Question), NEW m \in Row, Fit(qs, m), Judged(qs, m)
    PROVE  LET n == FillBlanks(qs, m) IN
           /\ n \in Row /\ n.place = m.place /\ n.points = m.points
           /\ Fit(qs, n) /\ Judged(qs, n)
<1> DEFINE open == Open(qs, m)
<1>1. PICK c \in Nat : c = Cardinality(open)
      BY OpenCounts
<1>2. PICK bl : bl = [k \in 1..c |-> Blank(qs[Nth(open, k)])]
      OBVIOUS
<1>3. PICK n : n = [m EXCEPT !.answers = m.answers \o bl, !.isFinished = TRUE]
      OBVIOUS
<1>4. n = FillBlanks(qs, m)
      BY <1>1, <1>2, <1>3 DEF FillBlanks
<1>5. IsFiniteSet(open) /\ open \in SUBSET Int /\ open \subseteq DOMAIN qs
  <2>1. IsFiniteSet(open)
        BY OpenCounts
  <2>2. open \subseteq DOMAIN qs
        BY DEF Open
  <2>3. DOMAIN qs \subseteq Int
        OBVIOUS
  <2> QED BY <2>1, <2>2, <2>3
<1>6. /\ \A k \in 1..c : Nth(open, k) \in open
      /\ \A i \in open : \E k \in 1..c : Nth(open, k) = i
      BY <1>1, <1>5, NthNumbers
<1>7. \A k \in 1..c : qs[Nth(open, k)] \in Question
      BY <1>5, <1>6
<1>8. bl \in Seq(Answer) /\ Len(bl) = c /\ DOMAIN bl = 1..c
      BY <1>2, <1>7, BlankTyped
<1>9. m.answers \in Seq(Answer)
      BY DEF Row
<1>10. /\ n.answers = m.answers \o bl /\ n.isFinished = TRUE
       /\ n.place = m.place /\ n.points = m.points
       BY <1>3 DEF Row
<1>11. /\ n.answers \in Seq(Answer)
       /\ Len(n.answers) = Len(m.answers) + c
       /\ \A i \in DOMAIN m.answers : i \in DOMAIN n.answers /\ n.answers[i] = m.answers[i]
       /\ \A i \in 1..c : /\ Len(m.answers) + i \in DOMAIN n.answers
                          /\ n.answers[Len(m.answers) + i] = bl[i]
       /\ \A i \in DOMAIN n.answers :
             i \in DOMAIN m.answers \/ \E j \in 1..c : i = Len(m.answers) + j
  <2> DEFINE u == m.answers \o bl
  <2>0. PICK s \in Seq(Answer), t \in Seq(Answer) : s = m.answers /\ t = bl
        BY <1>8, <1>9
  <2>1. /\ u \in Seq(Answer)
        /\ Len(u) = Len(m.answers) + Len(bl)
        /\ \A i \in DOMAIN m.answers : i \in DOMAIN u /\ u[i] = m.answers[i]
        /\ \A i \in DOMAIN bl : Len(m.answers) + i \in DOMAIN u /\ u[Len(m.answers) + i] = bl[i]
        /\ \A i \in DOMAIN u :
              i \in DOMAIN m.answers \/ \E j \in DOMAIN bl : i = Len(m.answers) + j
        BY <2>0, Joined
  <2>2. n.answers = u
        BY <1>10
  <2> HIDE DEF u
  <2> QED BY <1>8, <2>1, <2>2
<1>12. n \in Row
       BY <1>3, <1>10, <1>11 DEF Row
<1>13. \A k \in 1..c : /\ bl[k].question = qs[Nth(open, k)].id
                       /\ bl[k].values = <<NoAnswerText>>
                       /\ bl[k].isCorrect = FALSE /\ bl[k].points = 0
       BY <1>2 DEF Blank
<1>14. AnsweredIds(n) = Ids(qs)
  <2>1. ASSUME NEW i \in DOMAIN n.answers
        PROVE  n.answers[i].question \in Ids(qs)
    <3>1. CASE i \in DOMAIN m.answers
          BY <3>1, <1>11 DEF Fit, AnsweredIds
    <3>2. ASSUME NEW j \in 1..c, i = Len(m.answers) + j
          PROVE  n.answers[i].question \in Ids(qs)
      <4>1. n.answers[i].question = qs[Nth(open, j)].id
            BY <3>2, <1>11, <1>13
      <4>2. Nth(open, j) \in DOMAIN qs
            BY <1>5, <1>6
      <4> QED BY <4>1, <4>2 DEF Ids
    <3> QED BY <1>11, <3>1, <3>2
  <2>2. ASSUME NEW i \in DOMAIN qs
        PROVE  \E j \in DOMAIN n.answers : n.answers[j].question = qs[i].id
    <3>1. CASE i \in open
      <4>1. PICK k \in 1..c : Nth(open, k) = i
            BY <3>1, <1>6
      <4>2. n.answers[Len(m.answers) + k].question = qs[i].id
            BY <4>1, <1>11, <1>13
      <4> QED BY <4>2, <1>11
    <3>2. CASE i \notin open
      <4>1. PICK j \in DOMAIN m.answers : m.answers[j].question = qs[i].id
            BY <3>2 DEF Open, AnsweredIds
      <4> QED BY <4>1, <1>11
    <3> QED BY <3>1, <3>2
  <2>3. AnsweredIds(n) \subseteq Ids(qs)
        BY <2>1 DEF AnsweredIds
  <2>4. Ids(qs) \subseteq AnsweredIds(n)
        BY <2>2 DEF AnsweredIds, Ids
  <2> QED BY <2>3, <2>4
<1>15. Len(n.answers) <= Len(qs)
       BY <1>1, <1>11, OpenCounts
<1>16. Fit(qs, n)
       BY <1>14, <1>15 DEF Fit
<1>17. Judged(qs, n)
  <2> SUFFICES ASSUME NEW i \in DOMAIN n.answers
               PROVE  /\ n.answers[i].isCorrect <=>
                           IsCorrect(FirstWithId(qs, n.answers[i].question), n.answers[i].values)
                      /\ n.answers[i].points = IF n.answers[i].isCorrect
                                                 THEN BaseAnswerPoints ELSE 0
      BY DEF Judged
  <2>1. CASE i \in DOMAIN m.answers
        BY <2>1, <1>11 DEF Judged
  <2>2. ASSUME NEW j \in 1..c, i = Len(m.answers) + j
        PROVE  /\ n.answers[i].isCorrect = FALSE /\ n.answers[i].points = 0
               /\ ~IsCorrect(FirstWithId(qs, n.answers[i].question), n.answers[i].values)
    <3>1. n.answers[i] = bl[j]
          BY <2>2, <1>11
    <3>2. Nth(open, j) \in DOMAIN qs
          BY <1>5, <1>6
    <3>3. FirstWithId(qs, bl[j].question) \in Question
          BY <3>2, <1>13, FirstIsQuestion
    <3> QED BY <3>1, <3>3, <1>13, BlankIsWrong
  <2> QED BY <1>11, <2>1, <2>2
<1> QED BY <1>4, <1>10, <1>12, <1>16, <1>17

-----------------------------------------------------------------------------
(* Matching values with alternatives *)

\* Where right alternatives fold to different texts, counting the matching pairs
\* counts the values that match.
LEMMA CorrectCounts ==
    ASSUME NEW q \in Question, NEW values \in Seq(DOMAIN Fold), Unambiguous(q)
    PROVE  IsCorrect(q, values) <=>
              /\ values # <<>>
              /\ \A v \in ToSet(values) : \E right \in RightValues(q) : Fold[right] = Fold[v]
<1> DEFINE right == {a \in q.alternatives : a.type = "ANSWER"}
           pairs == {p \in right \X DOMAIN values : Matches(p[1].value, values[p[2]])}
           f == [p \in pairs |-> p[2]]
           n == Len(values)
<1>1. n \in Nat /\ DOMAIN values = 1..n
      OBVIOUS
<1>2. f \in [pairs -> 1..n]
      BY <1>1
<1>3. IsInjective(f)
  <2> SUFFICES ASSUME NEW p \in pairs, NEW r \in pairs, p[2] = r[2]
               PROVE  p = r
      BY DEF IsInjective
  <2>1. Fold[p[1].value] = Fold[values[p[2]]] /\ Fold[r[1].value] = Fold[values[p[2]]]
        BY DEF Matches
  <2>2. p[1] \in right /\ r[1] \in right
        OBVIOUS
  <2>3. p[1] = r[1]
        BY <2>1, <2>2 DEF Unambiguous
  <2> QED BY <2>3
<1>4. f \in Injection(pairs, 1..n)
      BY <1>2, <1>3 DEF Injection
<1>5. IsFiniteSet(1..n) /\ Cardinality(1..n) = n
      BY <1>1, UpTo
<1>6. Cardinality(pairs) = n <=> f \in Surjection(pairs, 1..n)
      BY <1>4, <1>5, FS_Injection
<1>7. f \in Surjection(pairs, 1..n) <=> \A i \in 1..n : \E p \in pairs : p[2] = i
      BY <1>2 DEF Surjection
<1>8. ASSUME NEW i \in 1..n
      PROVE  (\E p \in pairs : p[2] = i) <=>
                \E x \in RightValues(q) : Fold[x] = Fold[values[i]]
  <2>1. ASSUME NEW p \in pairs, p[2] = i
        PROVE  \E x \in RightValues(q) : Fold[x] = Fold[values[i]]
    <3>1. p[1] \in right /\ Fold[p[1].value] = Fold[values[i]]
          BY <2>1 DEF Matches
    <3> QED BY <3>1 DEF RightValues
  <2>2. ASSUME NEW x \in RightValues(q), Fold[x] = Fold[values[i]]
        PROVE  \E p \in pairs : p[2] = i
    <3>1. PICK a \in right : x = a.value
          BY DEF RightValues
    <3>2. <<a, i>> \in pairs /\ <<a, i>>[2] = i
          BY <1>1, <2>2, <3>1 DEF Matches
    <3> QED BY <3>2
  <2> QED BY <2>1, <2>2
<1>9. (\A v \in ToSet(values) : \E x \in RightValues(q) : Fold[x] = Fold[v]) <=>
         \A i \in 1..n : \E x \in RightValues(q) : Fold[x] = Fold[values[i]]
      BY <1>1 DEF ToSet
<1>10. IsCorrect(q, values) <=> values # <<>> /\ Cardinality(pairs) = n
      BY DEF IsCorrect
<1> QED BY <1>6, <1>7, <1>8, <1>9, <1>10

-----------------------------------------------------------------------------
(* Questions made of words *)

\* A shuffled sequence has the elements it had.
LEMMA ShuffleKeeps ==
    ASSUME NEW S, NEW s \in Seq(S), NEW t \in Shuffles(s)
    PROVE  /\ t \in Seq(S) /\ Len(t) = Len(s) /\ DOMAIN t = DOMAIN s
           /\ \A i \in DOMAIN t : \E j \in DOMAIN s : t[i] = s[j]
<1>1. PICK p \in [DOMAIN s -> DOMAIN s] : t = [i \in DOMAIN s |-> s[p[i]]]
      BY DEF Shuffles
<1>2. Len(s) \in Nat /\ DOMAIN s = 1..Len(s)
      OBVIOUS
<1>3. t \in [1..Len(s) -> S]
      BY <1>1, <1>2
<1>4. t \in Seq(S) /\ Len(t) = Len(s)
      BY <1>2, <1>3
<1> QED BY <1>1, <1>4

\* A sample has at most as many rows as it may have, and none from elsewhere.
LEMMA SampleKeeps ==
    ASSUME NEW S, NEW rows \in Seq(S), NEW n \in Nat, NEW t \in Sample(rows, n)
    PROVE  t \in Seq(S) /\ Len(t) \in 0..n
<1>1. PICK order \in Shuffles(rows), count \in Nat :
          /\ t = SubSeq(order, 1, count)
          /\ count = IF n < Len(rows) THEN n ELSE Len(rows)
  <2>1. Len(rows) \in Nat
        OBVIOUS
  <2> QED BY <2>1 DEF Sample
<1>2. order \in Seq(S) /\ Len(order) = Len(rows) /\ Len(rows) \in Nat
      BY ShuffleKeeps
<1>3. \A i \in 1..count : order[i] \in S
      BY <1>1, <1>2
<1>4. t \in Seq(S) /\ Len(t) = IF 1 <= count THEN count - 1 + 1 ELSE 0
      BY <1>1, <1>3, SubSeqProperties
<1> QED BY <1>1, <1>2, <1>4

\* A question has fewer other alternatives than WordOptionCount.
LEMMA DistractorsFew ==
    ASSUME NEW shuffled \in Seq(Words), NEW w \in Word
    PROVE  LET D == Distractors(shuffled, w) IN
           /\ D \subseteq Words /\ IsFiniteSet(D)
           /\ Cardinality(D) \in Nat /\ Cardinality(D) <= OptionCount - 1
           /\ \A x \in D : x.id # w.id
<1> DEFINE others == {j \in DOMAIN shuffled : shuffled[j].id # w.id}
           first == {k \in others : Cardinality({i \in others : i < k}) < OptionCount - 1}
           r == Rank(others, Less)
           f == [k \in first |-> r[k]]
           g == [k \in first |-> shuffled[k]]
           D == Distractors(shuffled, w)
<1>1. Len(shuffled) \in Nat /\ DOMAIN shuffled = 1..Len(shuffled) /\ OptionCount \in Nat \ {0}
      BY QuizAssumption
<1>2. others \in SUBSET (1..Len(shuffled)) /\ others \in SUBSET Int
      BY <1>1
<1>3. IsFiniteSet(others)
  <2>1. IsFiniteSet(1..Len(shuffled))
        BY <1>1, UpTo
  <2> QED BY <1>2, <2>1, FS_Subset
<1>4. r \in Bijection(others, 1..Cardinality(others)) /\ Cardinality(others) \in Nat
      BY <1>2, <1>3, LessOrders, Ranking, FS_CardinalityType
<1>5. ASSUME NEW k \in others
      PROVE  Cardinality({i \in others : i < k}) = r[k] - 1
  <2>1. {i \in others : i < k} = Preceding(others, Less, k)
    <3>1. \A i \in others : <<i, k>> \in Less <=> i < k
          BY <1>2, LessOrders
    <3> QED BY <3>1 DEF Preceding
  <2>2. r[k] = Cardinality(Preceding(others, Less, k)) + 1
        BY DEF Rank
  <2>3. Preceding(others, Less, k) \in SUBSET others
        BY DEF Preceding
  <2>4. Cardinality(Preceding(others, Less, k)) \in Nat
    <3>1. IsFiniteSet(Preceding(others, Less, k))
          BY <2>3, <1>3, FS_Subset
    <3> QED BY <3>1, FS_CardinalityType
  <2>5. Cardinality(Preceding(others, Less, k)) = r[k] - 1
        BY <2>2, <2>4
  <2> QED BY <2>1, <2>5
<1>6. /\ \A k \in others : r[k] \in 1..Cardinality(others)
      /\ \A j, k \in others : r[j] = r[k] => j = k
      BY <1>4 DEF Bijection, Injection, IsInjective
<1>7. f \in Injection(first, 1..(OptionCount - 1))
  <2>1. ASSUME NEW k \in first
        PROVE  r[k] \in 1..(OptionCount - 1)
    <3>1. r[k] - 1 < OptionCount - 1 /\ r[k] \in 1..Cardinality(others)
          BY <1>5, <1>6
    <3> QED BY <3>1, <1>1, <1>4
  <2>2. f \in [first -> 1..(OptionCount - 1)]
        BY <2>1
  <2>3. IsInjective(f)
        BY <1>6 DEF IsInjective
  <2> QED BY <2>2, <2>3 DEF Injection
<1>8. /\ IsFiniteSet(first) /\ Cardinality(first) <= OptionCount - 1
      /\ Cardinality(first) \in Nat
  <2>1. OptionCount - 1 \in Nat
        BY <1>1
  <2>2. IsFiniteSet(1..(OptionCount - 1)) /\ Cardinality(1..(OptionCount - 1)) = OptionCount - 1
        BY <2>1, UpTo
  <2>3. IsFiniteSet(first) /\ Cardinality(first) <= Cardinality(1..(OptionCount - 1))
        BY <1>7, <2>2, FS_Injection
  <2> QED BY <2>2, <2>3, FS_CardinalityType
<1>9. D = {shuffled[j] : j \in first}
      BY DEF Distractors
<1>10. g \in Surjection(first, D)
      BY <1>9 DEF Surjection
<1>11. IsFiniteSet(D) /\ Cardinality(D) <= Cardinality(first)
      BY <1>8, <1>10, FS_Surjection
<1>12. Cardinality(D) \in Nat
      BY <1>11, FS_CardinalityType
<1>13. D \subseteq Words /\ \A x \in D : x.id # w.id
  <2> SUFFICES ASSUME NEW x \in D
               PROVE  x \in Words /\ x.id # w.id
      OBVIOUS
  <2>1. PICK j \in first : x = shuffled[j]
        BY <1>9
  <2>2. j \in DOMAIN shuffled /\ shuffled[j].id # w.id
        OBVIOUS
  <2> QED BY <2>1, <2>2
<1>14. Cardinality(D) <= OptionCount - 1
      BY <1>1, <1>8, <1>11, <1>12
<1> QED BY <1>11, <1>12, <1>13, <1>14

\* What VocabularyIsSound says of one question.
Sound(q, ws) ==
    /\ Cardinality(q.alternatives) <= OptionCount
    /\ \E a \in q.alternatives, w \in ToSet(ws) :
          /\ a.type = "ANSWER"
          /\ a.id = q.id /\ w.id = q.id
          /\ {q.value, a.value} = {w.word, w.translation}
          /\ \A b \in q.alternatives \ {a} : b.type = "OPTION" /\ b.id # q.id

\* A word makes a sound question.
LEMMA WordQuestionSound ==
    ASSUME words \in Seq(Words), NEW shuffled \in Seq(Words), NEW i \in DOMAIN words
    PROVE  WordQuestion(i, shuffled) \in Question /\ Sound(WordQuestion(i, shuffled), words)
<1>1. PICK w : w = words[i]
      OBVIOUS
<1>2. w \in Words /\ w \in Word /\ w \in ToSet(words)
      BY <1>1, QuizAssumption DEF ToSet
<1>3. PICK own \in BOOLEAN : own <=> i <= Len(words) \div 2
  <2>1. CASE i <= Len(words) \div 2
        BY <2>1, TRUE \in BOOLEAN
  <2>2. CASE ~(i <= Len(words) \div 2)
        BY <2>2, FALSE \in BOOLEAN
  <2> QED BY <2>1, <2>2
<1>4. PICK side : side = [x \in Words |-> IF own THEN x.translation ELSE x.word]
      OBVIOUS
<1>5. PICK D : D = Distractors(shuffled, w)
      OBVIOUS
<1>6. /\ D \subseteq Words /\ IsFiniteSet(D) /\ Cardinality(D) \in Nat
      /\ Cardinality(D) <= OptionCount - 1
      /\ \A x \in D : x.id # w.id
      BY <1>2, <1>5, DistractorsFew
<1>7. PICK a : a = [id |-> w.id, type |-> "ANSWER", value |-> side[w]]
      OBVIOUS
<1>8. PICK g : g = [x \in D |-> [id |-> x.id, type |-> "OPTION", value |-> side[x]]]
      OBVIOUS
<1>9. PICK os : os = {g[x] : x \in D}
      OBVIOUS
<1>10. PICK q : q = [id |-> w.id, value |-> IF own THEN w.word ELSE w.translation,
                     alternatives |-> {a} \cup os]
      OBVIOUS
<1>11. WordQuestion(i, shuffled) = q
  <2>1. side[w] = IF own THEN w.translation ELSE w.word
        BY <1>2, <1>4
  <2>2. os = {[id |-> x.id, type |-> "OPTION",
               value |-> IF own THEN x.translation ELSE x.word] : x \in D}
        BY <1>4, <1>6, <1>8, <1>9
  <2> QED BY <1>1, <1>3, <1>5, <1>7, <1>10, <2>1, <2>2 DEF WordQuestion
<1>12. \A x \in Words : side[x] \in Text /\ x.id \in Nat
  <2>1. \A x \in Words : x \in Word
        BY QuizAssumption
  <2> QED BY <1>4, <2>1 DEF Word
<1>13. a \in Alternative
       BY <1>2, <1>7, <1>12 DEF Alternative
<1>14. ASSUME NEW x \in D
       PROVE  /\ g[x] \in Alternative /\ g[x].type = "OPTION" /\ g[x].id # w.id
  <2>1. g[x] = [id |-> x.id, type |-> "OPTION", value |-> side[x]]
        BY <1>8
  <2>2. x \in Words /\ x.id # w.id
        BY <1>6
  <2> QED BY <2>1, <2>2, <1>12 DEF Alternative
<1>15. q \in Question
  <2>1. {a} \cup os \in SUBSET Alternative
        BY <1>9, <1>13, <1>14
  <2>2. w.id \in Nat /\ w.word \in Text /\ w.translation \in Text
        BY <1>2 DEF Word
  <2> QED BY <1>10, <2>1, <2>2 DEF Question
<1>16. Cardinality(q.alternatives) <= OptionCount
  <2>1. g \in Surjection(D, os)
        BY <1>8, <1>9 DEF Surjection
  <2>2. IsFiniteSet(os) /\ Cardinality(os) <= Cardinality(D)
        BY <1>6, <2>1, FS_Surjection
  <2>3. /\ Cardinality(os \cup {a}) = IF a \in os THEN Cardinality(os) ELSE Cardinality(os) + 1
        BY <2>2, FS_AddElement
  <2>4. Cardinality(os) \in Nat /\ OptionCount \in Nat
        BY <2>2, FS_CardinalityType, QuizAssumption
  <2>5. q.alternatives = os \cup {a}
        BY <1>10
  <2>6. Cardinality(q.alternatives) <= Cardinality(os) + 1
        BY <2>3, <2>4, <2>5
  <2>7. Cardinality(q.alternatives) \in Int
        BY <2>3, <2>4, <2>5
  <2> QED BY <1>6, <2>2, <2>4, <2>6, <2>7
<1>17. Sound(q, words)
  <2>1. a \in q.alternatives /\ q.id = w.id /\ q.alternatives = {a} \cup os
        BY <1>10
  <2>2. a.type = "ANSWER" /\ a.id = q.id /\ w.id = q.id
        BY <1>7, <1>10
  <2>3. {q.value, a.value} = {w.word, w.translation}
    <3>1. a.value = IF own THEN w.translation ELSE w.word
          BY <1>2, <1>4, <1>7
    <3>2. q.value = IF own THEN w.word ELSE w.translation
          BY <1>10
    <3> QED BY <3>1, <3>2
  <2>4. \A b \in q.alternatives \ {a} : b.type = "OPTION" /\ b.id # q.id
        BY <2>1, <1>9, <1>14
  <2> QED BY <1>2, <1>16, <2>1, <2>2, <2>3, <2>4 DEF Sound
<1> QED BY <1>11, <1>15, <1>17

-----------------------------------------------------------------------------
(* Counting answers, times and places *)

LEMMA CountsTyped ==
    ASSUME NEW m \in Row
    PROVE  /\ RightCount(m) \in Nat /\ RightCount(m) <= Len(m.answers)
           /\ WrongCount(m) \in Nat /\ Len(m.answers) \in Nat
           /\ TotalTime(m) \in Nat
<1> DEFINE n == Len(m.answers)
           right == {i \in DOMAIN m.answers : m.answers[i].isCorrect}
           f == [i \in 1..n |-> {i} \X Ticks(m.answers[i])]
           parts == {{i} \X Ticks(m.answers[i]) : i \in DOMAIN m.answers}
<1>1. n \in Nat /\ DOMAIN m.answers = 1..n
      BY DEF Row
<1>2. IsFiniteSet(1..n) /\ Cardinality(1..n) = n
      BY <1>1, UpTo
<1>3. right \in SUBSET (1..n)
      BY <1>1
<1>4. IsFiniteSet(right) /\ Cardinality(right) <= n
      BY <1>2, <1>3, FS_Subset
<1>5. RightCount(m) \in Nat /\ RightCount(m) <= n
      BY <1>4, FS_CardinalityType DEF RightCount
<1>6. WrongCount(m) \in Nat
      BY <1>1, <1>5 DEF WrongCount
<1>7. f \in Surjection(1..n, parts)
      BY <1>1 DEF Surjection
<1>8. IsFiniteSet(parts)
      BY <1>2, <1>7, FS_Surjection
<1>9. \A p \in parts : IsFiniteSet(p)
  <2> SUFFICES ASSUME NEW i \in DOMAIN m.answers
               PROVE  IsFiniteSet({i} \X Ticks(m.answers[i]))
      OBVIOUS
  <2>1. m.answers[i] \in Answer
        BY DEF Row
  <2>2. m.answers[i].time \in Nat
        BY <2>1 DEF Answer
  <2>3. IsFiniteSet(Ticks(m.answers[i]))
        BY <2>2, UpTo DEF Ticks
  <2>4. IsFiniteSet({i})
        BY FS_Singleton
  <2> QED BY <2>3, <2>4, FS_Product
<1>10. IsFiniteSet(UNION parts)
       BY <1>8, <1>9, FS_UNION
<1>11. TotalTime(m) \in Nat
       BY <1>10, FS_CardinalityType DEF TotalTime
<1> QED BY <1>1, <1>5, <1>6, <1>11

\* The place of a member: one more than those it comes after.
Place(es, id) == Cardinality({j \in DOMAIN es : Before(es, j, id)}) + 1

\* Members are placed from one on, no two in one place, in the order of Before.
LEMMA Places ==
    ASSUME NEW es \in [Members -> Row]
    PROVE  /\ \A id \in Members : Place(es, id) \in 1..Cardinality(Members)
           /\ \A i, j \in Members : Before(es, i, j) <=> Place(es, i) < Place(es, j)
           /\ [id \in Members |-> Place(es, id)] \in Bijection(Members, 1..Cardinality(Members))
<1> DEFINE R == {p \in Members \X Members : Before(es, p[1], p[2])}
<1>1. Members \subseteq Nat /\ IsFiniteSet(Members)
      BY QuizAssumption
<1>2. \A i, j \in Members : <<i, j>> \in R <=> Before(es, i, j)
      OBVIOUS
<1>3. \A i \in Members : RightCount(es[i]) \in Nat /\ TotalTime(es[i]) \in Nat /\ i \in Nat
      BY <1>1, CountsTyped
<1>4. \A i, j \in Members :
         Before(es, i, j) <=>
            \/ RightCount(es[i]) > RightCount(es[j])
            \/ /\ RightCount(es[i]) = RightCount(es[j])
               /\ \/ TotalTime(es[i]) < TotalTime(es[j])
                  \/ TotalTime(es[i]) = TotalTime(es[j]) /\ i < j
      BY DEF Before
<1>5. \A i \in Members : ~Before(es, i, i)
      BY <1>3, <1>4
<1>6. \A i, j, k \in Members : Before(es, i, j) /\ Before(es, j, k) => Before(es, i, k)
      BY <1>3, <1>4
<1>7. \A i, j \in Members : i # j => Before(es, i, j) \/ Before(es, j, i)
      BY <1>3, <1>4
<1>8. StrictOrder(Members, R)
      BY <1>2, <1>5, <1>6, <1>7 DEF StrictOrder
<1>9. /\ Rank(Members, R) \in Bijection(Members, 1..Cardinality(Members))
      /\ \A i, j \in Members : <<i, j>> \in R <=> Rank(Members, R)[i] < Rank(Members, R)[j]
      BY <1>1, <1>8, Ranking
<1>10. \A id \in Members : Rank(Members, R)[id] = Place(es, id)
  <2> SUFFICES ASSUME NEW id \in Members
               PROVE  Rank(Members, R)[id] = Place(es, id)
      OBVIOUS
  <2>1. Preceding(Members, R, id) = {j \in DOMAIN es : Before(es, j, id)}
        BY <1>2 DEF Preceding
  <2> QED BY <2>1 DEF Rank, Place
<1>11. Rank(Members, R) = [id \in Members |-> Place(es, id)]
       BY <1>10 DEF Rank
<1>12. \A id \in Members : Rank(Members, R)[id] \in 1..Cardinality(Members)
       BY <1>9 DEF Bijection, Injection
<1>13. \A id \in Members : Place(es, id) \in 1..Cardinality(Members)
       BY <1>10, <1>12
<1>14. \A i, j \in Members : Before(es, i, j) <=> Place(es, i) < Place(es, j)
  <2> SUFFICES ASSUME NEW i \in Members, NEW j \in Members
               PROVE  Before(es, i, j) <=> Place(es, i) < Place(es, j)
      OBVIOUS
  <2>1. <<i, j>> \in R <=> Rank(Members, R)[i] < Rank(Members, R)[j]
        BY <1>9
  <2> QED BY <2>1, <1>2, <1>10
<1> QED BY <1>9, <1>11, <1>13, <1>14

\* Rows with the same answers but for the points count the same.
Same(m, n) ==
    /\ Len(m.answers) = Len(n.answers)
    /\ DOMAIN m.answers = DOMAIN n.answers
    /\ \A i \in DOMAIN m.answers :
          /\ n.answers[i].question = m.answers[i].question
          /\ n.answers[i].text = m.answers[i].text
          /\ n.answers[i].values = m.answers[i].values
          /\ n.answers[i].time = m.answers[i].time
          /\ n.answers[i].isCorrect = m.answers[i].isCorrect

LEMMA SameCounts ==
    ASSUME NEW m \in Row, NEW n \in Row, Same(m, n)
    PROVE  /\ RightCount(n) = RightCount(m) /\ WrongCount(n) = WrongCount(m)
           /\ TotalTime(n) = TotalTime(m)
           /\ TooManyWrong(n) <=> TooManyWrong(m)
           /\ AnsweredIds(n) = AnsweredIds(m)
<1>1. {i \in DOMAIN n.answers : n.answers[i].isCorrect}
        = {i \in DOMAIN m.answers : m.answers[i].isCorrect}
      BY DEF Same
<1>2. RightCount(n) = RightCount(m)
      BY <1>1 DEF RightCount
<1>3. WrongCount(n) = WrongCount(m)
      BY <1>2 DEF WrongCount, Same
<1>4. \A i \in DOMAIN m.answers : Ticks(n.answers[i]) = Ticks(m.answers[i])
      BY DEF Ticks, Same
<1>5. {{i} \X Ticks(n.answers[i]) : i \in DOMAIN n.answers}
        = {{i} \X Ticks(m.answers[i]) : i \in DOMAIN m.answers}
      BY <1>4 DEF Same
<1>6. TotalTime(n) = TotalTime(m)
      BY <1>5 DEF TotalTime
<1>7. n.answers = <<>> <=> m.answers = <<>>
  <2>1. m.answers \in Seq(Answer) /\ n.answers \in Seq(Answer)
        BY DEF Row
  <2>2. m.answers = <<>> <=> Len(m.answers) = 0
        BY <2>1
  <2>3. n.answers = <<>> <=> Len(n.answers) = 0
        BY <2>1
  <2> QED BY <2>2, <2>3 DEF Same
<1>8. TooManyWrong(n) <=> TooManyWrong(m)
      BY <1>3, <1>7 DEF TooManyWrong, Same
<1>9. AnsweredIds(n) = AnsweredIds(m)
      BY DEF AnsweredIds, Same
<1> QED BY <1>2, <1>3, <1>6, <1>8, <1>9

-----------------------------------------------------------------------------
(* The results *)

LEMMA BonusTyped ==
    ASSUME NEW type \in {"P2P", "GROUP"}
    PROVE  /\ \A r \in Nat \ {0} : Bonus(type, r) \in Nat
           /\ \A r, s \in Nat \ {0} : r < s => Bonus(type, r) >= Bonus(type, s)
           /\ \A r \in Nat \ {0} : type = "P2P" => Bonus(type, r) = IF r = 1 THEN 50 ELSE 0
<1>1. <<120, 70, 50>>[1] = 120 /\ <<120, 70, 50>>[2] = 70 /\ <<120, 70, 50>>[3] = 50
      OBVIOUS
<1>2. \A r \in Nat \ {0} :
         Bonus(type, r) = IF type = "P2P" THEN IF r = 1 THEN 50 ELSE 0
                          ELSE IF r = 1 THEN 120 ELSE IF r = 2 THEN 70
                          ELSE IF r = 3 THEN 50 ELSE 0
  <2> SUFFICES ASSUME NEW r \in Nat \ {0}
               PROVE  Bonus(type, r) = IF type = "P2P" THEN IF r = 1 THEN 50 ELSE 0
                                       ELSE IF r = 1 THEN 120 ELSE IF r = 2 THEN 70
                                       ELSE IF r = 3 THEN 50 ELSE 0
      OBVIOUS
  <2>1. r = 1 \/ r = 2 \/ r = 3 \/ ~(r <= 3)
        OBVIOUS
  <2>2. CASE r = 1
        BY <1>1, <2>2 DEF Bonus
  <2>3. CASE r = 2
        BY <1>1, <2>3 DEF Bonus
  <2>4. CASE r = 3
        BY <1>1, <2>4 DEF Bonus
  <2>5. CASE ~(r <= 3)
        BY <2>5 DEF Bonus
  <2> QED BY <2>1, <2>2, <2>3, <2>4, <2>5
<1> QED BY <1>2

\* The right answers to a text are finitely many, and an order of them numbers them.
LEMMA EntriesFinite ==
    ASSUME NEW es \in [Members -> Row], NEW text
    PROVE  IsFiniteSet(Entries(es, text)) /\ Cardinality(Entries(es, text)) \in Nat
<1> DEFINE f == [id \in Members |-> {id} \X DOMAIN es[id].answers]
           parts == {{id} \X DOMAIN es[id].answers : id \in DOMAIN es}
<1>1. IsFiniteSet(Members)
      BY QuizAssumption
<1>2. f \in Surjection(Members, parts)
      BY DEF Surjection
<1>3. IsFiniteSet(parts)
      BY <1>1, <1>2, FS_Surjection
<1>4. \A p \in parts : IsFiniteSet(p)
  <2> SUFFICES ASSUME NEW id \in Members
               PROVE  IsFiniteSet({id} \X DOMAIN es[id].answers)
      OBVIOUS
  <2>1. Len(es[id].answers) \in Nat /\ DOMAIN es[id].answers = 1..Len(es[id].answers)
        BY DEF Row
  <2>2. IsFiniteSet(DOMAIN es[id].answers)
        BY <2>1, UpTo
  <2>3. IsFiniteSet({id})
        BY FS_Singleton
  <2> QED BY <2>2, <2>3, FS_Product
<1>5. IsFiniteSet(UNION parts)
      BY <1>3, <1>4, FS_UNION
<1>6. Entries(es, text) \in SUBSET UNION parts
      BY DEF Entries
<1>7. IsFiniteSet(Entries(es, text))
      BY <1>5, <1>6, FS_Subset
<1> QED BY <1>7, FS_CardinalityType

\* Which pairs are entries.
LEMMA EntriesAre ==
    ASSUME NEW es \in [Members -> Row], NEW text
    PROVE  /\ \A id \in Members : \A i \in DOMAIN es[id].answers :
                 <<id, i>> \in Entries(es, text) <=>
                    es[id].answers[i].isCorrect /\ es[id].answers[i].text = text
           /\ \A e \in Entries(es, text) :
                 /\ e[1] \in Members /\ e[2] \in DOMAIN es[e[1]].answers
                 /\ e = <<e[1], e[2]>>
<1> DEFINE parts == {{id} \X DOMAIN es[id].answers : id \in DOMAIN es}
<1>1. ASSUME NEW id \in Members, NEW i \in DOMAIN es[id].answers
      PROVE  <<id, i>> \in UNION parts
  <2>1. <<id, i>> \in {id} \X DOMAIN es[id].answers
        OBVIOUS
  <2> QED BY <2>1
<1>2. ASSUME NEW e \in UNION parts
      PROVE  /\ e[1] \in Members /\ e[2] \in DOMAIN es[e[1]].answers
             /\ e = <<e[1], e[2]>>
  <2>1. PICK id \in Members : e \in {id} \X DOMAIN es[id].answers
        OBVIOUS
  <2> QED BY <2>1
<1>3. ASSUME NEW id \in Members, NEW i \in DOMAIN es[id].answers
      PROVE  <<id, i>> \in Entries(es, text) <=>
                    es[id].answers[i].isCorrect /\ es[id].answers[i].text = text
  <2>1. <<id, i>> \in UNION parts
        BY <1>1
  <2>2. <<id, i>>[1] = id /\ <<id, i>>[2] = i
        OBVIOUS
  <2> QED BY <2>1, <2>2 DEF Entries
<1>4. Entries(es, text) \subseteq UNION parts
      BY DEF Entries
<1> QED BY <1>2, <1>3, <1>4

\* A sort of the right answers gives each a rank of its own, from one on.
LEMMA SortRanks ==
    ASSUME NEW es \in [Members -> Row], NEW text, NEW o \in SortedByTime(es, text)
    PROVE  /\ \A e \in Entries(es, text) : o[e] \in Nat \ {0}
           /\ \A d, e \in Entries(es, text) : TimeOf(es, d) < TimeOf(es, e) => o[d] < o[e]
           /\ \A d, e \in Entries(es, text) : o[d] = o[e] => d = e
           /\ Entries(es, text) # {} => \E e \in Entries(es, text) : o[e] = 1
<1>0. PICK E : E = Entries(es, text)
      OBVIOUS
<1>1. PICK n \in Nat : E = Entries(es, text) /\ IsFiniteSet(E) /\ n = Cardinality(E)
      BY <1>0, EntriesFinite
<1>2. /\ o \in [E -> 1..n] /\ IsInjective(o)
      /\ \A d, e \in E : TimeOf(es, d) < TimeOf(es, e) => o[d] < o[e]
      BY <1>1 DEF SortedByTime, AnyOrder
<1>3. o \in Injection(E, 1..n)
      BY <1>2 DEF Injection
<1>4. o \in Surjection(E, 1..n)
      BY <1>1, <1>3, UpTo, FS_Injection
<1>5. E # {} => \E e \in E : o[e] = 1
  <2> SUFFICES ASSUME E # {}
               PROVE  \E e \in E : o[e] = 1
      OBVIOUS
  <2>1. n # 0
        BY <1>1, FS_EmptySet
  <2>2. 1 \in 1..n
        BY <1>1, <2>1
  <2> QED BY <1>4, <2>2 DEF Surjection
<1>6. \A e \in E : o[e] \in Nat \ {0}
      BY <1>1, <1>2
<1> QED BY <1>1, <1>2, <1>5, <1>6 DEF IsInjective

\* The points of an answer after AddBonusPoints; o[text] is the order of its sort.
PointsGiven(type, es, o, id, i) ==
    LET a == es[id].answers[i] IN
    IF a.isCorrect THEN a.points + Bonus(type, o[a.text][<<id, i>>]) ELSE a.points

\* How the rows ms come out of the rows es.
Outcome(type, es, ms, o) ==
    /\ \A text \in Texts(es) : o[text] \in SortedByTime(es, text)
    /\ \A id \in Members :
          /\ ms[id].isFinished = es[id].isFinished
          /\ Same(es[id], ms[id])
          /\ \A i \in DOMAIN es[id].answers :
                ms[id].answers[i].points = PointsGiven(type, es, o, id, i)
          /\ ms[id].place = Place(es, id)
          /\ ms[id].points = Reward(es[id], Place(es, id), Cardinality(Members))

LEMMA TextIsThere ==
    ASSUME NEW es \in [Members -> Row], NEW id \in Members, NEW i \in DOMAIN es[id].answers
    PROVE  es[id].answers[i].text \in Texts(es)
BY DEF Texts

\* AddBonusPoints only adds to points.
LEMMA BonusGiven ==
    ASSUME NEW type \in {"P2P", "GROUP"}, NEW es \in [Members -> Row],
           NEW rows \in WithBonus(type, es)
    PROVE  /\ rows \in [Members -> Row]
           /\ \A id \in Members : Same(es[id], rows[id]) /\ rows[id].isFinished = es[id].isFinished
           /\ \E o : /\ \A text \in Texts(es) : o[text] \in SortedByTime(es, text)
                     /\ \A id \in Members : \A i \in DOMAIN es[id].answers :
                           rows[id].answers[i].points = PointsGiven(type, es, o, id, i)
<1>1. PICK o : /\ \A text \in Texts(es) : o[text] \in SortedByTime(es, text)
               /\ rows = [id \in DOMAIN es |->
                            [es[id] EXCEPT !.answers = AnswersWithBonus(type, es, o, id)]]
      BY DEF WithBonus
<1>2. ASSUME NEW id \in Members
      PROVE  /\ rows[id] \in Row /\ Same(es[id], rows[id])
             /\ rows[id].isFinished = es[id].isFinished
             /\ \A i \in DOMAIN es[id].answers :
                   rows[id].answers[i].points = PointsGiven(type, es, o, id, i)
  <2>1. PICK m \in Row : m = es[id]
        OBVIOUS
  <2>2. PICK as : as = AnswersWithBonus(type, es, o, id)
        OBVIOUS
  <2>3. rows[id] = [m EXCEPT !.answers = as]
        BY <1>1, <2>1, <2>2
  <2>4. Len(m.answers) \in Nat /\ DOMAIN m.answers = 1..Len(m.answers)
        BY DEF Row
  <2>5. ASSUME NEW i \in DOMAIN m.answers
        PROVE  /\ as[i] \in Answer
               /\ as[i].question = m.answers[i].question /\ as[i].text = m.answers[i].text
               /\ as[i].values = m.answers[i].values /\ as[i].time = m.answers[i].time
               /\ as[i].isCorrect = m.answers[i].isCorrect
               /\ as[i].points = PointsGiven(type, es, o, id, i)
    <3>1. PICK a \in Answer : a = m.answers[i]
          BY DEF Row
    <3>2. CASE ~a.isCorrect
          BY <2>1, <2>2, <3>1, <3>2 DEF PointsGiven, AnswersWithBonus
    <3>3. CASE a.isCorrect
      <4>1. PICK b : b = Bonus(type, o[a.text][<<id, i>>])
            OBVIOUS
      <4>2. as[i] = [a EXCEPT !.points = a.points + b]
            BY <2>1, <2>2, <3>1, <3>3, <4>1 DEF AnswersWithBonus
      <4>3. <<id, i>> \in Entries(es, a.text)
            BY <2>1, <3>1, <3>3, EntriesAre
      <4>4. o[a.text] \in SortedByTime(es, a.text)
            BY <1>1, <2>1, <3>1, TextIsThere
      <4>5. o[a.text][<<id, i>>] \in Nat \ {0}
            BY <4>3, <4>4, SortRanks
      <4>6. b \in Nat
            BY <4>1, <4>5, BonusTyped
      <4>7. a.points + b \in Nat
            BY <4>6 DEF Answer
      <4>8. as[i] \in Answer /\ as[i].points = a.points + b
            BY <4>2, <4>7 DEF Answer
      <4>9. PointsGiven(type, es, o, id, i) = a.points + b
            BY <2>1, <3>1, <3>3, <4>1 DEF PointsGiven
      <4>10. /\ as[i].question = a.question /\ as[i].text = a.text
             /\ as[i].values = a.values /\ as[i].time = a.time
             /\ as[i].isCorrect = a.isCorrect
            BY <4>2 DEF Answer
      <4> QED BY <3>1, <4>8, <4>9, <4>10
    <3> QED BY <3>2, <3>3
  <2>6. as \in Seq(Answer) /\ Len(as) = Len(m.answers) /\ DOMAIN as = DOMAIN m.answers
    <3>1. PICK k \in Nat : k = Len(m.answers)
          BY <2>4
    <3>2. as \in [1..k -> Answer]
          BY <2>1, <2>2, <2>4, <2>5, <3>1 DEF AnswersWithBonus
    <3>3. as \in Seq(Answer) /\ Len(as) = k /\ DOMAIN as = 1..k
          BY <3>2, FunctionIsSequence
    <3> QED BY <2>4, <3>1, <3>3
  <2>7. rows[id].answers = as /\ rows[id].isFinished = m.isFinished
        BY <2>3 DEF Row
  <2>8. rows[id] \in Row
        BY <2>3, <2>6 DEF Row
  <2> QED BY <2>1, <2>5, <2>6, <2>7, <2>8 DEF Same
<1>3. rows \in [Members -> Row]
      BY <1>1, <1>2
<1> QED BY <1>1, <1>2, <1>3

LEMMA RewardTyped ==
    ASSUME NEW m, NEW place \in Nat \ {0}, NEW count \in Nat
    PROVE  Reward(m, place, count) \in Nat
BY DEF Reward, RewardPoints

\* SumPointsAndSetPlacement places by the answers.
LEMMA Outcomes ==
    ASSUME NEW type \in {"P2P", "GROUP"}, NEW es \in [Members -> Row],
           NEW rows \in WithBonus(type, es)
    PROVE  /\ Ranked(rows) \in [Members -> Row]
           /\ \E o : Outcome(type, es, Ranked(rows), o)
<1>1. /\ rows \in [Members -> Row]
      /\ \A id \in Members : Same(es[id], rows[id]) /\ rows[id].isFinished = es[id].isFinished
      BY BonusGiven
<1>2. PICK o : /\ \A text \in Texts(es) : o[text] \in SortedByTime(es, text)
               /\ \A id \in Members : \A i \in DOMAIN es[id].answers :
                     rows[id].answers[i].points = PointsGiven(type, es, o, id, i)
      BY BonusGiven
<1>3. PICK count \in Nat : count = Cardinality(Members)
      BY QuizAssumption, FS_CardinalityType
<1>4. \A i \in Members : RightCount(rows[i]) = RightCount(es[i]) /\ TotalTime(rows[i]) = TotalTime(es[i])
      BY <1>1, SameCounts
<1>5. \A i, j \in Members : Before(rows, i, j) <=> Before(es, i, j)
      BY <1>4 DEF Before
<1>6. ASSUME NEW id \in Members
      PROVE  Place(rows, id) = Place(es, id)
  <2>1. {j \in DOMAIN rows : Before(rows, j, id)} = {j \in DOMAIN es : Before(es, j, id)}
        BY <1>1, <1>5
  <2> QED BY <2>1 DEF Place
<1>7. PICK ms : ms = Ranked(rows)
      OBVIOUS
<1>8. ms = [id \in Members |->
              [rows[id] EXCEPT !.place = Place(rows, id),
                               !.points = Reward(rows[id], Place(rows, id), count)]]
      BY <1>1, <1>3, <1>7 DEF Ranked, Place
<1>9. ASSUME NEW id \in Members
      PROVE  /\ ms[id] \in Row
             /\ ms[id].isFinished = es[id].isFinished
             /\ Same(es[id], ms[id])
             /\ \A i \in DOMAIN es[id].answers :
                   ms[id].answers[i].points = PointsGiven(type, es, o, id, i)
             /\ ms[id].place = Place(es, id)
             /\ ms[id].points = Reward(es[id], Place(es, id), count)
  <2>1. PICK p, r : p = Place(rows, id) /\ r = Reward(rows[id], Place(rows, id), count)
        OBVIOUS
  <2>2. ms[id] = [rows[id] EXCEPT !.place = p, !.points = r]
        BY <1>8, <2>1
  <2>3. rows[id] \in Row
        BY <1>1
  <2>4. p \in Nat \ {0}
    <3>1. Place(es, id) \in 1..Cardinality(Members)
          BY Places
    <3> QED BY <1>3, <1>6, <2>1, <3>1
  <2>5. r \in Nat
        BY <2>1, <2>4, RewardTyped
  <2>6. /\ ms[id] \in Row /\ ms[id].place = p /\ ms[id].points = r
        /\ ms[id].isFinished = rows[id].isFinished /\ ms[id].answers = rows[id].answers
        BY <2>2, <2>3, <2>4, <2>5 DEF Row
  <2>7. Same(es[id], ms[id])
        BY <1>1, <2>6 DEF Same
  <2>8. TooManyWrong(rows[id]) <=> TooManyWrong(es[id])
        BY <1>1, SameCounts
  <2>9. r = Reward(es[id], Place(es, id), count)
        BY <1>6, <2>1, <2>8 DEF Reward
  <2> QED BY <1>1, <1>2, <1>6, <2>1, <2>6, <2>7, <2>9
<1>10. ms \in [Members -> Row]
  <2>1. DOMAIN ms = Members /\ ms = [id \in Members |-> ms[id]]
        BY <1>8
  <2> QED BY <1>9, <2>1
<1>11. Outcome(type, es, ms, o)
       BY <1>2, <1>3, <1>9 DEF Outcome
<1> QED BY <1>7, <1>10, <1>11

-----------------------------------------------------------------------------
(* The inductive invariant *)

\* What has been drawn: no words but for vocabulary, and sound questions of them.
DrawInv ==
    /\ at \in {"template", "grammar"} => words = <<>>
    /\ Len(words) <= WordCount
    /\ at = "make" => words # <<>>
    /\ at \in {"play", "ended"} => questions # <<>>
    /\ at \in {"play", "ended"} /\ words # <<>> =>
          /\ Len(questions) <= WordCount
          /\ \A i \in DOMAIN questions : Sound(questions[i], words)

\* Nobody answers before the draw is over.
NotBegun == at \notin {"play", "ended"} => members = [id \in Members |-> NewMember]

PlayInv ==
    at = "play" => \A id \in Members : Fit(questions, members[id]) /\ Judged(questions, members[id])

\* The results are an outcome of rows that fit, all of them finished.
EndInv ==
    at = "ended" =>
        /\ \A id \in Members : /\ Fit(questions, ended[id]) /\ Judged(questions, ended[id])
                               /\ ended[id].isFinished
        /\ \E o : Outcome(battle.type, ended, members, o)

QuizInv == TypeOK /\ DrawInv /\ NotBegun /\ PlayInv /\ EndInv

\* A new member fits any questions.
LEMMA NewFits ==
    ASSUME NEW qs \in Seq(Question)
    PROVE  NewMember \in Row /\ Fit(qs, NewMember) /\ Judged(qs, NewMember)
<1>1. /\ NewMember.answers = <<>> /\ NewMember.isFinished = FALSE
      /\ NewMember \in Row
      BY DEF NewMember, Row
<1>2. Len(<<>>) = 0 /\ DOMAIN <<>> = {} /\ Len(qs) \in Nat
      OBVIOUS
<1>3. AnsweredIds(NewMember) = {}
      BY <1>1, <1>2 DEF AnsweredIds
<1>4. Once(NewMember) /\ Judged(qs, NewMember)
      BY <1>1, <1>2 DEF Once, Judged
<1>5. Len(NewMember.answers) <= Len(qs)
      BY <1>1, <1>2
<1> QED BY <1>1, <1>3, <1>4, <1>5 DEF Fit

LEMMA Begins == Init => QuizInv
<1> SUFFICES ASSUME Init PROVE QuizInv
    OBVIOUS
<1>1. members = [id \in Members |-> NewMember] /\ ended = members
      BY DEF Init
<1>2. <<>> \in Seq(Question) /\ <<>> \in Seq(Words) /\ Len(<<>>) = 0
      OBVIOUS
<1>3. NewMember \in Row
      BY <1>2, NewFits
<1>4. members \in [Members -> Row]
      BY <1>1, <1>3
<1>5. at = "template"
      BY DEF Init
<1>6. TypeOK
      BY <1>1, <1>2, <1>4, <1>5 DEF TypeOK, Init
<1>7. DrawInv
  <2>1. words = <<>> /\ WordCount \in Nat
        BY QuizAssumption DEF Init
  <2> QED BY <1>2, <1>5, <2>1 DEF DrawInv
<1>8. NotBegun /\ PlayInv /\ EndInv
      BY <1>1, <1>5 DEF NotBegun, PlayInv, EndInv
<1> QED BY <1>6, <1>7, <1>8 DEF QuizInv

\* What every step of the draw has in common.
LEMMA Undecided ==
    ASSUME QuizInv, at \notin {"play", "ended"}, UNCHANGED playVars, UNCHANGED battle,
           at' \in {"template", "grammar", "unit", "pack", "make", "none", "failed", "play"},
           used' \subseteq Units, unit' \subseteq Units, words' \in Seq(Words),
           questions' \in Seq(Question), DrawInv'
    PROVE  QuizInv'
<1>1. members = [id \in Members |-> NewMember] /\ members' = members /\ ended' = ended
      BY DEF QuizInv, NotBegun, playVars
<1>2. TypeOK'
      BY <1>1 DEF QuizInv, TypeOK
<1>3. NotBegun'
      BY <1>1 DEF NotBegun
<1>4. PlayInv'
      BY <1>1, NewFits DEF PlayInv
<1>5. EndInv'
      BY DEF EndInv
<1> QED BY <1>2, <1>3, <1>4, <1>5 DEF QuizInv

LEMMA DrawStep ==
    ASSUME QuizInv, Draw \/ QueryFails
    PROVE  QuizInv'
<1> USE DEF QuizInv
<1>1. /\ words \in Seq(Words) /\ questions \in Seq(Question)
      /\ used \subseteq Units /\ unit \subseteq Units
      /\ Len(words) \in Nat /\ Len(words) <= WordCount
      /\ WordCount \in Nat \ {0}
      BY QuizAssumption DEF TypeOK, DrawInv
<1>2. CASE QueryFails
  <2>1. DrawInv'
        BY <1>2 DEF QueryFails, DrawInv, drawVars
  <2> QED BY <1>1, <1>2, <2>1, Undecided DEF QueryFails, drawVars
<1>3. CASE FindJsonTemplate
  <2>1. PICK template \in Templates : template # <<>> /\ questions' = template
        BY <1>3 DEF FindJsonTemplate
  <2>2. questions' \in Seq(Question)
        BY <2>1, QuizAssumption
  <2>3. DrawInv'
        BY <1>3, <2>1 DEF FindJsonTemplate, DrawInv, drawVars
  <2> QED BY <1>1, <1>3, <2>2, <2>3, Undecided DEF FindJsonTemplate, drawVars
<1>4. CASE NoTemplate
  <2>1. at' \in {"grammar", "unit"}
        BY <1>4 DEF NoTemplate
  <2>2. DrawInv'
        BY <1>4, <2>1 DEF NoTemplate, DrawInv, drawVars
  <2> QED BY <1>1, <1>4, <2>1, <2>2, Undecided DEF NoTemplate, drawVars
<1>5. CASE FindGrammarQuestions
  <2>1. PICK qs \in Sample(Exercises, ExerciseCount) \cup {<<>>} :
            /\ questions' = qs
            /\ at' = IF qs = <<>> THEN "none" ELSE "play"
        BY <1>5 DEF FindGrammarQuestions
  <2>2. Exercises \in Seq(Question) /\ ExerciseCount \in Nat
        BY QuizAssumption
  <2>3. qs \in Seq(Question)
    <3>1. \A t \in Sample(Exercises, ExerciseCount) : t \in Seq(Question)
          BY <2>2, SampleKeeps
    <3>2. <<>> \in Seq(Question)
          OBVIOUS
    <3> QED BY <2>1, <3>1, <3>2
  <2>4. questions' \in Seq(Question)
        BY <2>1, <2>3
  <2>5. DrawInv'
        BY <1>5, <2>1 DEF FindGrammarQuestions, DrawInv, drawVars
  <2> QED BY <1>1, <1>5, <2>1, <2>4, <2>5, Undecided DEF FindGrammarQuestions, drawVars
<1>6. CASE RandomUnit
  <2>1. /\ at' = "pack" /\ words' = words /\ questions' = questions
        /\ used' \subseteq Units /\ unit' \subseteq Units
        BY <1>1, <1>6 DEF RandomUnit
  <2>2. DrawInv'
        BY <1>1, <2>1 DEF DrawInv
  <2> QED BY <1>1, <1>6, <2>1, <2>2, Undecided DEF RandomUnit
<1>7. CASE NoUnit
  <2>1. at' \in {"none", "make"} /\ (at' = "make" => words # <<>>)
        BY <1>7 DEF NoUnit
  <2>2. DrawInv'
        BY <1>1, <1>7, <2>1 DEF NoUnit, DrawInv, drawVars
  <2> QED BY <1>1, <1>7, <2>1, <2>2, Undecided DEF NoUnit, drawVars
<1>8. CASE UnitWords
  <2>0. PICK u \in unit : \E batch \in Sample(Pack[u], WordCount - Len(words)) :
                              words' = words \o batch
        BY <1>8 DEF UnitWords
  <2>1. PICK batch \in Sample(Pack[u], WordCount - Len(words)) : words' = words \o batch
        BY <2>0
  <2>2. Pack[u] \in Seq(Words) /\ WordCount - Len(words) \in Nat
        BY <1>1, QuizAssumption DEF Units
  <2>3. batch \in Seq(Words) /\ Len(batch) \in 0..(WordCount - Len(words))
        BY <2>2, SampleKeeps
  <2>4. PICK n \in Nat : n = Len(batch) /\ Len(words) + n <= WordCount
        BY <1>1, <2>3
  <2>6. words' \in Seq(Words) /\ Len(words') = Len(words) + n
    <3>1. PICK s \in Seq(Words), t \in Seq(Words) : s = words /\ t = batch
          BY <1>1, <2>3
    <3>2. s \o t \in Seq(Words) /\ Len(s \o t) = Len(s) + Len(t)
          BY <3>1, Joined
    <3> QED BY <2>1, <2>4, <3>1, <3>2
  <2>7. at' \in {"unit", "make"} /\ (at' = "make" => ~(Len(words') < WordCount))
        BY <1>8 DEF UnitWords
  <2>8. at' = "make" => words' # <<>>
    <3>1. Len(<<>>) = 0
          OBVIOUS
    <3> QED BY <1>1, <2>7, <3>1
  <2>9. DrawInv'
        BY <1>8, <2>4, <2>6, <2>7, <2>8 DEF UnitWords, DrawInv
  <2> QED BY <1>1, <1>8, <2>6, <2>7, <2>9, Undecided DEF UnitWords
<1>9. CASE MakeQuestions
  <2>1. PICK shuffled \in Shuffles(words) :
            questions' \in Shuffles([i \in DOMAIN words |-> WordQuestion(i, shuffled)])
        BY <1>9 DEF MakeQuestions
  <2>2. shuffled \in Seq(Words)
        BY <1>1, ShuffleKeeps
  <2>3. PICK qs : qs = [i \in DOMAIN words |-> WordQuestion(i, shuffled)]
        OBVIOUS
  <2>4. \A i \in DOMAIN words : qs[i] \in Question /\ Sound(qs[i], words)
        BY <1>1, <2>2, <2>3, WordQuestionSound
  <2>5. DOMAIN words = 1..Len(words)
        BY <1>1
  <2>6. qs \in [1..Len(words) -> Question]
        BY <2>3, <2>4, <2>5
  <2>7. qs \in Seq(Question) /\ Len(qs) = Len(words) /\ DOMAIN qs = DOMAIN words
        BY <1>1, <2>5, <2>6, FunctionIsSequence
  <2>8. /\ questions' \in Seq(Question) /\ Len(questions') = Len(words)
        /\ \A i \in DOMAIN questions' : \E j \in DOMAIN words : questions'[i] = qs[j]
        BY <2>1, <2>3, <2>7, ShuffleKeeps
  <2>9. words # <<>> /\ words' = words /\ at' = "play"
        BY <1>9 DEF MakeQuestions, DrawInv, drawVars
  <2>10. questions' # <<>>
    <3>1. Len(words) # 0 /\ Len(<<>>) = 0
          BY <1>1, <2>9
    <3> QED BY <2>8, <3>1
  <2>11. \A i \in DOMAIN questions' : Sound(questions'[i], words)
        BY <2>4, <2>8
  <2>12. DrawInv'
        BY <1>1, <2>8, <2>9, <2>10, <2>11 DEF DrawInv
  <2> QED BY <1>1, <1>9, <2>8, <2>9, <2>12, Undecided DEF MakeQuestions, drawVars
<1> QED BY <1>2, <1>3, <1>4, <1>5, <1>6, <1>7, <1>8, <1>9 DEF Draw

\* A step of one member in the battle.
LEMMA RowStep ==
    ASSUME QuizInv, at = "play", UNCHANGED <<battle, at, questions, drawVars, ended>>,
           NEW id \in Members, NEW m \in Row,
           members' = [members EXCEPT ![id] = m],
           Fit(questions, m), Judged(questions, m)
    PROVE  QuizInv'
<1>1. members \in [Members -> Row] /\ members' \in [Members -> Row]
      BY DEF QuizInv, TypeOK
<1>2. TypeOK'
      BY <1>1 DEF QuizInv, TypeOK, drawVars
<1>3. DrawInv'
      BY DEF QuizInv, DrawInv, drawVars
<1>4. NotBegun' /\ EndInv'
      BY DEF NotBegun, EndInv
<1>5. PlayInv'
      BY <1>1 DEF QuizInv, PlayInv
<1> QED BY <1>2, <1>3, <1>4, <1>5 DEF QuizInv

LEMMA AnswerStep ==
    ASSUME QuizInv, NEW id \in Members, AnswerQuestion(id)
    PROVE  QuizInv'
<1>1. /\ at = "play" /\ questions \in Seq(Question) /\ members[id] \in Row
      /\ Fit(questions, members[id]) /\ Judged(questions, members[id])
      /\ UNCHANGED <<battle, at, questions, drawVars, ended>>
      BY DEF QuizInv, TypeOK, PlayInv, AnswerQuestion
<1>2. PICK q \in QuestionIds, values \in Submitted, time \in Times :
          members' = [members EXCEPT ![id] =
                         ProcessAnswer(questions, members[id], q, values, time)]
      BY DEF AnswerQuestion
<1>4. values \in Seq(DOMAIN Fold) /\ time \in Nat /\ q \in Ids(questions)
      BY QuizAssumption DEF QuestionIds, Ids
<1>5. PICK m : m = ProcessAnswer(questions, members[id], q, values, time)
      OBVIOUS
<1>6. m \in Row /\ Fit(questions, m) /\ Judged(questions, m)
  <2>1. CASE q \in AnsweredIds(members[id])
        BY <1>1, <1>5, <2>1 DEF ProcessAnswer
  <2>2. CASE q \notin AnsweredIds(members[id])
    <3>1. m = WithAnswer(questions, members[id], q, values, time)
          BY <1>5, <2>2 DEF ProcessAnswer
    <3> QED BY <1>1, <1>4, <2>2, <3>1, AnswerFits
  <2> QED BY <2>1, <2>2
<1> QED BY <1>1, <1>2, <1>5, <1>6, RowStep

LEMMA BlankStep ==
    ASSUME QuizInv, NEW id \in Members, Blanked(id)
    PROVE  QuizInv'
<1>1. /\ at = "play" /\ questions \in Seq(Question) /\ members[id] \in Row
      /\ Fit(questions, members[id]) /\ Judged(questions, members[id])
      /\ UNCHANGED <<battle, at, questions, drawVars, ended>>
      BY DEF QuizInv, TypeOK, PlayInv, Blanked
<1>2. PICK m : m = FillBlanks(questions, members[id])
      OBVIOUS
<1>3. members' = [members EXCEPT ![id] = m]
      BY <1>2 DEF Blanked
<1>4. m \in Row /\ Fit(questions, m) /\ Judged(questions, m)
      BY <1>1, <1>2, BlanksFit
<1> QED BY <1>1, <1>3, <1>4, RowStep

LEMMA EndStep ==
    ASSUME QuizInv, EndBattle
    PROVE  QuizInv'
<1>1. /\ at = "play" /\ at' = "ended" /\ members \in [Members -> Row] /\ ended' = members
      /\ battle' = battle /\ questions' = questions /\ words' = words
      /\ used' = used /\ unit' = unit
      /\ \A id \in Members : members[id].isFinished
      BY DEF QuizInv, TypeOK, EndBattle, drawVars
<1>2. PICK rows \in WithBonus(battle.type, members) : members' = Ranked(rows)
      BY DEF EndBattle
<1>3. battle.type \in {"P2P", "GROUP"}
      BY DEF QuizInv, TypeOK
<1>4. members' \in [Members -> Row] /\ \E o : Outcome(battle.type, members, members', o)
      BY <1>1, <1>2, <1>3, Outcomes
<1>5. PICK o : Outcome(battle.type, members, members', o)
      BY <1>4
<1>6. \A id \in Members : members'[id].place \in 1..Cardinality(Members)
  <2>1. \A id \in Members : Place(members, id) \in 1..Cardinality(Members)
        BY <1>1, Places
  <2> QED BY <1>5, <2>1 DEF Outcome
<1>7. TypeOK'
      BY <1>1, <1>4, <1>6 DEF QuizInv, TypeOK
<1>8. DrawInv'
      BY <1>1 DEF QuizInv, DrawInv
<1>9. NotBegun' /\ PlayInv'
      BY <1>1 DEF NotBegun, PlayInv
<1>10. EndInv'
  <2>1. \A id \in Members : Fit(questions, members[id]) /\ Judged(questions, members[id])
        BY <1>1 DEF QuizInv, PlayInv
  <2> QED BY <1>1, <1>5, <2>1 DEF EndInv
<1> QED BY <1>7, <1>8, <1>9, <1>10 DEF QuizInv

LEMMA Continues == QuizInv /\ [Next]_vars => QuizInv'
<1> SUFFICES ASSUME QuizInv, [Next]_vars
             PROVE  QuizInv'
    OBVIOUS
<1>1. CASE Draw \/ QueryFails
      BY <1>1, DrawStep
<1>2. CASE \E id \in Members : AnswerQuestion(id) \/ Blanked(id)
      BY <1>2, AnswerStep, BlankStep
<1>3. CASE EndBattle
      BY <1>3, EndStep
<1>4. CASE UNCHANGED vars
      BY <1>4 DEF vars, QuizInv, TypeOK, DrawInv, NotBegun, PlayInv, EndInv
<1> QED BY <1>1, <1>2, <1>3, <1>4 DEF Next

LEMMA Always == Spec => []QuizInv
BY Begins, Continues, PTL DEF Spec

-----------------------------------------------------------------------------
(* What the code promises *)

\* Every variable keeps its type, and the places of the results are those of the
\* members, from one on (result.go:68).
THEOREM TypeCorrect == Spec => []TypeOK
<1>1. QuizInv => TypeOK
      BY DEF QuizInv
<1> QED BY <1>1, Always, PTL

\* Every vocabulary question is sound, whatever words were drawn
\* (question_reader.go:139).
THEOREM VocabularySound == Spec => []VocabularyIsSound
<1>1. QuizInv => VocabularyIsSound
      BY DEF QuizInv, DrawInv, VocabularyIsSound, Sound
<1> QED BY <1>1, Always, PTL

\* The answers of a member fit the questions until the end, and after it
\* (answer.go:97).
THEOREM AnswersKeepFitting == Spec => []AnswersFit
<1>1. QuizInv => AnswersFit
  <2> SUFFICES ASSUME QuizInv, NEW id \in Members
               PROVE  /\ Len(members[id].answers) <= Len(questions)
                      /\ members[id].isFinished => AnsweredIds(members[id]) = QuestionIds
      BY DEF AnswersFit
  <2>1. /\ questions \in Seq(Question) /\ members[id] \in Row /\ ended[id] \in Row
        /\ Ids(questions) = QuestionIds
        BY DEF QuizInv, TypeOK, QuestionIds, Ids
  <2>2. CASE at \notin {"play", "ended"}
    <3>1. members[id] = NewMember
          BY <2>2 DEF QuizInv, NotBegun
    <3> QED BY <2>1, <3>1, NewFits DEF Fit
  <2>3. CASE at = "play"
        BY <2>1, <2>3 DEF QuizInv, PlayInv, Fit
  <2>4. CASE at = "ended"
    <3>1. Fit(questions, ended[id])
          BY <2>4 DEF QuizInv, EndInv
    <3>2. Same(ended[id], members[id]) /\ members[id].isFinished = ended[id].isFinished
          BY <2>4 DEF QuizInv, EndInv, Outcome
    <3>3. Len(members[id].answers) = Len(ended[id].answers)
          BY <3>2 DEF Same
    <3>4. AnsweredIds(members[id]) = AnsweredIds(ended[id])
          BY <2>1, <3>2, SameCounts
    <3> QED BY <2>1, <3>1, <3>2, <3>3, <3>4 DEF Fit
  <2> QED BY <2>2, <2>3, <2>4
<1> QED BY <1>1, Always, PTL

\* An answer counts as right exactly when all of it is, where the right alternatives
\* of its question fold to different texts (answer.go:63).
THEOREM AnswersAreJudged == Spec => []CorrectMeansAllRight
<1>1. QuizInv => CorrectMeansAllRight
  <2> SUFFICES ASSUME QuizInv, NEW id \in Members, NEW i \in DOMAIN members[id].answers,
                      Unambiguous(FirstWithId(questions, members[id].answers[i].question))
               PROVE  LET a == members[id].answers[i]
                          q == FirstWithId(questions, a.question)
                      IN  a.isCorrect <=>
                             /\ a.values # <<>>
                             /\ \A v \in ToSet(a.values) :
                                   \E right \in RightValues(q) : Fold[right] = Fold[v]
      BY DEF CorrectMeansAllRight
  <2>1. PICK m \in Row : m = IF at = "ended" THEN ended[id] ELSE members[id]
        BY DEF QuizInv, TypeOK
  <2>2. Same(m, members[id])
    <3>1. CASE at = "ended"
          BY <2>1, <3>1 DEF QuizInv, EndInv, Outcome
    <3>2. CASE at # "ended"
          BY <2>1, <3>2 DEF Same
    <3> QED BY <3>1, <3>2
  <2>3. questions \in Seq(Question)
        BY DEF QuizInv, TypeOK
  <2>4. Judged(questions, m) /\ Fit(questions, m)
    <3>1. CASE at \notin {"play", "ended"}
      <4>1. m = NewMember
            BY <2>1, <3>1 DEF QuizInv, NotBegun
      <4> QED BY <2>3, <4>1, NewFits
    <3>2. CASE at = "play"
          BY <2>1, <3>2 DEF QuizInv, PlayInv
    <3>3. CASE at = "ended"
          BY <2>1, <3>3 DEF QuizInv, EndInv
    <3> QED BY <3>1, <3>2, <3>3
  <2>5. i \in DOMAIN m.answers
        BY <2>2 DEF Same
  <2>6. PICK a \in Answer : a = m.answers[i]
        BY <2>5 DEF Row
  <2>7. PICK q \in Question : q = FirstWithId(questions, a.question)
    <3>1. a.question \in Ids(questions)
          BY <2>4, <2>5, <2>6 DEF Fit, AnsweredIds
    <3>2. \E j \in DOMAIN questions : questions[j].id = a.question
          BY <3>1 DEF Ids
    <3> QED BY <2>3, <3>2, FirstIsQuestion
  <2>8. /\ members[id].answers[i].isCorrect = a.isCorrect
        /\ members[id].answers[i].values = a.values
        /\ members[id].answers[i].question = a.question
        BY <2>2, <2>5, <2>6 DEF Same
  <2>9. a.isCorrect <=> IsCorrect(q, a.values)
        BY <2>4, <2>5, <2>6, <2>7 DEF Judged
  <2>10. a.values \in Seq(DOMAIN Fold)
        BY DEF Answer
  <2>11. Unambiguous(q)
        BY <2>7, <2>8
  <2>12. IsCorrect(q, a.values) <=>
            /\ a.values # <<>>
            /\ \A v \in ToSet(a.values) : \E right \in RightValues(q) : Fold[right] = Fold[v]
        BY <2>10, <2>11, CorrectCounts
  <2> QED BY <2>7, <2>8, <2>9, <2>12
<1> QED BY <1>1, Always, PTL

\* A bonus goes to the fastest right answers (result.go:18).
THEOREM FastestGetTheBonus == Spec => []BonusGoesToTheFastest
<1>1. QuizInv => BonusGoesToTheFastest
  <2> SUFFICES ASSUME QuizInv, at = "ended"
               PROVE  BonusGoesToTheFastest
      BY DEF BonusGoesToTheFastest
  <2>1. PICK es \in [Members -> Row], ms \in [Members -> Row], type \in {"P2P", "GROUP"} :
            es = ended /\ ms = members /\ type = battle.type
        BY DEF QuizInv, TypeOK
  <2>2. PICK o : Outcome(type, es, ms, o)
        BY <2>1 DEF QuizInv, EndInv
  <2>3. \A id \in Members : Same(es[id], ms[id]) /\ Judged(questions, es[id])
        BY <2>1, <2>2 DEF QuizInv, EndInv, Outcome
  <2>4. ASSUME NEW id \in Members, NEW i \in DOMAIN ms[id].answers
        PROVE  /\ i \in DOMAIN es[id].answers
               /\ ms[id].answers[i].text = es[id].answers[i].text
               /\ ms[id].answers[i].time = es[id].answers[i].time
               /\ ms[id].answers[i].isCorrect = es[id].answers[i].isCorrect
               /\ ms[id].answers[i].points = PointsGiven(type, es, o, id, i)
               /\ es[id].answers[i].points =
                    IF es[id].answers[i].isCorrect THEN BaseAnswerPoints ELSE 0
    <3>1. Same(es[id], ms[id]) /\ Judged(questions, es[id])
          BY <2>3
    <3>2. i \in DOMAIN es[id].answers
          BY <3>1 DEF Same
    <3> QED BY <2>2, <3>1, <3>2 DEF Same, Judged, Outcome
  <2>5. ASSUME NEW text
        PROVE  Entries(ms, text) = Entries(es, text)
    <3>1. ASSUME NEW e
          PROVE  e \in Entries(ms, text) <=> e \in Entries(es, text)
      <4>1. ASSUME e \in Entries(ms, text)
            PROVE  e \in Entries(es, text)
        <5>1. /\ e[1] \in Members /\ e[2] \in DOMAIN ms[e[1]].answers
              /\ e = <<e[1], e[2]>>
              BY <4>1, EntriesAre
        <5>2. PICK id \in Members : id = e[1]
              BY <5>1
        <5>10. PICK i \in DOMAIN ms[id].answers : i = e[2]
              BY <5>1, <5>2
        <5>3. ms[id].answers[i].isCorrect /\ ms[id].answers[i].text = text
              BY <4>1, <5>1, <5>2, <5>10, EntriesAre
        <5> QED BY <2>4, <5>1, <5>2, <5>10, <5>3, EntriesAre
      <4>2. ASSUME e \in Entries(es, text)
            PROVE  e \in Entries(ms, text)
        <5>1. /\ e[1] \in Members /\ e[2] \in DOMAIN es[e[1]].answers
              /\ e = <<e[1], e[2]>>
              BY <4>2, EntriesAre
        <5>2. PICK id \in Members : id = e[1]
              BY <5>1
        <5>10. PICK i \in DOMAIN es[id].answers : i = e[2]
              BY <5>1, <5>2
        <5>3. es[id].answers[i].isCorrect /\ es[id].answers[i].text = text
              BY <4>2, <5>1, <5>2, <5>10, EntriesAre
        <5>4. i \in DOMAIN ms[id].answers
              BY <2>3, <5>10 DEF Same
        <5> QED BY <2>4, <5>1, <5>2, <5>10, <5>3, <5>4, EntriesAre
      <4> QED BY <4>1, <4>2
    <3> QED BY <3>1
  <2>6. ASSUME NEW text \in Texts(ms)
        PROVE  o[text] \in SortedByTime(es, text)
    <3>0. PICK id \in Members : \E i \in DOMAIN ms[id].answers : text = ms[id].answers[i].text
          BY DEF Texts
    <3>1. PICK i \in DOMAIN ms[id].answers : text = ms[id].answers[i].text
          BY <3>0
    <3>2. i \in DOMAIN es[id].answers /\ text = es[id].answers[i].text
          BY <2>4, <3>1
    <3>3. text \in Texts(es)
          BY <3>2, TextIsThere
    <3> QED BY <2>2, <3>3 DEF Outcome
  <2>7. ASSUME NEW text, NEW e \in Entries(es, text)
        PROVE  /\ BonusOf(ms[e[1]].answers[e[2]]) = Bonus(type, o[text][e])
               /\ TimeOf(ms, e) = TimeOf(es, e)
    <3>1. /\ e[1] \in Members /\ e[2] \in DOMAIN es[e[1]].answers
          /\ e = <<e[1], e[2]>>
          BY EntriesAre
    <3>2. PICK id \in Members : id = e[1]
          BY <3>1
    <3>12. PICK i \in DOMAIN es[id].answers : i = e[2]
          BY <3>1, <3>2
    <3>3. PICK a, b : a = es[id].answers[i] /\ b = ms[id].answers[i]
          OBVIOUS
    <3>4. a.isCorrect /\ a.text = text
          BY <3>1, <3>2, <3>12, <3>3, EntriesAre
    <3>5. i \in DOMAIN ms[id].answers
          BY <2>3, <3>12 DEF Same
    <3>6. /\ b.isCorrect = a.isCorrect /\ b.time = a.time
          /\ b.points = PointsGiven(type, es, o, id, i) /\ a.points = 500
          BY <2>4, <3>3, <3>4, <3>5 DEF BaseAnswerPoints
    <3>7. PICK x : x = Bonus(type, o[text][e])
          OBVIOUS
    <3>8. x \in Nat
      <4>1. text \in Texts(ms)
        <5>1. b.text = text
              BY <2>4, <3>3, <3>4, <3>5
        <5> QED BY <3>3, <3>5, <5>1, TextIsThere
      <4>2. o[text] \in SortedByTime(es, text)
            BY <2>6, <4>1
      <4>3. o[text][e] \in Nat \ {0}
            BY <4>2, SortRanks
      <4> QED BY <3>7, <4>3, BonusTyped
    <3>9. b.points = 500 + x
          BY <3>1, <3>2, <3>12, <3>3, <3>4, <3>6, <3>7 DEF PointsGiven
    <3>10. BonusOf(b) = b.points - 500
          BY <3>4, <3>6 DEF BonusOf, BaseAnswerPoints
    <3>11. BonusOf(b) = x
          BY <3>8, <3>9, <3>10
    <3> QED BY <3>2, <3>12, <3>3, <3>6, <3>7, <3>11 DEF TimeOf
  <2>8. ASSUME NEW text \in Texts(ms)
        PROVE  LET E == Entries(ms, text)
                   bonus(e) == BonusOf(ms[e[1]].answers[e[2]])
               IN  /\ \A d, e \in E : TimeOf(ms, d) < TimeOf(ms, e) => bonus(d) >= bonus(e)
                   /\ type = "P2P" /\ E # {} =>
                         \E e \in E : bonus(e) = 50 /\ \A d \in E \ {e} : bonus(d) = 0
    <3>1. PICK E : E = Entries(es, text) /\ E = Entries(ms, text)
          BY <2>5
    <3>2. PICK r \in SortedByTime(es, text) : r = o[text]
          BY <2>6
    <3>3. /\ \A e \in E : r[e] \in Nat \ {0}
          /\ \A d, e \in E : TimeOf(es, d) < TimeOf(es, e) => r[d] < r[e]
          /\ \A d, e \in E : r[d] = r[e] => d = e
          /\ E # {} => \E e \in E : r[e] = 1
      <4>1. /\ \A e \in Entries(es, text) : r[e] \in Nat \ {0}
            /\ \A d, e \in Entries(es, text) : TimeOf(es, d) < TimeOf(es, e) => r[d] < r[e]
            /\ \A d, e \in Entries(es, text) : r[d] = r[e] => d = e
            /\ Entries(es, text) # {} => \E e \in Entries(es, text) : r[e] = 1
            BY SortRanks
      <4> QED BY <3>1, <4>1, Zenon
    <3>4. \A e \in E : /\ BonusOf(ms[e[1]].answers[e[2]]) = Bonus(type, r[e])
                       /\ TimeOf(ms, e) = TimeOf(es, e)
          BY <2>7, <3>1, <3>2
    <3>5. ASSUME NEW d \in E, NEW e \in E, TimeOf(ms, d) < TimeOf(ms, e)
          PROVE  BonusOf(ms[d[1]].answers[d[2]]) >= BonusOf(ms[e[1]].answers[e[2]])
      <4>1. r[d] < r[e] /\ r[d] \in Nat \ {0} /\ r[e] \in Nat \ {0}
            BY <3>3, <3>4, <3>5
      <4>2. Bonus(type, r[d]) >= Bonus(type, r[e])
            BY <4>1, BonusTyped
      <4> QED BY <3>4, <4>2
    <3>6. ASSUME type = "P2P", E # {}
          PROVE  \E e \in E : /\ BonusOf(ms[e[1]].answers[e[2]]) = 50
                              /\ \A d \in E \ {e} : BonusOf(ms[d[1]].answers[d[2]]) = 0
      <4>1. PICK e \in E : r[e] = 1
            BY <3>3, <3>6
      <4>2. Bonus(type, r[e]) = 50
            BY <3>3, <3>6, <4>1, BonusTyped
      <4>3. ASSUME NEW d \in E \ {e}
            PROVE  Bonus(type, r[d]) = 0
        <5>1. r[d] \in Nat \ {0} /\ r[d] # 1
              BY <3>3, <4>1
        <5> QED BY <3>6, <5>1, BonusTyped
      <4> QED BY <3>4, <4>2, <4>3
    <3> QED BY <3>1, <3>5, <3>6
  <2>9. ASSUME NEW id \in Members, NEW i \in DOMAIN ms[id].answers,
               ~ms[id].answers[i].isCorrect
        PROVE  ms[id].answers[i].points = 0
    <3>1. ~es[id].answers[i].isCorrect /\ es[id].answers[i].points = 0
          BY <2>4, <2>9
    <3> QED BY <2>4, <3>1 DEF PointsGiven
  <2> QED BY <2>1, <2>8, <2>9 DEF BonusGoesToTheFastest
<1> QED BY <1>1, Always, PTL

\* A battle has two members, or four (models/battle.go: BattleMemberCount).
FewMembers == Cardinality(Members) \in 1..5

\* Of fewer than six members only the first gets points, and never with more answers
\* wrong than right; nobody gets any only when the first has no more right than wrong
\* (result.go:65, 87).
THEOREM RewardsEarned == FewMembers /\ Spec => []RewardsAreEarned
<1>1. FewMembers /\ QuizInv => RewardsAreEarned
  <2> SUFFICES ASSUME FewMembers, QuizInv, at = "ended"
               PROVE  RewardsAreEarned
      BY DEF RewardsAreEarned
  <2>1. PICK es \in [Members -> Row], ms \in [Members -> Row], type \in {"P2P", "GROUP"} :
            es = ended /\ ms = members /\ type = battle.type
        BY DEF QuizInv, TypeOK
  <2>2. PICK o : Outcome(type, es, ms, o)
        BY <2>1 DEF QuizInv, EndInv
  <2>3. PICK n \in 1..5 : n = Cardinality(Members)
        BY DEF FewMembers
  <2>4. ASSUME NEW id \in Members
        PROVE  /\ RightCount(ms[id]) = RightCount(es[id]) /\ WrongCount(ms[id]) = WrongCount(es[id])
               /\ RightCount(es[id]) \in Nat /\ WrongCount(es[id]) \in Nat
               /\ RightCount(es[id]) + WrongCount(es[id]) = Len(es[id].answers)
               /\ es[id].answers # <<>>
               /\ Place(es, id) \in 1..n
               /\ ms[id].points = Reward(es[id], Place(es, id), n)
    <3>1. Same(es[id], ms[id]) /\ ms[id].points = Reward(es[id], Place(es, id), n)
          BY <2>2, <2>3 DEF Outcome
    <3>2. RightCount(ms[id]) = RightCount(es[id]) /\ WrongCount(ms[id]) = WrongCount(es[id])
          BY <3>1, SameCounts
    <3>3. /\ RightCount(es[id]) \in Nat /\ WrongCount(es[id]) \in Nat
          /\ Len(es[id].answers) \in Nat
          BY CountsTyped
    <3>4. RightCount(es[id]) + WrongCount(es[id]) = Len(es[id].answers)
          BY <3>3 DEF WrongCount
    <3>5. es[id].answers # <<>>
      <4>1. AnsweredIds(es[id]) = Ids(questions)
            BY <2>1 DEF QuizInv, EndInv, Fit
      <4>2. questions # <<>> /\ questions \in Seq(Question)
            BY DEF QuizInv, DrawInv, TypeOK
      <4>3. 1 \in DOMAIN questions
            BY <4>2
      <4>4. AnsweredIds(es[id]) # {}
            BY <4>1, <4>3 DEF Ids
      <4>5. DOMAIN <<>> = {}
            OBVIOUS
      <4> QED BY <4>4, <4>5 DEF AnsweredIds
    <3>6. Place(es, id) \in 1..n
          BY <2>3, Places
    <3> QED BY <3>1, <3>2, <3>3, <3>4, <3>5, <3>6
  <2>5. ASSUME NEW id \in Members
        PROVE  ms[id].points = IF Place(es, id) = 1 /\ RightCount(es[id]) > WrongCount(es[id])
                                 THEN 1 ELSE 0
    <3>1. TooManyWrong(es[id]) <=> ~(RightCount(es[id]) > WrongCount(es[id]))
          BY <2>4 DEF TooManyWrong
    <3>2. Reward(es[id], Place(es, id), n) =
            IF TooManyWrong(es[id]) THEN 0 ELSE IF Place(es, id) = 1 THEN 1 ELSE 0
          BY DEF Reward, RewardPoints
    <3> QED BY <2>4, <3>1, <3>2
  <2>6. ASSUME NEW id \in Members, Place(es, id) = 1, NEW j \in Members
        PROVE  RightCount(es[j]) <= RightCount(es[id])
    <3>1. ~Before(es, j, id)
      <4>1. Place(es, j) \in 1..n /\ Place(es, j) \in Int
            BY <2>4
      <4>2. ~(Place(es, j) < Place(es, id))
            BY <2>6, <4>1
      <4> QED BY <4>2, Places
    <3> QED BY <2>4, <3>1 DEF Before
  <2>7. PICK first \in Members : Place(es, first) = 1
    <3>1. [id \in Members |-> Place(es, id)] \in Surjection(Members, 1..n)
          BY <2>3, Places DEF Bijection
    <3>2. 1 \in 1..n
          OBVIOUS
    <3> QED BY <3>1, <3>2 DEF Surjection
  <2>8. \A i, j \in Members : Place(es, i) = Place(es, j) => i = j
    <3>1. [id \in Members |-> Place(es, id)] \in Injection(Members, 1..n)
          BY <2>3, Places DEF Bijection
    <3> QED BY <3>1 DEF Injection, IsInjective
  <2>9. ASSUME NEW id \in Members, ms[id].points > 0
        PROVE  /\ RightCount(ms[id]) >= WrongCount(ms[id])
               /\ \A j \in Members \ {id} : /\ RightCount(ms[j]) <= RightCount(ms[id])
                                            /\ ms[j].points = 0
    <3>1. Place(es, id) = 1 /\ RightCount(es[id]) > WrongCount(es[id])
          BY <2>5, <2>9
    <3>2. \A j \in Members \ {id} : Place(es, j) # 1
          BY <2>8, <3>1
    <3> QED BY <2>4, <2>5, <2>6, <3>1, <3>2
  <2>10. ASSUME \A id \in Members : ms[id].points = 0
         PROVE  \E id \in Members : /\ RightCount(ms[id]) <= WrongCount(ms[id])
                                    /\ \A j \in Members : RightCount(ms[j]) <= RightCount(ms[id])
    <3>1. ~(RightCount(es[first]) > WrongCount(es[first]))
          BY <2>5, <2>7, <2>10
    <3>2. RightCount(ms[first]) <= WrongCount(ms[first])
          BY <2>4, <3>1
    <3>3. \A j \in Members : RightCount(ms[j]) <= RightCount(ms[first])
          BY <2>4, <2>6, <2>7
    <3> QED BY <3>2, <3>3
  <2> QED BY <2>1, <2>9, <2>10 DEF RewardsAreEarned
<1>2. FewMembers => FewMembers'
      BY DEF FewMembers
<1>3. FewMembers /\ Spec => []FewMembers
  <2>1. FewMembers /\ [Next]_vars => FewMembers'
        BY <1>2
  <2> QED BY <2>1, PTL DEF Spec
<1> QED BY <1>1, <1>3, Always, PTL

-----------------------------------------------------------------------------
(* The results as BattleModels abstracts them *)

\* The instance counts sets as this module does.
LEMMA SameCardinality == \A S : Models!Cardinality(S) = Cardinality(S)
BY Zenon DEF Models!Cardinality, Cardinality

\* Answers to different questions are as many when times and points are left out.
LEMMA AbstractCounts ==
    ASSUME NEW m \in Row, Once(m), NEW D \in SUBSET DOMAIN m.answers,
           NEW T, T = {[question |-> m.answers[i].question,
                        isCorrect |-> m.answers[i].isCorrect] : i \in D}
    PROVE  Cardinality(T) = Cardinality(D)
<1> DEFINE f == [i \in D |-> [question |-> m.answers[i].question,
                              isCorrect |-> m.answers[i].isCorrect]]
<1>1. Len(m.answers) \in Nat /\ DOMAIN m.answers = 1..Len(m.answers)
      BY DEF Row
<1>2. IsFiniteSet(D)
  <2>1. IsFiniteSet(DOMAIN m.answers)
        BY <1>1, UpTo
  <2> QED BY <2>1, FS_Subset
<1>3. f \in Surjection(D, T)
      BY DEF Surjection
<1>4. f \in Injection(D, T)
  <2>1. f \in [D -> T]
        BY <1>3 DEF Surjection
  <2>2. ASSUME NEW i \in D, NEW j \in D, f[i] = f[j]
        PROVE  i = j
    <3>1. f[i].question = f[j].question
          BY <2>2
    <3>2. m.answers[i].question = m.answers[j].question
          BY <3>1
    <3> QED BY <3>2 DEF Once
  <2> QED BY <2>1, <2>2 DEF Injection, IsInjective
<1>5. f \in Bijection(D, T)
      BY <1>3, <1>4 DEF Bijection
<1> QED BY <1>2, <1>5, FS_Bijection DEF ExistsBijection

\* BattleModels counts the answers of an abstract row as QuizRules does.
LEMMA AbstractRules ==
    ASSUME NEW es \in [Members -> Row], NEW id \in Members, Once(es[id])
    PROVE  LET m == AbstractRow(es, id) IN
           /\ Models!CorrectCount(m) = RightCount(es[id])
           /\ Models!TooManyWrong(m) <=> TooManyWrong(es[id])
<1>1. PICK e \in Row : e = es[id]
      OBVIOUS
<1> DEFINE abs(i) == [question |-> e.answers[i].question, isCorrect |-> e.answers[i].isCorrect]
<1>0. PICK right, wrong :
          /\ right = {i \in DOMAIN e.answers : e.answers[i].isCorrect}
          /\ wrong = DOMAIN e.answers \ right
      OBVIOUS
<1>2. PICK m : m = AbstractRow(es, id)
      OBVIOUS
<1>3. m.answers = {abs(i) : i \in DOMAIN e.answers}
      BY <1>1, <1>2 DEF AbstractRow
<1>4. Len(e.answers) \in Nat /\ DOMAIN e.answers = 1..Len(e.answers)
      BY DEF Row
<1>5. IsFiniteSet(DOMAIN e.answers) /\ Cardinality(DOMAIN e.answers) = Len(e.answers)
      BY <1>4, UpTo
<1>6. {a \in m.answers : a.isCorrect} = {abs(i) : i \in right}
      BY <1>0, <1>3
<1>7. {a \in m.answers : ~a.isCorrect} = {abs(i) : i \in wrong}
      BY <1>0, <1>3
<1>8. Cardinality({abs(i) : i \in right}) = Cardinality(right)
      BY <1>0, <1>1, AbstractCounts
<1>9. Cardinality({abs(i) : i \in wrong}) = Cardinality(wrong)
      BY <1>0, <1>1, AbstractCounts
<1>10. Cardinality({abs(i) : i \in DOMAIN e.answers}) = Len(e.answers)
       BY <1>1, <1>5, AbstractCounts
<1>11. Cardinality(wrong) = Len(e.answers) - Cardinality(right)
  <2>1. DOMAIN e.answers \cap right = right
        BY <1>0
  <2>2. Cardinality(DOMAIN e.answers \ right) =
          Cardinality(DOMAIN e.answers) - Cardinality(DOMAIN e.answers \cap right)
        BY <1>5, FS_Difference
  <2> QED BY <1>0, <1>5, <2>1, <2>2
<1>12. Cardinality(right) = RightCount(e) /\ Cardinality(wrong) = WrongCount(e)
       BY <1>0, <1>11 DEF RightCount, WrongCount
<1>13. m.answers # {} <=> e.answers # <<>>
  <2>1. e.answers = <<>> <=> DOMAIN e.answers = {}
    <3>1. e.answers \in Seq(Answer)
          BY DEF Row
    <3>2. e.answers = <<>> <=> Len(e.answers) = 0
          BY <3>1
    <3>3. Len(e.answers) = 0 <=> DOMAIN e.answers = {}
          BY <1>5, FS_EmptySet
    <3> QED BY <3>2, <3>3
  <2> QED BY <1>3, <2>1
<1>14. Models!CorrectCount(m) = RightCount(e)
  <2>1. Models!CorrectCount(m) = Cardinality({a \in m.answers : a.isCorrect})
        BY SameCardinality, Zenon DEF Models!CorrectCount
  <2> QED BY <2>1, <1>6, <1>8, <1>12
<1>15. Models!TooManyWrong(m) <=> TooManyWrong(e)
  <2>1. Cardinality({a \in m.answers : ~a.isCorrect}) = WrongCount(e)
        BY <1>7, <1>9, <1>12
  <2>2. Cardinality(m.answers) = Len(e.answers)
        BY <1>3, <1>10
  <2>3. WrongCount(e) \in Nat
        BY CountsTyped
  <2>4. Models!TooManyWrong(m) <=>
          /\ m.answers # {}
          /\ 2 * Cardinality({a \in m.answers : ~a.isCorrect}) >= Cardinality(m.answers)
        BY SameCardinality, Zenon DEF Models!TooManyWrong
  <2> HIDE DEF abs
  <2> QED BY <1>4, <1>13, <2>1, <2>2, <2>3, <2>4 DEF TooManyWrong
<1> QED BY <1>1, <1>2, <1>14, <1>15

LEMMA AbstractRewards ==
    \A place, count : Models!RewardPoints(place, count) = RewardPoints(place, count)
BY Zenon DEF Models!RewardPoints, RewardPoints

\* The results are ones BattleModels allows, where no word was drawn twice.
THEOREM ResultsAreModelled == Spec => []ResultsRefineModels
<1>1. QuizInv => ResultsRefineModels
  <2> SUFFICES ASSUME QuizInv, at = "ended", Cardinality(QuestionIds) = Len(questions)
               PROVE  AbstractRows(members) \in Models!RankedMembers(AbstractRows(ended))
      BY DEF ResultsRefineModels
  <2>1. PICK es \in [Members -> Row], ms \in [Members -> Row], type \in {"P2P", "GROUP"} :
            es = ended /\ ms = members /\ type = battle.type
        BY DEF QuizInv, TypeOK
  <2>2. PICK o : Outcome(type, es, ms, o)
        BY <2>1 DEF QuizInv, EndInv
  <2>3. PICK n \in Nat : n = Cardinality(Members)
        BY QuizAssumption, FS_CardinalityType
  <2>4. ASSUME NEW id \in Members
        PROVE  Once(es[id])
    <3>1. Fit(questions, es[id]) /\ es[id].isFinished
          BY <2>1 DEF QuizInv, EndInv
    <3>2. AnsweredIds(es[id]) = QuestionIds
          BY <3>1 DEF Fit, Ids, QuestionIds
    <3>3. /\ Cardinality(AnsweredIds(es[id])) \in Nat
          /\ Cardinality(AnsweredIds(es[id])) <= Len(es[id].answers)
          /\ Cardinality(AnsweredIds(es[id])) = Len(es[id].answers) <=> Once(es[id])
          BY OnceCounts
    <3>4. Len(es[id].answers) <= Cardinality(AnsweredIds(es[id]))
          BY <3>1, <3>2 DEF Fit
    <3>5. Len(es[id].answers) \in Nat
          BY CountsTyped
    <3> QED BY <3>3, <3>4, <3>5
  <2>5. PICK A : A = AbstractRows(es)
        OBVIOUS
  <2>6. \A id \in Members : AbstractRow(es, id) \in A /\ AbstractRow(es, id).id = id
        BY <2>5 DEF AbstractRows, AbstractRow
  <2>7. \A r \in A : r.id \in Members /\ r = AbstractRow(es, r.id)
        BY <2>5 DEF AbstractRows, AbstractRow
  <2>8. Cardinality(A) = n /\ IsFiniteSet(A)
    <3> DEFINE f == [id \in Members |-> AbstractRow(es, id)]
    <3>1. f \in Bijection(Members, A)
          BY <2>6, <2>7 DEF Bijection, Injection, Surjection, IsInjective
    <3> QED BY <2>3, <3>1, QuizAssumption, FS_Bijection DEF ExistsBijection
  <2>9. PICK p : p = [r \in A |-> Place(es, r.id)]
        OBVIOUS
  <2>10. p \in Bijection(A, 1..n)
    <3>1. /\ \A id \in Members : Place(es, id) \in 1..n
          /\ \A i, j \in Members : Place(es, i) = Place(es, j) => i = j
          /\ \A k \in 1..n : \E id \in Members : Place(es, id) = k
      <4>1. PICK g : g = [id \in Members |-> Place(es, id)]
            OBVIOUS
      <4>2. g \in Bijection(Members, 1..n)
            BY <2>3, <4>1, Places
      <4>3. /\ \A id \in Members : g[id] \in 1..n
            /\ \A i, j \in Members : g[i] = g[j] => i = j
            /\ \A k \in 1..n : \E id \in Members : g[id] = k
            BY <4>2 DEF Bijection, Injection, Surjection, IsInjective
      <4>4. \A id \in Members : g[id] = Place(es, id)
            BY <4>1
      <4> QED BY <4>3, <4>4
    <3>2. p \in [A -> 1..n]
          BY <2>7, <2>9, <3>1
    <3>3. ASSUME NEW r \in A, NEW s \in A, p[r] = p[s]
          PROVE  r = s
      <4>1. r.id = s.id
            BY <2>7, <2>9, <3>1, <3>3
      <4> QED BY <2>7, <4>1
    <3>4. ASSUME NEW k \in 1..n
          PROVE  \E r \in A : p[r] = k
      <4>1. PICK id \in Members : Place(es, id) = k
            BY <3>1
      <4> QED BY <2>6, <2>9, <4>1
    <3> QED BY <3>2, <3>3, <3>4 DEF Bijection, Injection, Surjection, IsInjective
  <2>11. ASSUME NEW id \in Members
         PROVE  /\ Models!CorrectCount(AbstractRow(es, id)) = RightCount(es[id])
                /\ Models!TooManyWrong(AbstractRow(es, id)) <=> TooManyWrong(es[id])
         BY <2>4, AbstractRules
  <2>12. ASSUME NEW r \in A, NEW s \in A, Models!CorrectCount(r) > Models!CorrectCount(s)
         PROVE  p[r] < p[s]
    <3>1. PICK i \in Members, j \in Members : i = r.id /\ j = s.id
          BY <2>7
    <3>2. RightCount(es[i]) > RightCount(es[j])
          BY <2>7, <2>11, <2>12, <3>1
    <3>3. Place(es, i) < Place(es, j)
          BY <3>2, Places DEF Before
    <3> QED BY <2>9, <3>1, <3>3
  <2>13. p \in Models!Placements(A)
    <3>1. Models!Cardinality(A) = n
          BY <2>8, SameCardinality
    <3>2. p \in Models!Bijection(A, 1..n)
          BY <2>10 DEF Models!Bijection, Models!Injection, Models!Surjection, Models!IsInjective,
                       Bijection, Injection, Surjection, IsInjective
    <3> QED BY <2>12, <3>1, <3>2 DEF Models!Placements
  <2>14. ASSUME NEW id \in Members
         PROVE  AbstractRow(ms, id) =
                  [AbstractRow(es, id) EXCEPT
                     !.place = p[AbstractRow(es, id)],
                     !.points = IF Models!TooManyWrong(AbstractRow(es, id)) THEN 0
                                ELSE Models!RewardPoints(p[AbstractRow(es, id)],
                                                         Models!Cardinality(A))]
    <3>1. PICK r \in A : r = AbstractRow(es, id)
          BY <2>6
    <3>2. p[r] = Place(es, id)
          BY <2>6, <2>9, <3>1
    <3>3. /\ ms[id].place = p[r]
          /\ Same(es[id], ms[id])
          /\ ms[id].points = Reward(es[id], p[r], n)
          BY <2>2, <2>3, <3>2 DEF Outcome
    <3>4. PICK x : x = IF Models!TooManyWrong(r) THEN 0
                       ELSE Models!RewardPoints(p[r], Models!Cardinality(A))
          OBVIOUS
    <3>5. x = ms[id].points
      <4>1. Models!TooManyWrong(r) <=> TooManyWrong(es[id])
            BY <2>11, <3>1
      <4>2. Models!RewardPoints(p[r], Models!Cardinality(A)) = RewardPoints(p[r], n)
            BY <2>8, SameCardinality, AbstractRewards
      <4>3. ms[id].points = IF TooManyWrong(es[id]) THEN 0 ELSE RewardPoints(p[r], n)
            BY <3>3 DEF Reward
      <4> QED BY <3>4, <4>1, <4>2, <4>3, Zenon
    <3>6. PICK T : T = {[question |-> es[id].answers[i].question,
                         isCorrect |-> es[id].answers[i].isCorrect] :
                           i \in DOMAIN es[id].answers}
          OBVIOUS
    <3>7. T = {[question |-> ms[id].answers[i].question,
                isCorrect |-> ms[id].answers[i].isCorrect] :
                  i \in DOMAIN ms[id].answers}
          BY <3>3, <3>6 DEF Same
    <3>8. AbstractRow(ms, id) = [id |-> id, answers |-> T, place |-> p[r], points |-> x]
          BY <3>3, <3>5, <3>7 DEF AbstractRow
    <3>9. r = [id |-> id, answers |-> T, place |-> es[id].place, points |-> es[id].points]
          BY <3>1, <3>6 DEF AbstractRow
    <3>10. AbstractRow(ms, id) = [r EXCEPT !.place = p[r], !.points = x]
      <4>1. PICK y : y = p[r]
            OBVIOUS
      <4>2. PICK u, v : u = es[id].place /\ v = es[id].points
            OBVIOUS
      <4>3. r = [id |-> id, answers |-> T, place |-> u, points |-> v]
            BY <3>9, <4>2
      <4>4. [r EXCEPT !.place = y, !.points = x] =
              [id |-> id, answers |-> T, place |-> y, points |-> x]
        <5>1. PICK s : s = [r EXCEPT !.place = y]
              OBVIOUS
        <5>2. s = [id |-> id, answers |-> T, place |-> y, points |-> v]
              BY <4>3, <5>1
        <5>3. [s EXCEPT !.points = x] = [id |-> id, answers |-> T, place |-> y, points |-> x]
              BY <5>2
        <5>4. [r EXCEPT !.place = y, !.points = x] = [s EXCEPT !.points = x]
              BY <5>1
        <5> QED BY <5>3, <5>4
      <4> QED BY <3>8, <4>1, <4>4, Zenon
    <3> QED BY <3>1, <3>4, <3>10
  <2>15. AbstractRows(ms) =
           {[m EXCEPT !.place = p[m],
                      !.points = IF Models!TooManyWrong(m) THEN 0
                                 ELSE Models!RewardPoints(p[m], Models!Cardinality(A))] : m \in A}
    <3>1. PICK g : g = [m \in A |->
             [m EXCEPT !.place = p[m],
                       !.points = IF Models!TooManyWrong(m) THEN 0
                                  ELSE Models!RewardPoints(p[m], Models!Cardinality(A))]]
          OBVIOUS
    <3>2. \A id \in Members : AbstractRow(ms, id) = g[AbstractRow(es, id)]
          BY <2>6, <2>14, <3>1
    <3>3. AbstractRows(ms) = {g[m] : m \in A}
      <4>1. \A x : x \in AbstractRows(ms) <=> \E id \in Members : x = g[AbstractRow(es, id)]
            BY <3>2 DEF AbstractRows
      <4>2. \A x : x \in {g[m] : m \in A} <=> \E id \in Members : x = g[AbstractRow(es, id)]
            BY <2>6, <2>7
      <4> QED BY <4>1, <4>2
    <3> QED BY <3>1, <3>3
  <2>16. AbstractRows(ms) \in Models!RankedMembers(A)
         BY <2>13, <2>15, Zenon DEF Models!RankedMembers
  <2> QED BY <2>1, <2>5, <2>16
<1> QED BY <1>1, Always, PTL
=============================================================================
