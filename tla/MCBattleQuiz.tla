---------------------------- MODULE MCBattleQuiz ----------------------------
(* Constants for model checking the questions and results of a battle. *)
EXTENDS BattleQuiz

\* Two words with one translation.  The first unit has too few words, two packs of the
\* second hold the same word, and the third is empty.
Cat == [id |-> 1, word |-> "cat", translation |-> "T"]
Tom == [id |-> 2, word |-> "tom", translation |-> "T"]

TwoWords == {Cat, Tom}
Packs == [u1 |-> <<Cat>>, u2 |-> <<Tom, Tom>>, u3 |-> <<>>]

\* A question with two gaps.
Gaps ==
    [id |-> 3, value |-> "gaps",
     alternatives |-> {[id |-> 31, type |-> "ANSWER", value |-> "is"],
                       [id |-> 32, type |-> "ANSWER", value |-> "was"],
                       [id |-> 33, type |-> "OPTION", value |-> "be"]}]

\* One question, which the join with exercise_part returns twice.
TwoRows == <<Gaps, Gaps>>

Rows == {<<>>, <<Gaps>>}

FoldOf ==
    [t \in {"cat", "tom", "T", "gaps", "is", "IS", "was", "be", "(no answer)"} |->
        IF t = "IS" THEN "is" ELSE t]

\* Nothing, a right alternative of either word, both gaps in another spelling, a right
\* one repeated with the text of a blank answer.
SomeValues == {<<>>, <<"T">>, <<"tom">>, <<"IS", "was">>, <<"is", "is", "(no answer)">>}
=============================================================================
