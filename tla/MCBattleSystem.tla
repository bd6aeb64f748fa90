--------------------------- MODULE MCBattleSystem ---------------------------
(* Constants for model checking the whole system. *)
EXTENDS BattleRefinement, TLC

CONSTANTS s1, s2, s3, bot, q1, q2, q3, h1, h2

OneQuestion  == {{q1}}
TwoSets      == {{q1}, {q2}}
TwoQuestions == {{q1, q2}}
UnevenSets   == {{q1, q2}, {q3}}
MaybeNone    == {{q1}, {}}

\* Everyone of one level; or the second student of a lower one.
SameLevel   == [s \in Students |-> 1]
LowerSecond == [s \in Students |-> IF s = s2 THEN 1 ELSE 2]

\* How many requests of each kind are sent.
Requests(find, confirm, answer, leave, changeType) ==
    [kind \in RequestKinds |->
        CASE kind = "find" -> find
          [] kind = "confirm" -> confirm
          [] kind = "answer" -> answer
          [] kind = "leave" -> leave
          [] kind = "changeType" -> changeType]

LobbyBudget  == Requests(2, 1, 0, 1, 1)
AIBudget     == Requests(1, 0, 2, 1, 0)
SerialBudget == Requests(2, 2, 2, 1, 1)
LiveBudget   == Requests(2, 2, 0, 1, 0)
PairBudget   == Requests(2, 2, 0, 0, 0)
SoloBudget   == Requests(1, 0, 1, 0, 0)
RetryBudget  == Requests(1, 0, 2, 0, 0)
ChangeBudget == Requests(1, 0, 0, 0, 1)

HandlerSymmetry == Permutations(Handlers)
StudentSymmetry == Permutations(Humans)
Symmetry == HandlerSymmetry \cup StudentSymmetry
=============================================================================
