---------------------------- MODULE MCBattleClock ----------------------------
(* Constants for model checking the times of a battle, in units of 5 seconds. *)
EXTENDS BattleClock

CONSTANTS s1, s2, q1, q2, q3

UpToTwoQuestions == {{}, {q1}, {q2, q3}}
LevelOne == [s \in {s1, s2} |-> 1]
=============================================================================
