----------------------------- MODULE ResultStore -----------------------------
(***************************************************************************)
(* The MySQL store of final results (internal/db/mysql): tables battle,    *)
(* battle_member and student_battle.  Only the worker writes it, and only  *)
(* when a battle ends; the API reads it for the demo limit.  json_data     *)
(* repeats questions and answers of the row it is written with.            *)
(***************************************************************************)
EXTENDS BattleModels

CONSTANTS
    DemoStudents,  \* students whose status is one of StudentStatusDemoValues
    DemoLimit      \* Config.DemoLimit

VARIABLES
    sqlBattles,    \* uuids of the rows of table battle, all written FINISHED
    sqlMembers,    \* rows of table battle_member
    studentBattle  \* table student_battle: win and lose count of each student

sqlVars == <<sqlBattles, sqlMembers, studentBattle>>

ASSUME DemoAssumption ==
    /\ DemoStudents \subseteq Students
    /\ DemoLimit \in Nat

SqlMember ==
    [battle : Nat, student : Students \cup {NoStudent}, place : Nat, points : Nat,
     answers : SUBSET Answer]

Counts == [win : Nat, lose : Nat]

SqlTypeOK ==
    /\ sqlBattles \subseteq Nat
    /\ sqlMembers \subseteq SqlMember
    /\ studentBattle \in [Students -> Counts]

SqlInit ==
    /\ sqlBattles = {}
    /\ sqlMembers = {}
    /\ studentBattle = [s \in Students |-> [win |-> 0, lose |-> 0]]

-----------------------------------------------------------------------------

\* The battle row is not written before the rows that look it up.
SqlSaveBattleSkipped(b) == sqlBattles' = sqlBattles

\* SaveBattle: an upsert by uuid.
SqlSaveBattle(b) == sqlBattles' = sqlBattles \cup {b.id}

SqlRow(b, m) ==
    [battle |-> b.id, student |-> m.student, place |-> m.place,
     points |-> m.points, answers |-> m.answers]

\* UpdateMember: the row of the battle and the student is overwritten, or
\* inserted through CreateMember when there is none.  The INSERT selects the
\* battle's id by uuid and inserts nothing, without an error, when the battle
\* is not there.
SqlUpdateMember(b, m) ==
    sqlMembers' =
        {r \in sqlMembers : ~(r.battle = b.id /\ r.student = m.student)}
        \cup (IF b.id \in sqlBattles THEN {SqlRow(b, m)} ELSE {})

Won(m) == m.place # 0 /\ m.points > 0

\* UpsertStudentBattle: one more win or one more loss.
Counted(counts, m) ==
    IF Won(m) THEN [counts EXCEPT !.win = @ + 1] ELSE [counts EXCEPT !.lose = @ + 1]

UpsertStudentBattle(m) ==
    studentBattle' = [studentBattle EXCEPT ![m.student] = Counted(@, m)]

-----------------------------------------------------------------------------

\* CountFinishedBattlesToday, all battles of a behaviour being of one day.
FinishedBattlesOf(s) ==
    {r.battle : r \in {x \in sqlMembers : x.student = s /\ x.battle \in sqlBattles}}

\* checkDemoLimit that lets one battle too many through.
WithinDemoLimitOnce(s) ==
    s \in DemoStudents => Cardinality(FinishedBattlesOf(s)) <= DemoLimit

\* checkDemoLimit lets the student through.
WithinDemoLimit(s) ==
    s \in DemoStudents => Cardinality(FinishedBattlesOf(s)) < DemoLimit
=============================================================================
