----------------------------- MODULE BattleClock -----------------------------
(***************************************************************************)
(* The times of one battle (internal/battle/daemon.go, start_battle.go and *)
(* the end loop of cmd/worker): start_time, end_time, the idle timeout and *)
(* the period of the worker, with the rules of BattleModels.               *)
(*                                                                         *)
(* BattleSystem lets every deadline pass at any moment and interleaves the *)
(* calls of handlers and worker.  Here a handler and a tick are atomic and *)
(* take no time, no call fails, and the clock of all processes is one: the *)
(* question is whether the deadlines fit together.  The bot of an AI       *)
(* battle, whose answers are filled in at the start, is left out: it never *)
(* holds a pass of the worker back.                                        *)
(***************************************************************************)
EXTENDS BattleModels

CONSTANTS
    QuestionTime,   \* QuestionTimeSeconds (15s; the unit is 5s when checked)
    StartDelay,     \* from the start of a battle to its start_time (10s)
    Period,         \* longest time between two ticks of the end loop
    MaxTime,        \* bound: the clock stops there
    MaxStarts       \* bound: how often the battle is started

ASSUME TimesAssumption ==
    /\ QuestionTime \in Nat \ {0}
    /\ StartDelay \in 0..QuestionTime
    /\ Period \in Nat
    /\ MaxTime \in Nat
    /\ MaxStarts \in Nat

NoTime == -1

VARIABLES
    now,        \* the clock
    lastTick,   \* when the end loop last ran
    battle,     \* the battle's row, with its times
    members,    \* members[s]: the row of student s, none once it is deleted
    starts,     \* how often startBattle was called
    deleted     \* history: the rows of members the worker deleted

vars == <<now, lastTick, battle, members, starts, deleted>>

\* MemberIdleTimeout
IdleTimeout == 2 * QuestionTime

TimedBattle ==
    [type      : BattleType,
     status    : {"ON_QUEUE", "ON_GOING", "FINISHED", "DELETED"},
     questions : SUBSET Questions,
     start     : Nat \cup {NoTime},
     end       : Nat \cup {NoTime}]

TimedMember ==
    [type            : MemberType,
     currentQuestion : Nat,
     answers         : SUBSET Answer,
     isFinished      : BOOLEAN,
     lastQuestionAt  : Nat \cup {NoTime},
     late            : BOOLEAN,    \* history: a question took longer than QuestionTime
     blanked         : BOOLEAN]    \* history: FillBlanks answered for the member

TypeOK ==
    /\ now \in Nat
    /\ lastTick \in Nat
    /\ battle \in TimedBattle
    /\ battle.status = "ON_GOING" => battle.questions # {} /\ battle.end # NoTime
    /\ DOMAIN members \subseteq Humans
    /\ \A s \in DOMAIN members : members[s] \in TimedMember
    /\ starts \in Nat
    /\ deleted \subseteq TimedMember

NewMember ==
    [type |-> "CREATOR", currentQuestion |-> 1, answers |-> {}, isFinished |-> FALSE,
     lastQuestionAt |-> NoTime, late |-> FALSE, blanked |-> FALSE]

\* A battle of one student against a bot, or of several students, about to start.
Init ==
    /\ now = 0
    /\ lastTick = 0
    /\ \E type \in {"AI", "P2P"} :
          battle = [type |-> type, status |-> "ON_QUEUE", questions |-> {},
                    start |-> NoTime, end |-> NoTime]
    /\ \E S \in SUBSET Humans :
          /\ battle.type = "AI" => \E s \in Humans : S = {s}
          /\ battle.type = "P2P" => S = Humans
          /\ members = [s \in S |-> NewMember]
    /\ starts = 0
    /\ deleted = {}

-----------------------------------------------------------------------------
(* The API *)

\* CalcBattleTimes without the spare question time.
EndTimeTight(count) == now + QuestionTime * count

EndTime(count) == now + QuestionTime * count + QuestionTime

\* startBattle without a look at the number of questions.
StartBattleAnyway ==
    /\ battle.status # "DELETED"
    /\ starts < MaxStarts
    /\ \E questions \in QuestionSets :
          battle' = [battle EXCEPT
                        !.questions = questions,
                        !.start = now + StartDelay,
                        !.end = EndTime(Cardinality(questions)),
                        !.status = "ON_GOING"]
    /\ starts' = starts + 1
    /\ UNCHANGED <<now, lastTick, members, deleted>>

\* startBattle: questions, times and status.  The last confirm calls it, or the
\* Find that makes an AI battle, and so does every later confirm (confirm.go:72).
StartBattle ==
    /\ battle.status # "DELETED"
    /\ starts < MaxStarts
    /\ \E questions \in QuestionSets \ {{}} :
          battle' = [battle EXCEPT
                        !.questions = questions,
                        !.start = now + StartDelay,
                        !.end = EndTime(Cardinality(questions)),
                        !.status = "ON_GOING"]
    /\ starts' = starts + 1
    /\ UNCHANGED <<now, lastTick, members, deleted>>

\* What IsMemberIdle counts from.
Base(m) == IF m.lastQuestionAt # NoTime THEN m.lastQuestionAt ELSE battle.start

IsLate(m) == now - Base(m) > QuestionTime

\* AnswerService: it looks at the status, at no time, and resets the idle clock.
AnswerQuestion(s) ==
    /\ battle.status = "ON_GOING"
    /\ \E q \in battle.questions :
          /\ MayProcessAnswer(battle, members[s], q)
          /\ members' = [members EXCEPT ![s] =
                [ProcessAnswer(battle, members[s], q, TRUE) EXCEPT
                    !.lastQuestionAt = now,
                    !.late = @ \/ IsLate(members[s])]]
    /\ UNCHANGED <<now, lastTick, battle, starts, deleted>>

-----------------------------------------------------------------------------
(* A tick of the end loop: three passes, each over what the last one left *)

Blanked(m) ==
    [FillBlanks(battle, m) EXCEPT !.blanked = TRUE, !.late = @ \/ IsLate(m)]

Rows == {members[s] : s \in DOMAIN members}

Expired == battle.status = "ON_GOING" /\ battle.end < now

\* IsMemberIdle without the start of the battle to fall back on.
IsMemberIdleAnswered(m) ==
    /\ ~m.isFinished
    /\ m.lastQuestionAt # NoTime
    /\ now - m.lastQuestionAt >= IdleTimeout

IsMemberIdle(m) ==
    /\ ~m.isFinished
    /\ now - Base(m) >= IdleTimeout

\* The idle pass.
AfterIdle == [s \in DOMAIN members |->
                 IF IsMemberIdle(members[s]) THEN Blanked(members[s]) ELSE members[s]]

\* endExpiredBattles that goes on without deleting the battle.
DeleteUnplayedNever ==
    /\ Expired
    /\ ShouldDeleteAIBattle(battle, Rows)
    /\ UNCHANGED <<battle, deleted, members>>

\* endExpiredBattles deletes an AI battle nobody played.
DeleteUnplayed ==
    /\ Expired
    /\ ShouldDeleteAIBattle(battle, Rows)
    /\ battle' = [battle EXCEPT !.status = "DELETED"]
    /\ deleted' = Rows
    /\ members' = [s \in {} |-> NewMember]

\* Any other battle it ends, with blanks for who has not finished.
EndExpired ==
    /\ Expired
    /\ ~ShouldDeleteAIBattle(battle, Rows)
    /\ battle' = [battle EXCEPT !.status = "FINISHED"]
    /\ members' = [s \in DOMAIN members |->
                      IF members[s].isFinished THEN members[s] ELSE Blanked(members[s])]
    /\ UNCHANGED deleted

\* finishIdleMembers, then endFinishedBattles.
EndWhenFinished ==
    /\ ~Expired
    /\ IF battle.status = "ON_GOING"
         THEN /\ members' = AfterIdle
              /\ battle' = IF AllMembersFinished({AfterIdle[s] : s \in DOMAIN members})
                             THEN [battle EXCEPT !.status = "FINISHED"]
                             ELSE battle
         ELSE UNCHANGED <<battle, members>>
    /\ UNCHANGED deleted

Tick ==
    /\ lastTick < now
    /\ DeleteUnplayed \/ EndExpired \/ EndWhenFinished
    /\ lastTick' = now
    /\ UNCHANGED <<now, starts>>

\* Time passes, but not past the next tick of the worker.
Advance ==
    /\ now < MaxTime
    /\ now < lastTick + Period
    /\ now' = now + 1
    /\ UNCHANGED <<lastTick, battle, members, starts, deleted>>

Next ==
    \/ StartBattle
    \/ \E s \in DOMAIN members : AnswerQuestion(s)
    \/ Tick
    \/ Advance

Spec == Init /\ [][Next]_vars

-----------------------------------------------------------------------------

\* A started battle is over one period of the worker after its end_time, however
\* its members answer or confirm again (worker/main.go:180).
EndsInTime == battle.status = "ON_GOING" => now <= battle.end + Period

\* A member that does not get on with its question for the idle timeout is finished
\* one period later, so that the others do not wait for it (daemon.go:82).
IdleInTime ==
    battle.status = "ON_GOING" =>
        \A s \in DOMAIN members :
            ~members[s].isFinished => now <= Base(members[s]) + IdleTimeout + Period

\* A member who spends at most the question time on each question, the first counted
\* from start_time, is never blanked: end_time leaves room for every question and the
\* delay before the first (daemon.go:66-71).  A second start of the battle voids this:
\* it hands out new questions.
PunctualNeverBlanked ==
    starts <= 1 =>
        \A s \in DOMAIN members : members[s].blanked => members[s].late

\* An AI battle the student played in time is never deleted, although its only question
\* leaves current_question at 1: the tick that sees it finished comes before the one
\* that sees it expired (daemon.go:40).
PlayedIsNotDeleted ==
    starts <= 1 =>
        \A m \in deleted : m.answers # {} => m.late
=============================================================================
