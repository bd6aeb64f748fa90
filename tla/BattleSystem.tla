---------------------------- MODULE BattleSystem ----------------------------
(***************************************************************************)
(* The whole system: API handlers and worker loops over the two stores,    *)
(* and the properties that relate them.                                    *)
(***************************************************************************)
EXTENDS BattleApi, BattleWorker

CONSTANTS
    Loops,      \* the worker loops that are up, of {"kicker", "ender"}
    Exclusive,  \* TRUE: a handler or worker tick starts only when none is running
    Faults      \* TRUE: repository calls fail and the processes crash

vars == <<pgVars, sqlVars, apiVars, workerVars>>

ASSUME SystemAssumption ==
    /\ Loops \subseteq {"kicker", "ender"}
    /\ Exclusive \in BOOLEAN
    /\ Faults \in BOOLEAN

TypeOK == PgTypeOK /\ SqlTypeOK /\ ApiTypeOK /\ WorkerTypeOK

Init == PgInit /\ SqlInit /\ ApiInit /\ WorkerInit

Quiet ==
    /\ \A h \in Handlers : At(h, "idle")
    /\ kicker = KickerIdle
    /\ ender = EnderIdle

MayBegin == Exclusive => Quiet

Arrive(h) == MayBegin /\ Request(h) /\ UNCHANGED workerVars

Handle(h) == HandlerStep(h) /\ UNCHANGED workerVars

Kick ==
    /\ "kicker" \in Loops
    /\ KickerStep
    /\ kicker.at = "scan" => MayBegin
    /\ UNCHANGED apiVars

End ==
    /\ "ender" \in Loops
    /\ EnderStep
    /\ ender.at = "scanExpired" => MayBegin
    /\ UNCHANGED apiVars

Fault ==
    /\ Faults
    /\ \/ \E h \in Handlers : Abort(h) /\ UNCHANGED workerVars
       \/ (KickError \/ EndError \/ WorkerCrash) /\ UNCHANGED apiVars

Next ==
    \/ \E h \in Handlers : Arrive(h) \/ Handle(h)
    \/ Kick
    \/ End
    \/ Fault

Spec == Init /\ [][Next]_vars

\* Goroutines run to completion and both loops keep ticking.  Time passes: while
\* some row's time is set, a scan sooner or later returns such a row; and since
\* every tick of the ender begins with the query for end_time < NOW(), that query
\* is not passed over for ever by ticks that find other work.
Fairness ==
    /\ \A h \in Handlers : WF_vars(Handle(h))
    /\ WF_vars(Kick)
    /\ WF_vars(End)
    /\ SF_vars(ScanExpired /\ End)

FairSpec == Spec /\ Fairness

-----------------------------------------------------------------------------
(* Every lobby and every battle has its way out *)

\* A row has the times its status needs: the kick daemon finds an ON_QUEUE row
\* only by its expire_time, and the end daemon an ON_GOING row by its end_time.
\* An AI battle is created ON_GOING without them (find.go:112-131), so it is
\* exempt until it has started.
RowIsTimed(b) ==
    /\ b.status = "ON_QUEUE" => b.expire
    /\ b.status \in {"ON_GOING", "FINISHED"} /\ b.type # "AI" => b.questions # {}
    /\ b.type = "AI" => b.status \in {"ON_GOING", "FINISHED"}

\* No ON_QUEUE battle without expire_time, no ON_GOING or FINISHED P2P or GROUP
\* battle without questions and end_time, whatever stale copies of the row the
\* handlers and the worker write over each other's changes (battle_repo.go Save).
StatusTimers == \A b \in battles : RowIsTimed(b)

-----------------------------------------------------------------------------
(* The tables *)

\* A student is in a battle once, also when two Finds of the student overlap or
\* a bot is drawn twice: ExistsInBattle and Create are two statements, and only
\* the unique index (schema.go:62) stands between them.
UniqueMembership ==
    \A m, n \in members :
        m.battle = n.battle /\ m.student = n.student => m = n

\* A member belongs to a battle that exists, also when a participant is inserted
\* between the two deletes of a kick or of a leave (schema.go:45).
NoOrphans == \A m \in members : \E b \in battles : b.id = m.battle

\* A member answers a question once, however answers, blanks and retries overlap
\* (answer.go:40, answer.go:115).
OneAnswerPerQuestion ==
    \A m \in members : \A x, y \in m.answers : x.question = y.question => x = y

-----------------------------------------------------------------------------
(* Results *)

\* What student_battle counts is backed by a stored result: a student with a win
\* or a loss has a battle_member row whose battle row is there (end_battle.go:62).
CountedResultsAreStored ==
    \A s \in Students :
        studentBattle[s].win + studentBattle[s].lose > 0 => FinishedBattlesOf(s) # {}

\* A battle is counted as a win or a loss at most once for each of its members
\* (UpsertStudentBattle increments, so running it again would count twice).
EachBattleCountedOnce ==
    \A s \in Students :
        studentBattle[s].win + studentBattle[s].lose <= Cardinality(FinishedBattlesOf(s))

\* MySQL holds a battle only once PostgreSQL has it FINISHED (ADR.md:32: MySQL is
\* written only when a battle finishes).
SqlOnlyWhenFinished ==
    \A b \in battles : b.id \in sqlBattles => b.status = "FINISHED"

\* The ender is between finishing battle id in PostgreSQL and its last write.
BeingEnded(id) ==
    /\ ender.at \in {"saveMembers", "sqlBattle", "sqlMembers", "sqlStats"}
    /\ ender.b.id = id

\* Once the worker is through with a battle it is FINISHED for good: every member
\* is finished and has its place, and the stored result is the member's row
\* (end_battle.go:52-71).
FinishedBattlesAreRanked ==
    \A b \in battles : b.status = "FINISHED" /\ ~BeingEnded(b.id) =>
        \A m \in MembersOf(b.id) : m.isFinished /\ m.place # 0

StoredResultsAgree ==
    \A m \in members : ~BeingEnded(m.battle) =>
        \A r \in sqlMembers :
            r.battle = m.battle /\ r.student = m.student =>
                r.place = m.place /\ r.points = m.points /\ r.answers = m.answers

-----------------------------------------------------------------------------
(* A battle in progress *)

\* A bot plays only in a battle that PostgreSQL knows as an AI battle
\* (change_type.go:36).
BotsOnlyInAIBattles ==
    \A b \in battles : \A m \in MembersOf(b.id) : m.type = "AI" => b.type = "AI"

\* A member of a started battle is finished exactly when it has answered, or has
\* been given blanks for, every question of the battle (answer.go:97, 115-147).
FinishedIffComplete ==
    \A b \in battles : b.questions # {} =>
        \A m \in MembersOf(b.id) : m.isFinished <=> Answered(m) = b.questions

\* The question set of a battle is frozen when it starts (ADR.md:102).
QuestionsFrozen ==
    [][\A b \in battles : \A c \in battles' :
          b.id = c.id /\ b.status = "ON_GOING" /\ b.questions # {}
            => c.questions = b.questions]_vars

\* A member that has finished stays finished, with its answers.
FinishedMembersStay ==
    [][\A m \in members : \A n \in members' :
          m.id = n.id /\ m.isFinished => n.isFinished /\ n.answers = m.answers]_vars

\* While no Find overlaps the end of a battle, a demo student who has played as many
\* battles as the limit allows gets into no other one as a player (find.go:56).  The
\* limit counts rows in MySQL: battles that are still open do not count.  Nothing keeps
\* a demo student who is also a testing user from being drawn as a bot
\* (student_reader.go:49).
DemoLimitStops ==
    [][\A s \in DemoStudents :
          Cardinality(FinishedBattlesOf(s)) >= DemoLimit =>
              \A n \in members' : n.student = s /\ n.type # "AI" =>
                  \E m \in members : m.id = n.id]_vars

-----------------------------------------------------------------------------
(* Progress *)

InStatus(id, status) == \E b \in battles : b.id = id /\ b.status = status

Playing(id) ==
    \E b \in battles : b.id = id /\ b.status = "ON_GOING" /\ b.questions # {}

\* A full lobby is started, reopened or removed (main.go:118).
QueueResolves ==
    \A id \in 1..Budget["find"] : InStatus(id, "ON_QUEUE") ~> ~InStatus(id, "ON_QUEUE")

\* A battle that has started ends, whoever stops answering (main.go:180-231).
PlayedBattlesEnd ==
    \A id \in 1..Budget["find"] : Playing(id) ~> ~InStatus(id, "ON_GOING")

\* The results of a FINISHED battle reach MySQL, with everyone's (ADR.md:32).
ResultsArrive ==
    \A id \in 1..Budget["find"] :
        InStatus(id, "FINISHED") ~>
            /\ id \in sqlBattles
            /\ \A m \in MembersOf(id) : id \in FinishedBattlesOf(m.student)
=============================================================================
