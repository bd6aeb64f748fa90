------------------------------- MODULE PgStore -------------------------------
(***************************************************************************)
(* The PostgreSQL store of live battles: tables battles and battle_members *)
(* (internal/db/postgres).  A table is the set of its rows; every          *)
(* repository method is one statement, so one atomic step of its caller.   *)
(*                                                                         *)
(* A Find returns a COPY of a row.  Save writes a whole copy back over the *)
(* row with its id, whatever happened to that row since the copy was read. *)
(***************************************************************************)
EXTENDS BattleModels

VARIABLES
    battles,     \* the rows of table battles
    members,     \* the rows of table battle_members
    battleSeq,   \* the SERIAL behind battles.id
    memberSeq    \* the SERIAL behind battle_members.id

pgVars == <<battles, members, battleSeq, memberSeq>>

PgTypeOK ==
    /\ battles \subseteq Battle
    /\ members \subseteq BattleMember
    /\ battleSeq \in Nat
    /\ memberSeq \in Nat

PgInit ==
    /\ battles = {}
    /\ members = {}
    /\ battleSeq = 0
    /\ memberSeq = 0

-----------------------------------------------------------------------------
(* BattleRepository *)

BattleStored(b) == \E r \in battles : r.id = b.id

\* What Create inserts; the id comes from the sequence.
NewBattleRow(b) == [b EXCEPT !.id = battleSeq + 1]

CreateBattle(b) ==
    /\ battles' = battles \cup {NewBattleRow(b)}
    /\ battleSeq' = battleSeq + 1

FindByUUID(uuid) == {b \in battles : b.id = uuid}

FindWaiting(type) == {b \in battles : b.status = "WAITING" /\ b.type = type}

\* Rows a daemon's query may return: which of them are past their time is up to
\* the clock, but a NULL time never compares.
MayBeExpiredOnQueue == {b \in battles : b.status = "ON_QUEUE" /\ b.expire}

\* The status of the query next to it.
FindOnGoingQueued == {b \in battles : b.status = "ON_QUEUE"}

FindOnGoing == {b \in battles : b.status = "ON_GOING"}

MayBeOnGoingExpired == {b \in FindOnGoing : b.questions # {}}

FindOnGoingAllMembersFinished ==
    {b \in FindOnGoing :
        ~\E m \in members : m.battle = b.id /\ ~m.isFinished}

\* The UPDATE statement: every column of the copy but type.
SavedRow(r, b) ==
    [r EXCEPT !.status = b.status,
              !.expire = b.expire,
              !.questions = b.questions,
              !.level = b.level]

\* Save of a copy whose row is still there; otherwise it returns ErrNotFound and
\* its callers look at BattleStored first.
SaveBattle(b) ==
    battles' = {IF r.id = b.id THEN SavedRow(r, b) ELSE r : r \in battles}

\* Delete without the ON DELETE CASCADE of the foreign key.
DeleteBattleOnly(id) ==
    /\ battles' = {r \in battles : r.id # id}
    /\ members' = members

DeleteBattle(id) ==
    /\ battles' = {r \in battles : r.id # id}
    /\ members' = {m \in members : m.battle # id}

-----------------------------------------------------------------------------
(* MemberRepository *)

MembersOf(id) == {m \in members : m.battle = id}

FindByBattleAndStudent(id, student) ==
    {m \in MembersOf(id) : m.student = student}

ExistsInBattle(id, student) == FindByBattleAndStudent(id, student) # {}

CountByBattle(id) == Cardinality(MembersOf(id))

CountConfirmedByBattle(id) ==
    Cardinality({m \in MembersOf(id) : m.status = "CONFIRMED"})

\* INSERT without the unique index on (battle_id, student_id).
InsertableNoIndex(m) == \E b \in battles : b.id = m.battle

\* INSERT succeeds: the foreign key finds the battle, and the unique index on
\* (battle_id, student_id) finds no other row.
Insertable(m) ==
    /\ \E b \in battles : b.id = m.battle
    /\ ~ExistsInBattle(m.battle, m.student)

CreateMember(m) ==
    /\ members' = members \cup {[m EXCEPT !.id = memberSeq + 1]}
    /\ memberSeq' = memberSeq + 1

MemberStored(m) == \E r \in members : r.id = m.id

\* The UPDATE statement: id, student_id, battle_id and type are not written.
SavedMemberRow(r, m) ==
    [m EXCEPT !.id = r.id, !.student = r.student, !.battle = r.battle,
              !.type = r.type]

SaveMember(m) ==
    members' = {IF r.id = m.id THEN SavedMemberRow(r, m) ELSE r : r \in members}

DeleteMember(m) == members' = {r \in members : r.id # m.id}

DeleteByBattle(id) == members' = {m \in members : m.battle # id}

DeleteByBattleAndStudent(id, student) ==
    members' = {m \in members : ~(m.battle = id /\ m.student = student)}
=============================================================================
