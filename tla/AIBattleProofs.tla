--------------------------- MODULE AIBattleProofs ---------------------------
(***************************************************************************)
(* The life of an AI battle, for every value of the constants but one: no  *)
(* confirm is sent (NoConfirms), so that the battles that start are those  *)
(* createAIBattle starts, while lobbies fill, expire and change type next  *)
(* to them.  A confirm would start a battle from a copy it read earlier,   *)
(* and so bring a FINISHED one back.                                       *)
(*                                                                         *)
(* Without it a row only moves forward (RowsAdvance): its one creator      *)
(* gives an unstarted row its questions, the ender finishes it, and        *)
(* nobody writes over either.  What the copies in flight know of their     *)
(* rows (FitBattle, FitMember) then stays true of them, and the ender      *)
(* comes to the MySQL writes of a battle once (CountedOnce).               *)
(***************************************************************************)
EXTENDS ResultProofs

NoConfirms == Budget["confirm"] = 0

\* An AI battle between its creation and its start.
IsUnstarted(r) == r.status = "ON_GOING" /\ r.questions = {}

Untouched(m) == ~m.isFinished /\ m.answers = {} /\ ~m.lastQuestionAt

\* The answers of m in a battle with questions qs.
Complete(qs, m) ==
    qs # {} => /\ Answered(m) \subseteq qs
               /\ m.isFinished <=> Answered(m) = qs

\* A member row, or a copy of one, fits the battle it is in and the row it was read
\* from.
FitMember(m) ==
    /\ m.battle <= battleSeq
    /\ m.id <= memberSeq
    /\ \A n \in members : n.id = m.id => n.battle = m.battle
    /\ \A r \in battles : r.id = m.battle =>
          /\ IsUnstarted(r) => Untouched(m)
          /\ Complete(r.questions, m)

\* A copy of a battle has the questions of its row, unless one of them has none.
FitBattle(c) ==
    /\ c.id <= battleSeq
    /\ \A r \in battles : r.id = c.id =>
          /\ IsUnstarted(r) => c.questions = {}
          /\ c.questions = {} \/ r.questions = {} \/ c.questions = r.questions

FitMembers(ms, id) == \A m \in ms : FitMember(m) /\ m.battle = id

\* Rows with this id, if there are any left, have this status.
RowsAre(id, status) == \A r \in battles : r.id = id => r.status = status

-----------------------------------------------------------------------------

\* A lobby never starts.
LobbyRow(r) ==
    r.type # "AI" => r.status \in {"WAITING", "ON_QUEUE"} /\ r.questions = {}

ConfirmLabels == {"confirmFind", "confirmFindMember", "confirmSave", "countConfirmed"}

\* The handler that creates an AI battle, up to its start.
Starting(s) ==
    \/ s.at \in {"findOpponent", "startBattle"}
    \/ s.at = "createCreator" /\ s.b.type = "AI"

FitHandler(s) ==
    /\ s.at \notin ConfirmLabels \cup {"leaveFindMember", "leaveSave"}
    /\ s.at \in LobbyLabels => s.b.questions = {}
    /\ Starting(s) =>
          /\ s.b.type = "AI" /\ s.b.questions = {} /\ s.b.id <= battleSeq
          /\ \A r \in battles : r.id = s.b.id => IsUnstarted(r)
    /\ s.at \in {"loadAI", "saveAI"} => FitBattle(s.b) /\ s.b.questions # {}
    /\ s.at \in {"answerFindMember", "answerSave"} => FitBattle(s.b)
    /\ s.at = "answerSave" => FitMember(s.m) /\ s.m.battle = s.b.id
    /\ s.at = "saveAI" => FitMembers(s.ms, s.b.id)

OneStarter ==
    \A g, h \in Handlers :
        /\ Starting(handler[g]) /\ Starting(handler[h])
        /\ handler[g].b.id = handler[h].b.id
        => g = h

FitKicker(k) ==
    /\ \A b \in k.todo : b.questions = {}
    /\ k.at \in {"kick", "reset"} => k.b.questions = {}
    /\ \A m \in k.left : FitMember(m)

\* A battle the ender has yet to work on.
Pending(b) ==
    /\ b.type = "AI" /\ FitBattle(b)
    /\ b.id \notin sqlBattles
    /\ RowsAre(b.id, "ON_GOING")

PassOf == [loadExpired |-> "Expired", loadIdle |-> "Idle", saveIdle |-> "Idle",
           loadFinished |-> "Finished"]

FitEnder(e) ==
    /\ \A b \in e.todo : Pending(b)
    /\ \A b, c \in e.todo : b.id = c.id => b = c
    /\ e.at \in DOMAIN PassOf => e.pass = PassOf[e.at]
    /\ e.pass \in {"Expired", "Idle"} => \A b \in e.todo : b.questions # {}
    /\ e.at = "saveIdle" =>
          FitBattle(e.b) /\ e.b.questions # {} /\ FitMembers(e.left, e.b.id)
    /\ e.at = "saveBattle" =>
          /\ Pending(e.b) /\ e.b.status = "FINISHED"
          /\ \A r \in battles : r.id = e.b.id => r.questions # {}
    /\ e.at \in {"saveMembers", "sqlBattle"} =>
          /\ e.b.id <= battleSeq /\ e.b.id \notin sqlBattles
          /\ RowsAre(e.b.id, "FINISHED")
    /\ e.at \in {"saveBattle", "saveMembers"} => FitMembers(e.ms, e.b.id)
    /\ e.at \in {"saveBattle", "saveMembers", "sqlBattle"} =>
          \A b \in e.todo : b.id # e.b.id
    /\ e.at \in {"saveBattle", "saveMembers", "sqlBattle", "sqlMembers", "sqlStats"} =>
          \A m, n \in e.ms : m.student = n.student => m = n

\* The inductive invariant.
FitCopies ==
    /\ \A r, s \in battles : r.id = s.id => r = s
    /\ \A r \in battles : LobbyRow(r)
    /\ \A id \in sqlBattles : id <= battleSeq
    /\ \A id \in sqlBattles : RowsAre(id, "FINISHED")
    /\ \A m \in members : FitMember(m)
    /\ \A h \in Handlers : FitHandler(handler[h])
    /\ OneStarter
    /\ FitKicker(kicker)
    /\ FitEnder(ender)

-----------------------------------------------------------------------------
(* What a statement does to the tables *)

\* What may become of row r: s.
Advanced(r, s, starts, finishes) ==
    /\ s.id = r.id /\ s.type = r.type
    /\ r.status = "FINISHED" => s.status = "FINISHED"
    /\ r.status = "ON_GOING" /\ r.id \notin finishes => s.status = "ON_GOING"
    /\ IsUnstarted(s) => IsUnstarted(r)
    /\ IsUnstarted(r) /\ r.id \notin starts => IsUnstarted(s)
    /\ IsUnstarted(r) \/ s.questions \in {{}, r.questions}

\* The statement starts battles of starts, finishes battles of finishes, and
\* otherwise lets rows be.
RowsAdvance(starts, finishes) ==
    /\ battleSeq' \in Nat /\ battleSeq <= battleSeq'
    /\ \A s \in battles' :
          \/ s.id = battleSeq + 1
          \/ \E r \in battles : Advanced(r, s, starts, finishes)
    /\ (\A r, s \in battles : r.id = s.id => r = s)'
    /\ \A r \in battles' : LobbyRow(r)

MembersAdvance ==
    /\ memberSeq' \in Nat /\ memberSeq <= memberSeq'
    /\ \A n \in members' :
          \/ FitMember(n) /\ \E m \in members : m.id = n.id /\ m.battle = n.battle
          \/ /\ n.id = memberSeq + 1 /\ n.id <= memberSeq'
             /\ Untouched(n) /\ n.battle <= battleSeq
    /\ (\A m, n \in members : m.id = n.id => m.battle = n.battle)'

-----------------------------------------------------------------------------
(* What is known of copies outlives a statement *)

LEMMA UntouchedIsComplete ==
    ASSUME NEW m, Untouched(m), NEW qs
    PROVE  Complete(qs, m)
<1>1. Answered(m) = {}
      BY DEF Untouched, Answered
<1> QED BY <1>1 DEF Untouched, Complete

LEMMA MemberStays ==
    ASSUME TypeInv, NEW m \in BattleMember, FitMember(m), NEW starts, NEW finishes,
           RowsAdvance(starts, finishes), MembersAdvance
    PROVE  FitMember(m)'
<1> USE DEF TypeInv, TypeOK, PgTypeOK
<1>0. m.battle \in Nat /\ m.id \in Nat
      BY DEF BattleMember
<1>1. m.battle <= battleSeq' /\ m.id <= memberSeq'
      BY <1>0 DEF FitMember, RowsAdvance, MembersAdvance
<1>2. ASSUME NEW n \in members', n.id = m.id
      PROVE  n.battle = m.battle
      BY <1>0, <1>2 DEF FitMember, MembersAdvance
<1>3. ASSUME NEW s \in battles', s.id = m.battle
      PROVE  /\ IsUnstarted(s) => Untouched(m)
             /\ Complete(s.questions, m)
  <2>1. s.id # battleSeq + 1
        BY <1>0, <1>3 DEF FitMember
  <2>2. PICK r \in battles : Advanced(r, s, starts, finishes)
        BY <2>1 DEF RowsAdvance
  <2>3. /\ IsUnstarted(r) => Untouched(m)
        /\ Complete(r.questions, m)
        BY <1>3, <2>2 DEF Advanced, FitMember
  <2>4. CASE IsUnstarted(r)
        BY <2>3, <2>4, UntouchedIsComplete
  <2>5. CASE ~IsUnstarted(r)
        BY <2>2, <2>3, <2>5 DEF Advanced, Complete
  <2> QED BY <2>4, <2>5
<1> QED BY <1>1, <1>2, <1>3 DEF FitMember, IsUnstarted, Untouched, Complete, Answered

LEMMA BattleStays ==
    ASSUME TypeInv, NEW c \in Battle, FitBattle(c), NEW starts, NEW finishes,
           RowsAdvance(starts, finishes)
    PROVE  FitBattle(c)'
<1> USE DEF TypeInv, TypeOK, PgTypeOK
<1>0. c.id \in Nat /\ c.id <= battleSeq'
      BY DEF Battle, FitBattle, RowsAdvance
<1>1. ASSUME NEW s \in battles', s.id = c.id
      PROVE  /\ IsUnstarted(s) => c.questions = {}
             /\ c.questions = {} \/ s.questions = {} \/ c.questions = s.questions
  <2>1. s.id # battleSeq + 1
        BY <1>0, <1>1 DEF FitBattle
  <2>2. PICK r \in battles : Advanced(r, s, starts, finishes)
        BY <2>1 DEF RowsAdvance
  <2>3. /\ IsUnstarted(r) => c.questions = {}
        /\ c.questions = {} \/ r.questions = {} \/ c.questions = r.questions
        BY <1>1, <2>2 DEF Advanced, FitBattle
  <2> QED BY <2>2, <2>3 DEF Advanced
<1> QED BY <1>0, <1>1 DEF FitBattle, IsUnstarted

\* A row keeps the status ON_GOING or FINISHED.
LEMMA StatusStays ==
    ASSUME TypeInv, NEW id \in Nat, id <= battleSeq, NEW status, RowsAre(id, status),
           NEW starts, NEW finishes, RowsAdvance(starts, finishes),
           \/ status = "FINISHED"
           \/ status = "ON_GOING" /\ id \notin finishes
    PROVE  RowsAre(id, status)'
<1>1. ASSUME NEW s \in battles', s.id = id
      PROVE  s.status = status
  <2>1. s.id # battleSeq + 1
        BY <1>1 DEF TypeInv, TypeOK, PgTypeOK
  <2>2. PICK r \in battles : Advanced(r, s, starts, finishes)
        BY <2>1 DEF RowsAdvance
  <2> QED BY <1>1, <2>2 DEF Advanced, RowsAre
<1> QED BY <1>1 DEF RowsAre

\* A row stays unstarted until it is started.
LEMMA UnstartedStays ==
    ASSUME TypeInv, NEW id \in Nat, id <= battleSeq,
           \A r \in battles : r.id = id => IsUnstarted(r),
           NEW starts, NEW finishes, RowsAdvance(starts, finishes), id \notin starts
    PROVE  \A s \in battles' : s.id = id => IsUnstarted(s)
<1> SUFFICES ASSUME NEW s \in battles', s.id = id
             PROVE  IsUnstarted(s)
    OBVIOUS
<1>1. s.id # battleSeq + 1
      BY DEF TypeInv, TypeOK, PgTypeOK
<1>2. PICK r \in battles : Advanced(r, s, starts, finishes)
      BY <1>1 DEF RowsAdvance
<1> QED BY <1>2 DEF Advanced

LEMMA HandlerStays ==
    ASSUME TypeInv, NEW s \in HandlerState, FitHandler(s), NEW starts, NEW finishes,
           RowsAdvance(starts, finishes), MembersAdvance,
           Starting(s) => s.b.id \notin starts
    PROVE  FitHandler(s)'
<1>0. s.b \in Battle /\ s.b.id \in Nat /\ s.m \in BattleMember /\ s.ms \subseteq BattleMember
      BY DEF HandlerState, Battle
<1>1. Starting(s) => \A r \in battles' : r.id = s.b.id => IsUnstarted(r)
      BY <1>0, UnstartedStays DEF FitHandler
<1>2. Starting(s) => s.b.id <= battleSeq'
      BY <1>0 DEF FitHandler, RowsAdvance, TypeInv, TypeOK, PgTypeOK
<1>3. FitBattle(s.b) => FitBattle(s.b)'
      BY <1>0, BattleStays
<1>4. FitMember(s.m) => FitMember(s.m)'
      BY <1>0, MemberStays
<1>5. FitMembers(s.ms, s.b.id) => FitMembers(s.ms, s.b.id)'
      BY <1>0, MemberStays DEF FitMembers
<1> QED BY <1>1, <1>2, <1>3, <1>4, <1>5 DEF FitHandler, Starting, IsUnstarted

LEMMA KickerStays ==
    ASSUME TypeInv, NEW k \in KickerState, FitKicker(k), NEW starts, NEW finishes,
           RowsAdvance(starts, finishes), MembersAdvance
    PROVE  FitKicker(k)'
<1>1. \A m \in k.left : FitMember(m) => FitMember(m)'
      BY MemberStays DEF KickerState
<1> QED BY <1>1 DEF FitKicker

LEMMA PendingStays ==
    ASSUME TypeInv, NEW b \in Battle, Pending(b), NEW starts, NEW finishes,
           RowsAdvance(starts, finishes), b.id \notin finishes, b.id \notin sqlBattles'
    PROVE  Pending(b)'
<1>1. b.id \in Nat /\ b.id <= battleSeq
      BY DEF Battle, Pending, FitBattle
<1>2. FitBattle(b)'
      BY BattleStays DEF Pending
<1>3. RowsAre(b.id, "ON_GOING")'
      BY <1>1, StatusStays DEF Pending
<1> QED BY <1>2, <1>3 DEF Pending

LEMMA EnderStays ==
    ASSUME TypeInv, NEW e \in EnderState, FitEnder(e), NEW starts,
           RowsAdvance(starts, {}), MembersAdvance, sqlBattles' = sqlBattles
    PROVE  FitEnder(e)'
<1>0. e.b \in Battle /\ e.b.id \in Nat /\ e.ms \subseteq BattleMember
      /\ e.left \subseteq BattleMember /\ e.todo \subseteq Battle
      BY DEF EnderState, Battle
<1>1. \A b \in e.todo \cup {e.b} : Pending(b) => Pending(b)'
      BY <1>0, PendingStays DEF Pending
<1>2. FitBattle(e.b) => FitBattle(e.b)'
      BY <1>0, BattleStays
<1>3. \A m \in e.ms \cup e.left : FitMember(m) => FitMember(m)'
      BY <1>0, MemberStays
<1>4. e.b.id <= battleSeq /\ RowsAre(e.b.id, "FINISHED") =>
        e.b.id <= battleSeq' /\ RowsAre(e.b.id, "FINISHED")'
  <2> SUFFICES ASSUME e.b.id <= battleSeq, RowsAre(e.b.id, "FINISHED")
               PROVE  e.b.id <= battleSeq' /\ RowsAre(e.b.id, "FINISHED")'
      OBVIOUS
  <2>1. RowsAre(e.b.id, "FINISHED")'
        BY <1>0, StatusStays
  <2>2. e.b.id <= battleSeq'
        BY <1>0 DEF RowsAdvance, TypeInv, TypeOK, PgTypeOK
  <2> QED BY <2>1, <2>2
<1>5. ASSUME Pending(e.b), \A r \in battles : r.id = e.b.id => r.questions # {}
      PROVE  \A s \in battles' : s.id = e.b.id => s.questions # {}
  <2> SUFFICES ASSUME NEW s \in battles', s.id = e.b.id
               PROVE  s.questions # {}
      OBVIOUS
  <2>1. s.id # battleSeq + 1
        BY <1>0, <1>5 DEF Pending, FitBattle, TypeInv, TypeOK, PgTypeOK
  <2>2. PICK r \in battles : Advanced(r, s, starts, {})
        BY <2>1 DEF RowsAdvance
  <2> QED BY <1>5, <2>2 DEF Pending, RowsAre, Advanced, IsUnstarted
<1> QED BY <1>1, <1>2, <1>3, <1>4, <1>5 DEF FitEnder, FitMembers, PassOf

-----------------------------------------------------------------------------
(* The statements on table battles *)

LEMMA RowsStay ==
    ASSUME TypeInv, FitCopies, battles' \subseteq battles, battleSeq' = battleSeq
    PROVE  RowsAdvance({}, {})
<1>1. \A r \in battles : Advanced(r, r, {}, {})
      BY DEF Advanced
<1> QED BY <1>1 DEF FitCopies, RowsAdvance, TypeInv, TypeOK, PgTypeOK

\* A Save whose effect on the row it hits is known.
LEMMA SavedAdvance ==
    ASSUME TypeInv, FitCopies, NEW c \in Battle, SaveBattle(c), battleSeq' = battleSeq,
           NEW starts, NEW finishes,
           \A r \in battles : r.id = c.id =>
               /\ Advanced(r, SavedRow(r, c), starts, finishes)
               /\ LobbyRow(SavedRow(r, c))
    PROVE  RowsAdvance(starts, finishes)
<1> USE DEF TypeInv, TypeOK, PgTypeOK
<1> DEFINE f(r) == IF r.id = c.id THEN SavedRow(r, c) ELSE r
<1>1. battles' = {f(r) : r \in battles}
      BY DEF SaveBattle
<1>2. \A r \in battles : f(r).id = r.id
      BY DEF SavedRow, Battle
<1>3. \A r \in battles : Advanced(r, r, starts, finishes)
      BY DEF Advanced
<1>4. \A r \in battles : Advanced(r, f(r), starts, finishes) /\ LobbyRow(f(r))
      BY <1>3 DEF FitCopies
<1> HIDE DEF f
<1>5. (\A r, s \in battles : r.id = s.id => r = s)'
      BY <1>1, <1>2 DEF FitCopies
<1>6. \A s \in battles' : LobbyRow(s) /\ \E r \in battles : Advanced(r, s, starts, finishes)
      BY <1>1, <1>4
<1> QED BY <1>5, <1>6 DEF RowsAdvance

\* A copy of a lobby is saved: the row is one, and stays one.
LEMMA LobbySaved ==
    ASSUME TypeInv, FitCopies, NEW c \in Battle, SaveBattle(c), battleSeq' = battleSeq,
           c.questions = {}, c.status \in {"WAITING", "ON_QUEUE"},
           \A r \in battles : r.id = c.id => r.type # "AI"
    PROVE  RowsAdvance({}, {})
<1>1. ASSUME NEW r \in battles, r.id = c.id
      PROVE  Advanced(r, SavedRow(r, c), {}, {}) /\ LobbyRow(SavedRow(r, c))
  <2>1. r.type # "AI" /\ r.status \in {"WAITING", "ON_QUEUE"} /\ r.questions = {}
        BY <1>1 DEF FitCopies, LobbyRow
  <2>2. r \in Battle
        BY DEF TypeInv, TypeOK, PgTypeOK
  <2>3. /\ SavedRow(r, c).id = r.id /\ SavedRow(r, c).type = r.type
        /\ SavedRow(r, c).status = c.status /\ SavedRow(r, c).questions = {}
        BY <2>2 DEF SavedRow, Battle
  <2> QED BY <2>1, <2>3 DEF Advanced, IsUnstarted, LobbyRow
<1> QED BY <1>1, SavedAdvance

\* createAIBattle starts the battle it created.
LEMMA StartedSaved ==
    ASSUME TypeInv, FitCopies, NEW b \in Battle, NEW qs \in SUBSET Questions, qs # {},
           SaveBattle(Started(b, qs)), battleSeq' = battleSeq,
           \A r \in battles : r.id = b.id => IsUnstarted(r) /\ r.type = "AI",
           NEW starts, starts = {b.id}
    PROVE  RowsAdvance(starts, {})
<1>1. PICK c : c = Started(b, qs)
      OBVIOUS
<1>2. c \in Battle /\ c.id = b.id /\ c.status = "ON_GOING" /\ c.questions = qs
      BY <1>1 DEF Started, Battle, BattleStatus
<1>3. ASSUME NEW r \in battles, r.id = c.id
      PROVE  Advanced(r, SavedRow(r, c), starts, {}) /\ LobbyRow(SavedRow(r, c))
  <2>1. IsUnstarted(r) /\ r.type = "AI" /\ r.id = b.id
        BY <1>2, <1>3
  <2>2. r \in Battle
        BY DEF TypeInv, TypeOK, PgTypeOK
  <2>3. /\ SavedRow(r, c).id = r.id /\ SavedRow(r, c).type = r.type
        /\ SavedRow(r, c).status = "ON_GOING" /\ SavedRow(r, c).questions = qs
        BY <1>2, <2>2 DEF SavedRow, Battle
  <2> QED BY <2>1, <2>3 DEF Advanced, IsUnstarted, LobbyRow
<1> QED BY <1>1, <1>2, <1>3, SavedAdvance

\* EndBattle finishes a started battle.
LEMMA FinishedSaved ==
    ASSUME TypeInv, FitCopies, NEW c \in Battle, SaveBattle(c), battleSeq' = battleSeq,
           Pending(c), c.status = "FINISHED",
           \A r \in battles : r.id = c.id => r.questions # {} /\ r.type = c.type,
           NEW finishes, finishes = {c.id}
    PROVE  RowsAdvance({}, finishes)
<1>1. ASSUME NEW r \in battles, r.id = c.id
      PROVE  Advanced(r, SavedRow(r, c), {}, finishes) /\ LobbyRow(SavedRow(r, c))
  <2>1. /\ r.questions # {} /\ r.type = "AI" /\ r.status = "ON_GOING"
        /\ c.questions \in {{}, r.questions}
        BY <1>1 DEF Pending, RowsAre, FitBattle
  <2>2. r \in Battle
        BY DEF TypeInv, TypeOK, PgTypeOK
  <2>3. /\ SavedRow(r, c).id = r.id /\ SavedRow(r, c).type = r.type
        /\ SavedRow(r, c).status = "FINISHED" /\ SavedRow(r, c).questions = c.questions
        BY <2>2 DEF SavedRow, Battle
  <2> QED BY <1>1, <2>1, <2>3 DEF Advanced, IsUnstarted, LobbyRow
<1> QED BY <1>1, SavedAdvance

\* A new row is a waiting lobby or an unstarted AI battle.
LEMMA RowAdded ==
    ASSUME TypeInv, SoundCopies, FitCopies, NEW c \in Battle, CreateBattle(c),
           c.questions = {}, LobbyRow(c)
    PROVE  RowsAdvance({}, {})
<1> USE DEF TypeInv, TypeOK, PgTypeOK
<1>1. PICK row : row = NewBattleRow(c)
      OBVIOUS
<1>2. row.id = battleSeq + 1 /\ LobbyRow(row)
      BY <1>1 DEF NewBattleRow, Battle, LobbyRow
<1>3. battles' = battles \cup {row} /\ battleSeq' = battleSeq + 1
      BY <1>1 DEF CreateBattle
<1>4. \A r \in battles : r.id # row.id
      BY <1>2 DEF SoundCopies, Sound, Battle
<1>5. \A r \in battles : Advanced(r, r, {}, {}) /\ LobbyRow(r)
      BY DEF Advanced, FitCopies
<1>6. (\A r, s \in battles : r.id = s.id => r = s)'
      BY <1>3, <1>4 DEF FitCopies
<1> QED BY <1>2, <1>3, <1>5, <1>6 DEF RowsAdvance

-----------------------------------------------------------------------------
(* The statements on table battle_members *)

LEMMA MembersStay ==
    ASSUME TypeInv, FitCopies, members' \subseteq members, memberSeq' = memberSeq
    PROVE  MembersAdvance
BY DEF FitCopies, FitMember, MembersAdvance, TypeInv, TypeOK, PgTypeOK

\* A copy that fits its battle leaves a row that does.
LEMMA FitSaved ==
    ASSUME TypeInv, FitCopies, NEW m \in BattleMember, FitMember(m), SaveMember(m),
           memberSeq' = memberSeq
    PROVE  MembersAdvance
<1> USE DEF TypeInv, TypeOK, PgTypeOK
<1> DEFINE f(r) == IF r.id = m.id THEN SavedMemberRow(r, m) ELSE r
<1>1. members' = {f(r) : r \in members}
      BY DEF SaveMember
<1>2. \A r \in members : f(r).id = r.id /\ f(r).battle = r.battle
      BY DEF SavedMemberRow, BattleMember
<1>3. ASSUME NEW r \in members, r.id = m.id
      PROVE  FitMember(SavedMemberRow(r, m))
  <2>1. PICK n : n = SavedMemberRow(r, m)
        OBVIOUS
  <2>2. /\ n.id = r.id /\ n.battle = r.battle /\ n.answers = m.answers
        /\ n.isFinished = m.isFinished /\ n.lastQuestionAt = m.lastQuestionAt
        BY <2>1 DEF SavedMemberRow, BattleMember
  <2>3. r.battle = m.battle
        BY <1>3 DEF FitMember
  <2>4. FitMember(n)
        BY <1>3, <2>2, <2>3 DEF FitMember, Untouched, Complete, Answered
  <2> QED BY <2>1, <2>4
<1>4. \A r \in members : FitMember(f(r))
      BY <1>3 DEF FitCopies
<1>5. \A r, s \in members : r.id = s.id => r.battle = s.battle
      BY DEF FitCopies, FitMember
<1> HIDE DEF f
<1> QED BY <1>1, <1>2, <1>4, <1>5 DEF MembersAdvance

\* A new member has answered nothing.
LEMMA UntouchedAdded ==
    ASSUME TypeInv, SoundCopies, FitCopies, NEW m \in BattleMember, Untouched(m),
           Insertable(m), CreateMember(m)
    PROVE  MembersAdvance
<1> USE DEF TypeInv, TypeOK, PgTypeOK
<1>1. PICK row : row = [m EXCEPT !.id = memberSeq + 1]
      OBVIOUS
<1>2. row.id = memberSeq + 1 /\ row.battle = m.battle /\ Untouched(row)
      BY <1>1 DEF BattleMember, Untouched
<1>3. members' = members \cup {row} /\ memberSeq' = memberSeq + 1
      BY <1>1 DEF CreateMember
<1>4. m.battle <= battleSeq
      BY DEF Insertable, SoundCopies, Sound
<1>5. \A n \in members : n.id <= memberSeq /\ n.id \in Nat
      BY DEF FitCopies, FitMember, BattleMember
<1>6. \A r, s \in members : r.id = s.id => r.battle = s.battle
      BY DEF FitCopies, FitMember
<1>7. (\A r, s \in members : r.id = s.id => r.battle = s.battle)'
      BY <1>2, <1>3, <1>5, <1>6
<1> QED BY <1>2, <1>3, <1>4, <1>7 DEF FitCopies, MembersAdvance

-----------------------------------------------------------------------------
(* Steps of a handler: control *)

\* What has to be shown of a step of a handler: it starts no battle, and what it
\* goes on with fits.
HandlerFit(h) ==
    /\ RowsAdvance({}, {}) /\ MembersAdvance
    /\ \A g \in Handlers \ {h} : handler'[g] = handler[g]
    /\ FitHandler(handler'[h])
    /\ Starting(handler'[h]) => Starting(handler[h]) /\ handler'[h].b = handler[h].b

\* A label at which a handler holds nothing new: a lobby it held already, or the
\* AI battle it is starting.
PlainLabel(h, label) ==
    /\ label \notin ConfirmLabels \cup
          {"leaveFindMember", "leaveSave", "loadAI", "saveAI", "answerFindMember",
           "answerSave"}
    /\ label \in LobbyLabels => handler[h].at \in LobbyLabels
    /\ label \in {"createCreator", "findOpponent", "startBattle"} => Starting(handler[h])

LEMMA IdleFits == FitHandler(Idle) /\ ~Starting(Idle)
BY DEF Idle, FitHandler, Starting, ConfirmLabels, LobbyLabels

LEMMA ReturnFits ==
    ASSUME ApiTypeOK, NEW h \in Handlers, Return(h) \/ Respond(h),
           RowsAdvance({}, {}), MembersAdvance
    PROVE  HandlerFit(h)
BY IdleFits DEF ApiTypeOK, Return, Respond, HandlerFit

LEMMA GotoFits ==
    ASSUME ApiTypeOK, FitCopies, NEW h \in Handlers, NEW label, Goto(h, label),
           PlainLabel(h, label), RowsAdvance({}, {}), MembersAdvance
    PROVE  HandlerFit(h)
<1>1. CASE label = "idle"
      BY <1>1, ReturnFits DEF Goto
<1>2. CASE label # "idle"
  <2>1. PICK s : s = handler'[h]
        OBVIOUS
  <2>2. s.at = label /\ s.b = handler[h].b
        BY <1>2, <2>1 DEF ApiTypeOK, HandlerState, Goto
  <2>3. FitHandler(handler[h])
        BY DEF FitCopies
  <2>4. Starting(s) => Starting(handler[h])
        BY <2>2 DEF Starting, PlainLabel
  <2>5. FitHandler(s)
        BY <2>2, <2>3, <2>4 DEF FitHandler, PlainLabel
  <2>6. \A g \in Handlers \ {h} : handler'[g] = handler[g]
        BY <1>2 DEF ApiTypeOK, Goto
  <2> QED BY <2>1, <2>2, <2>4, <2>5, <2>6 DEF HandlerFit
<1> QED BY <1>1, <1>2

\* The handler goes on with a battle it has read.
LEMMA HoldBattleFits ==
    ASSUME ApiTypeOK, NEW h \in Handlers, NEW b, NEW label, HoldBattle(h, b, label),
           label \in {"existsInBattle", "saveLevel", "countMembers", "setOnQueue",
                      "changeCount", "changeOpponent", "answerFindMember",
                      "leaveDeleteMembers", "leaveDelete"},
           label \in LobbyLabels => b.questions = {},
           label = "answerFindMember" => FitBattle(b),
           RowsAdvance({}, {}), MembersAdvance
    PROVE  HandlerFit(h)
<1>1. PICK s : s = handler'[h]
      OBVIOUS
<1>2. s.at = label /\ s.b = b
      BY <1>1 DEF ApiTypeOK, HandlerState, HoldBattle
<1>3. ~Starting(s)
      BY <1>2 DEF Starting
<1>4. FitHandler(s)
      BY <1>2, <1>3 DEF FitHandler, ConfirmLabels
<1>5. \A g \in Handlers \ {h} : handler'[g] = handler[g]
      BY DEF ApiTypeOK, HoldBattle
<1> QED BY <1>1, <1>3, <1>4, <1>5 DEF HandlerFit

LEMMA RowsFit ==
    ASSUME TypeInv, SoundCopies, FitCopies, NEW b \in battles
    PROVE  /\ FitBattle(b)
           /\ b.status \in {"WAITING", "ON_QUEUE"} => b.questions = {} /\ b.type # "AI"
           /\ b.type # "AI" => b.status \in {"WAITING", "ON_QUEUE"} /\ b.questions = {}
<1>1. b.id <= battleSeq /\ RowIsTimed(b)
      BY DEF SoundCopies, Sound
<1> QED BY <1>1 DEF FitCopies, FitBattle, IsUnstarted, LobbyRow, RowIsTimed

LEMMA InsertFits ==
    ASSUME TypeInv, SoundCopies, FitCopies, NEW h \in Handlers, NEW m \in BattleMember,
           Untouched(m), NEW next, InsertMember(h, m, next), PlainLabel(h, next),
           battles' = battles, battleSeq' = battleSeq
    PROVE  HandlerFit(h)
<1> USE DEF TypeInv, TypeOK
<1>1. RowsAdvance({}, {})
      BY RowsStay
<1>2. CASE Insertable(m)
      BY <1>1, <1>2, UntouchedAdded, GotoFits DEF InsertMember
<1>3. CASE ~Insertable(m)
      BY <1>1, <1>3, MembersStay, ReturnFits DEF InsertMember
<1> QED BY <1>2, <1>3

LEMMA NewMemberUntouched ==
    ASSUME NEW b, NEW s, NEW memberType
    PROVE  Untouched(NewMember(b, s, memberType)) /\ Untouched(AIOpponent(b, s))
BY DEF AIOpponent, NewMember, NoMember, Untouched

LEMMA OpponentFits ==
    ASSUME TypeInv, SoundCopies, FitCopies, NEW h \in Handlers,
           NEW next, MakeAIOpponent(h, next), PlainLabel(h, next),
           battles' = battles, battleSeq' = battleSeq
    PROVE  HandlerFit(h)
<1>1. ASSUME NEW bot \in Bots
      PROVE  AIOpponent(handler[h].b, bot) \in BattleMember
  <2>1. NewMember(handler[h].b, bot, "AI") \in BattleMember
        BY NewMemberType, Locals DEF TypeInv, TypeOK, Students, MemberType
  <2> QED BY <2>1 DEF AIOpponent, BattleMember, MemberStatus
<1>2. CASE Return(h) /\ UNCHANGED <<members, memberSeq>>
      BY <1>2, RowsStay, MembersStay, ReturnFits DEF TypeInv, TypeOK
<1>3. CASE \E bot \in Bots : InsertMember(h, AIOpponent(handler[h].b, bot), next)
      BY <1>1, <1>3, NewMemberUntouched, InsertFits
<1> QED BY <1>2, <1>3 DEF MakeAIOpponent

\* The handler answers, or goes on with the battle it found.
LEMMA FindBattleFits ==
    ASSUME TypeInv, SoundCopies, FitCopies, NEW h \in Handlers, NEW from, NEW next,
           FindBattle(h, from, next),
           \A b \in battles : next[b] # "idle" =>
               /\ next[b] \in {"changeCount", "answerFindMember", "leaveDeleteMembers",
                               "leaveDelete"}
               /\ next[b] \in LobbyLabels => b.questions = {}
    PROVE  HandlerFit(h)
<1>1. RowsAdvance({}, {}) /\ MembersAdvance
      BY RowsStay, MembersStay DEF FindBattle, pgVars
<1>2. CASE Return(h)
      BY <1>1, <1>2, ReturnFits DEF TypeInv, TypeOK
<1>3. ASSUME NEW b \in battles, next[b] # "idle", HoldBattle(h, b, next[b])
      PROVE  HandlerFit(h)
      BY <1>1, <1>3, RowsFit, HoldBattleFits DEF TypeInv, TypeOK
<1> QED BY <1>2, <1>3 DEF FindBattle, FindByUUID

-----------------------------------------------------------------------------
(* Steps of a handler: find.go and change_type.go *)

\* A handler holds a lobby that it read WAITING.
LEMMA LobbyLocals ==
    ASSUME TypeInv, SoundCopies, FitCopies, NEW h \in Handlers,
           handler[h].at \in LobbyLabels
    PROVE  /\ handler[h].b \in Battle /\ handler[h].b.questions = {}
           /\ handler[h].b.status = "WAITING"
           /\ \A r \in battles : r.id = handler[h].b.id => r.type # "AI"
<1>1. handler[h].b \in Battle /\ SoundHandler(handler[h]) /\ FitHandler(handler[h])
      BY HandlerLocals DEF FitCopies
<1>2. Sound(handler[h].b) /\ handler[h].b.status = "WAITING"
      BY <1>1 DEF SoundHandler, LoadedLabels
<1>3. handler[h].b.type # "AI"
      BY <1>2, LobbyCopyIsNotAI DEF Sound
<1> QED BY <1>1, <1>2, <1>3 DEF FitHandler, Sound

LEMMA FindFits ==
    ASSUME TypeInv, SoundCopies, FitCopies, NEW h \in Handlers,
           \/ FindWaitingBattle(h) \/ CheckExistsInBattle(h) \/ CreateParticipant(h)
           \/ CountMembers(h) \/ CreateCreator(h) \/ FindOpponent(h)
           \/ ChangeCount(h) \/ ChangeOpponent(h) \/ ChangeFind(h)
    PROVE  HandlerFit(h)
<1> USE HandlerLocals DEF At, PlainLabel, ConfirmLabels, LobbyLabels
<1>0. handler[h].student \in Students \cup {NoStudent} /\ FitHandler(handler[h])
      BY Locals DEF FitCopies
<1>1. CASE FindWaitingBattle(h)
  <2>0. RowsAdvance({}, {}) /\ MembersAdvance
        BY <1>1, RowsStay, MembersStay DEF FindWaitingBattle, pgVars
  <2>1. CASE \E b \in FindWaiting(handler[h].b.type) : HoldBattle(h, b, "existsInBattle")
    <3>1. PICK b \in battles : b.status = "WAITING" /\ HoldBattle(h, b, "existsInBattle")
          BY <2>1 DEF FindWaiting
    <3> QED BY <2>0, <3>1, RowsFit, HoldBattleFits
  <2>2. CASE Goto(h, "createBattle")
        BY <2>0, <2>2, GotoFits
  <2> QED BY <1>1, <2>1, <2>2 DEF FindWaitingBattle
<1>2. CASE CheckExistsInBattle(h) \/ CountMembers(h) \/ ChangeCount(h)
  <2>0. RowsAdvance({}, {}) /\ MembersAdvance
        BY <1>2, RowsStay, MembersStay
           DEF CheckExistsInBattle, CountMembers, ChangeCount, pgVars
  <2> QED BY <1>2, <2>0, ReturnFits, GotoFits
          DEF CheckExistsInBattle, CountMembers, ChangeCount
<1>3. CASE CreateParticipant(h)
  <2>1. NewMember(handler[h].b, handler[h].student, "PARTICIPANT") \in BattleMember
        BY <1>0, NewMemberType DEF MemberType
  <2> QED BY <1>3, <2>1, NewMemberUntouched, InsertFits DEF CreateParticipant
<1>4. CASE CreateCreator(h)
  <2>1. NewMember(handler[h].b, handler[h].student, "CREATOR") \in BattleMember
        BY <1>0, NewMemberType DEF MemberType
  <2>2. handler[h].b.type = "AI" => Starting(handler[h])
        BY <1>4 DEF CreateCreator, Starting
  <2> QED BY <1>4, <2>1, <2>2, NewMemberUntouched, InsertFits DEF CreateCreator
<1>5. CASE FindOpponent(h)
  <2>1. Starting(handler[h])
        BY <1>5 DEF FindOpponent, Starting
  <2> QED BY <1>5, <2>1, OpponentFits DEF FindOpponent
<1>6. CASE ChangeOpponent(h)
      BY <1>6, OpponentFits DEF ChangeOpponent
<1>7. CASE ChangeFind(h)
      BY <1>7, FindBattleFits, RowsFit DEF ChangeFind, AfterChangeFind
<1> QED BY <1>1, <1>2, <1>3, <1>4, <1>5, <1>6, <1>7

LEMMA LobbyFits ==
    ASSUME TypeInv, SoundCopies, FitCopies, NEW h \in Handlers,
           LowerLevel(h) \/ SetOnQueue(h) \/ ChangeSave(h)
    PROVE  HandlerFit(h)
<1> DEFINE b == handler[h].b
<1> USE DEF TypeInv, TypeOK
<1>0. /\ b \in Battle /\ b.questions = {} /\ b.status = "WAITING"
      /\ \A r \in battles : r.id = b.id => r.type # "AI"
      BY LobbyLocals DEF LowerLevel, SetOnQueue, ChangeSave, At, LobbyLabels
<1>1. MembersAdvance
      BY MembersStay DEF LowerLevel, SetOnQueue, ChangeSave
<1>2. battles' = battles => RowsAdvance({}, {})
      BY RowsStay DEF LowerLevel, SetOnQueue, ChangeSave
<1>3. ASSUME NEW c \in Battle, c.id = b.id, c.questions = {},
             c.status \in {"WAITING", "ON_QUEUE"}, SaveBattle(c)
      PROVE  RowsAdvance({}, {})
      BY <1>0, <1>3, LobbySaved DEF LowerLevel, SetOnQueue, ChangeSave
<1>4. CASE Return(h) /\ UNCHANGED battles
      BY <1>1, <1>2, <1>4, ReturnFits
<1>5. CASE LowerLevel(h)
  <2>1. PICK c : c = [b EXCEPT !.level = Level[handler[h].student]]
        OBVIOUS
  <2>2. Level[handler[h].student] \in Nat
        BY <1>5, StudentsAssumption DEF LowerLevel, StudentsAtWork, At
  <2>3. c \in Battle /\ c.id = b.id /\ c.questions = {} /\ c.status = "WAITING"
        BY <1>0, <2>1, <2>2 DEF Battle
  <2>4. CASE Goto(h, "countMembers") /\ UNCHANGED battles
    <3>1. PlainLabel(h, "countMembers")
          BY <1>5 DEF LowerLevel, At, PlainLabel, ConfirmLabels, LobbyLabels
    <3> QED BY <1>1, <1>2, <2>4, <3>1, GotoFits
  <2>5. CASE SaveBattle(c) /\ HoldBattle(h, c, "countMembers")
        BY <1>1, <1>3, <2>3, <2>5, HoldBattleFits
  <2> QED BY <1>4, <1>5, <2>1, <2>4, <2>5 DEF LowerLevel
<1>6. CASE SetOnQueue(h)
  <2>1. PICK c : c = OnQueue(b)
        OBVIOUS
  <2>2. c \in Battle /\ c.id = b.id /\ c.questions = {} /\ c.status = "ON_QUEUE"
        BY <1>0, <2>1 DEF OnQueue, Battle, BattleStatus
  <2>3. CASE SaveBattle(c) /\ Respond(h)
        BY <1>1, <1>3, <2>2, <2>3, ReturnFits
  <2> QED BY <1>4, <1>6, <2>1, <2>3 DEF SetOnQueue
<1>7. CASE ChangeSave(h)
  <2>1. PICK c : c = [OnQueue(b) EXCEPT !.type = "AI"]
        OBVIOUS
  <2>2. c \in Battle /\ c.id = b.id /\ c.questions = {} /\ c.status = "ON_QUEUE"
        BY <1>0, <2>1 DEF OnQueue, Battle, BattleStatus, BattleType
  <2>3. CASE SaveBattle(c) /\ HoldBattle(h, c, "changeOpponent")
        BY <1>1, <1>3, <2>2, <2>3, HoldBattleFits DEF LobbyLabels
  <2> QED BY <1>4, <1>7, <2>1, <2>3 DEF ChangeSave
<1> QED BY <1>5, <1>6, <1>7

-----------------------------------------------------------------------------
(* The rules of a battle keep a member complete *)

\* Answers to different questions of qs are as many as qs when every question of qs
\* is answered.
LEMMA FullAnswers ==
    ASSUME NEW m, Single(m), NEW qs, IsFiniteSet(qs), Answered(m) \subseteq qs
    PROVE  Cardinality(m.answers) = Cardinality(qs) <=> Answered(m) = qs
<1> DEFINE f == [a \in m.answers |-> a.question]
<1>1. f \in Injection(m.answers, qs)
      BY DEF Single, Answered, Injection, IsInjective
<1>2. f \in Surjection(m.answers, qs) <=> Answered(m) = qs
      BY <1>1 DEF Answered, Surjection, Injection
<1> HIDE DEF f
<1> QED BY <1>1, <1>2, FS_Injection

LEMMA FiniteQuestions ==
    ASSUME NEW b \in Battle
    PROVE  IsFiniteSet(b.questions)
<1>1. b.questions \in SUBSET Questions
      BY DEF Battle
<1> QED BY <1>1, FS_Subset, QuestionsAssumption

\* A member that fits is left fitting by whatever keeps its identity and is
\* complete for the questions of a battle that has started.
LEMMA CompletedFits ==
    ASSUME NEW m, FitMember(m), NEW b, FitBattle(b), m.battle = b.id,
           b.questions # {},
           NEW n, n.id = m.id, n.battle = m.battle,
           Complete(b.questions, m) => Complete(b.questions, n)
    PROVE  FitMember(n)
<1>1. ASSUME NEW r \in battles, r.id = m.battle
      PROVE  ~IsUnstarted(r) /\ r.questions \in {{}, b.questions}
      BY <1>1 DEF FitBattle
<1> QED BY <1>1 DEF FitMember, Complete


\* An accepted answer: the member is finished by the one that completes the battle.
LEMMA AnswerCompletes ==
    ASSUME NEW b \in Battle, NEW m \in BattleMember, Single(m),
           NEW q, NEW isCorrect, MayProcessAnswer(b, m, q), NEW n,
           n = [ProcessAnswer(b, m, q, isCorrect) EXCEPT !.lastQuestionAt = TRUE]
    PROVE  Complete(b.questions, m) => Complete(b.questions, n)
<1> DEFINE qs == b.questions
<1>0. PICK answer : answer = [question |-> q, isCorrect |-> isCorrect]
      OBVIOUS
<1>2. /\ n.answers = m.answers \cup {answer}
      /\ n.isFinished = (m.isFinished \/ Cardinality(n.answers) = Cardinality(qs))
      BY <1>0 DEF ProcessAnswer, BattleMember
<1>3. Answered(n) = Answered(m) \cup {q}
  <2>1. answer.question = q
        BY <1>0
  <2> QED BY <1>2, <2>1 DEF Answered
<1>4. q \in qs /\ q \notin Answered(m)
      BY DEF MayProcessAnswer
<1>5. Single(n)
      BY ProcessedSingle
<1>6. ASSUME Complete(qs, m)
      PROVE  Complete(qs, n)
  <2>1. Answered(m) \subseteq qs /\ m.isFinished = FALSE
        BY <1>4, <1>6 DEF Complete, BattleMember
  <2>2. Answered(n) \subseteq qs
        BY <1>3, <1>4, <2>1
  <2>3. Cardinality(n.answers) = Cardinality(qs) <=> Answered(n) = qs
        BY <1>5, <2>2, FullAnswers, FiniteQuestions
  <2> QED BY <1>2, <2>1, <2>2, <2>3 DEF Complete
<1> QED BY <1>2, <1>6

LEMMA AnswerFits ==
    ASSUME NEW b \in Battle, FitBattle(b), NEW m \in BattleMember, FitMember(m),
           Single(m), m.battle = b.id, NEW q, NEW isCorrect, MayProcessAnswer(b, m, q)
    PROVE  FitMember([ProcessAnswer(b, m, q, isCorrect) EXCEPT !.lastQuestionAt = TRUE])
<1>1. PICK n : n = [ProcessAnswer(b, m, q, isCorrect) EXCEPT !.lastQuestionAt = TRUE]
      OBVIOUS
<1>2. Complete(b.questions, m) => Complete(b.questions, n)
      BY <1>1, AnswerCompletes
<1>3. n.id = m.id /\ n.battle = m.battle
      BY <1>1 DEF ProcessAnswer, BattleMember
<1>4. FitMember(n)
      BY <1>2, <1>3, CompletedFits DEF MayProcessAnswer
<1> QED BY <1>1, <1>4

\* Blanks finish a member, and change nothing of one that was complete.
LEMMA BlanksComplete ==
    ASSUME NEW b, b.questions # {}, NEW m \in BattleMember, NEW n, n = FillBlanks(b, m)
    PROVE  Complete(b.questions, m) =>
              /\ Complete(b.questions, n)
              /\ m.isFinished => n.answers = m.answers
<1> DEFINE qs == b.questions
<1>2. PICK blanks : blanks = [question : qs \ Answered(m), isCorrect : {FALSE}]
      OBVIOUS
<1>3. n.isFinished = TRUE /\ n.answers = m.answers \cup blanks
      BY <1>2 DEF FillBlanks, BattleMember
<1>4. {a.question : a \in blanks} = qs \ Answered(m)
  <2>1. \A a \in blanks : a.question \in qs \ Answered(m)
        BY <1>2
  <2>2. \A q \in qs \ Answered(m) :
          [question |-> q, isCorrect |-> FALSE] \in blanks
        BY <1>2
  <2>3. \A q \in qs \ Answered(m) : \E a \in blanks : a.question = q
        BY <2>2
  <2> QED BY <2>1, <2>3
<1>5. Answered(n) = Answered(m) \cup (qs \ Answered(m))
      BY <1>3, <1>4 DEF Answered
<1>6. Answered(m) = qs => blanks = {}
      BY <1>4
<1> QED BY <1>3, <1>5, <1>6 DEF Complete

LEMMA BlanksFit ==
    ASSUME NEW b \in Battle, FitBattle(b), b.questions # {},
           NEW m \in BattleMember, FitMember(m), m.battle = b.id
    PROVE  FitMember(FillBlanks(b, m))
<1>1. PICK n : n = FillBlanks(b, m)
      OBVIOUS
<1>2. Complete(b.questions, m) => Complete(b.questions, n)
      BY <1>1, BlanksComplete
<1>3. n.id = m.id /\ n.battle = m.battle
      BY <1>1 DEF FillBlanks, BattleMember
<1>4. FitMember(n)
      BY <1>2, <1>3, CompletedFits
<1> QED BY <1>1, <1>4

\* A bot answers everything.
LEMMA FilledAICompletes ==
    ASSUME NEW b, b.questions # {}, NEW m \in BattleMember, NEW n \in FilledAIMembers(b, m)
    PROVE  /\ n.id = m.id /\ n.battle = m.battle /\ n.student = m.student
           /\ n.type = m.type /\ n.status = m.status
           /\ Complete(b.questions, n)
<1> DEFINE qs == b.questions
<1>1. PICK right \in SUBSET qs :
        n = [m EXCEPT !.answers = [question : right, isCorrect : {TRUE}] \cup
                                  [question : qs \ right, isCorrect : {FALSE}],
                      !.isFinished = TRUE,
                      !.currentQuestion = Cardinality(qs)]
      BY Zenon DEF FilledAIMembers
<1>2. PICK yes : yes = [question : right, isCorrect : {TRUE}]
      OBVIOUS
<1>3. PICK wrong : wrong = qs \ right
      OBVIOUS
<1>4. PICK no : no = [question : wrong, isCorrect : {FALSE}]
      OBVIOUS
<1>5. /\ n.id = m.id /\ n.battle = m.battle /\ n.student = m.student
      /\ n.type = m.type /\ n.status = m.status /\ n.isFinished = TRUE
      /\ n.answers = yes \cup no
      BY <1>1, <1>2, <1>3, <1>4 DEF BattleMember
<1>6. \A a \in yes \cup no : a.question \in qs
      BY <1>2, <1>3, <1>4
<1>7. ASSUME NEW q \in qs
      PROVE  \E a \in yes \cup no : a.question = q
  <2>1. CASE q \in right
    <3>1. [question |-> q, isCorrect |-> TRUE] \in yes
          BY <1>2, <2>1
    <3> QED BY <3>1
  <2>2. CASE q \in wrong
    <3>1. [question |-> q, isCorrect |-> FALSE] \in no
          BY <1>4, <2>2
    <3> QED BY <3>1
  <2> QED BY <1>3, <2>1, <2>2
<1>8. Answered(n) = qs
      BY <1>5, <1>6, <1>7 DEF Answered
<1> QED BY <1>5, <1>8 DEF Complete

LEMMA FilledAIFits ==
    ASSUME NEW b \in Battle, FitBattle(b), b.questions # {},
           NEW m \in BattleMember, FitMember(m), m.battle = b.id,
           NEW n \in FilledAIMembers(b, m)
    PROVE  FitMember(n)
BY FilledAICompletes, CompletedFits

-----------------------------------------------------------------------------
(* Steps of a handler: answer.go, leave.go and the AI members of a start *)

LEMMA AnswerStepsFit ==
    ASSUME TypeInv, SoundCopies, SingleCopies, FitCopies, NEW h \in Handlers,
           AnswerFind(h) \/ AnswerFindMember(h) \/ AnswerSave(h)
    PROVE  HandlerFit(h)
<1> DEFINE b == handler[h].b
           m == handler[h].m
<1> USE HandlerLocals
<1>0. /\ FitHandler(handler[h]) /\ b \in Battle /\ m \in BattleMember /\ Single(m)
      BY Locals DEF FitCopies, SingleCopies, SingleHandler
<1>1. CASE AnswerFind(h)
      BY <1>1, FindBattleFits DEF AnswerFind, AfterAnswerFind, LobbyLabels
<1>2. CASE AnswerFindMember(h)
  <2>0. RowsAdvance({}, {}) /\ MembersAdvance
        BY <1>2, RowsStay, MembersStay DEF AnswerFindMember, FindMember, pgVars
  <2>1. FitBattle(b)
        BY <1>0, <1>2 DEF AnswerFindMember, FindMember, At, FitHandler
  <2>2. ASSUME NEW n \in members, n.battle = b.id, HoldMember(h, n, "answerSave")
        PROVE  HandlerFit(h)
    <3>1. PICK s : s = handler'[h]
          OBVIOUS
    <3>2. s.at = "answerSave" /\ s.b = b /\ s.m = n
          BY <2>2, <3>1 DEF ApiTypeOK, HandlerState, HoldMember
    <3>3. FitMember(n)
          BY DEF FitCopies
    <3>4. FitHandler(s) /\ ~Starting(s)
          BY <2>1, <2>2, <3>2, <3>3 DEF FitHandler, Starting, ConfirmLabels, LobbyLabels
    <3>5. \A g \in Handlers \ {h} : handler'[g] = handler[g]
          BY <2>2 DEF ApiTypeOK, HoldMember
    <3> QED BY <2>0, <3>1, <3>4, <3>5 DEF HandlerFit
  <2>3. CASE Goto(h, "idle")
        BY <2>0, <2>3, ReturnFits DEF Goto
  <2> QED BY <1>2, <2>2, <2>3
          DEF AnswerFindMember, FindMember, FindByBattleAndStudent, MembersOf
<1>3. CASE AnswerSave(h)
  <2>0. RowsAdvance({}, {})
        BY <1>3, RowsStay DEF AnswerSave, SaveHeld, pgVars
  <2>1. FitBattle(b) /\ FitMember(m) /\ m.battle = b.id
        BY <1>0, <1>3 DEF AnswerSave, At, FitHandler
  <2>2. ASSUME NEW q \in Questions, NEW isCorrect \in BOOLEAN, NEW n,
               n = [ProcessAnswer(b, m, q, isCorrect) EXCEPT !.lastQuestionAt = TRUE],
               MayProcessAnswer(b, m, q), SaveHeld(h, n)
        PROVE  HandlerFit(h)
    <3>1. ProcessAnswer(b, m, q, isCorrect) \in BattleMember
          BY <1>0, ProcessAnswerType
    <3>2. n \in BattleMember
          BY <2>2, <3>1 DEF BattleMember
    <3>3. FitMember(n)
          BY <1>0, <2>1, <2>2, AnswerFits
    <3> QED BY <2>0, <2>2, <3>2, <3>3, FitSaved, MembersStay, ReturnFits DEF SaveHeld
  <2>3. CASE Return(h) /\ UNCHANGED pgVars
        BY <2>0, <2>3, MembersStay, ReturnFits DEF pgVars
  <2> QED BY <1>3, <2>2, <2>3 DEF AnswerSave
<1> QED BY <1>1, <1>2, <1>3

\* Only an AI battle goes on, and so nobody leaves one by blanks.
LEMMA LeaveStepsFit ==
    ASSUME TypeInv, SoundCopies, FitCopies, NEW h \in Handlers,
           \/ LeaveFind(h) \/ LeaveDeleteMembers(h) \/ LeaveDeleteBattle(h)
           \/ LeaveFindMember(h) \/ LeaveSave(h) \/ LeaveDelete(h)
    PROVE  HandlerFit(h)
<1> USE HandlerLocals
<1>1. CASE LeaveFind(h)
  <2>1. \A b \in battles : AfterLeaveFind(b) \in {"idle", "leaveDeleteMembers", "leaveDelete"}
        BY RowsFit DEF AfterLeaveFind
  <2> QED BY <1>1, <2>1, FindBattleFits DEF LeaveFind, LobbyLabels
<1>2. CASE LeaveFindMember(h) \/ LeaveSave(h)
      BY <1>2 DEF LeaveFindMember, FindMember, LeaveSave, At, FitCopies, FitHandler
<1>3. CASE LeaveDeleteMembers(h)
  <2>1. RowsAdvance({}, {}) /\ MembersAdvance
        BY <1>3, RowsStay, MembersStay DEF LeaveDeleteMembers, DeleteByBattle
  <2> QED BY <1>3, <2>1, GotoFits
          DEF LeaveDeleteMembers, PlainLabel, ConfirmLabels, LobbyLabels
<1>4. CASE LeaveDeleteBattle(h)
      BY <1>4, RowsStay, MembersStay, ReturnFits DEF LeaveDeleteBattle, DeleteBattle
<1>5. CASE LeaveDelete(h)
      BY <1>5, RowsStay, MembersStay, ReturnFits DEF LeaveDelete, DeleteByBattleAndStudent
<1> QED BY <1>1, <1>2, <1>3, <1>4, <1>5

LEMMA AIMembersFit ==
    ASSUME TypeInv, SoundCopies, FitCopies, NEW h \in Handlers, LoadAI(h) \/ SaveAI(h)
    PROVE  HandlerFit(h)
<1> DEFINE b == handler[h].b
<1> USE HandlerLocals
<1>0. /\ FitHandler(handler[h]) /\ b \in Battle /\ handler[h].ms \subseteq BattleMember
      /\ FitBattle(b) /\ b.questions # {}
      BY Locals DEF FitCopies, LoadAI, SaveAI, At, FitHandler
<1>1. RowsAdvance({}, {})
      BY RowsStay DEF LoadAI, SaveAI, pgVars
<1>2. ASSUME NEW ms, FitMembers(ms, b.id), HoldMembers(h, ms, "saveAI"), MembersAdvance
      PROVE  HandlerFit(h)
  <2>1. PICK s : s = handler'[h]
        OBVIOUS
  <2>2. s.at = "saveAI" /\ s.b = b /\ s.ms = ms
        BY <1>2, <2>1 DEF ApiTypeOK, HandlerState, HoldMembers
  <2>3. FitHandler(s) /\ ~Starting(s)
        BY <1>0, <1>2, <2>2 DEF FitHandler, Starting, ConfirmLabels, LobbyLabels
  <2>4. \A g \in Handlers \ {h} : handler'[g] = handler[g]
        BY <1>2 DEF ApiTypeOK, HoldMembers
  <2> QED BY <1>1, <1>2, <2>1, <2>3, <2>4 DEF HandlerFit
<1>3. CASE LoadAI(h)
  <2>1. MembersAdvance
        BY <1>3, MembersStay DEF LoadAI, pgVars
  <2>2. FitMembers({m \in MembersOf(b.id) : m.type = "AI"}, b.id)
        BY DEF MembersOf, FitCopies, FitMembers
  <2> QED BY <1>1, <1>2, <1>3, <2>1, <2>2, ReturnFits DEF LoadAI
<1>4. CASE SaveAI(h)
  <2>1. PICK m \in handler[h].ms :
          IF MemberStored(m)
            THEN /\ \E filled \in FilledAIMembers(b, m) : SaveMember(filled)
                 /\ IF handler[h].ms = {m} THEN Respond(h)
                    ELSE HoldMembers(h, handler[h].ms \ {m}, "saveAI")
            ELSE Return(h) /\ UNCHANGED members
        BY <1>4 DEF SaveAI
  <2>2. FitMembers(handler[h].ms, b.id)
        BY <1>0, <1>4 DEF SaveAI, At, FitHandler
  <2>3. \A filled \in FilledAIMembers(b, m) : filled \in BattleMember /\ FitMember(filled)
        BY <1>0, <2>2, FilledAIType, FilledAIFits DEF FitMembers
  <2>4. MembersAdvance
        BY <1>4, <2>1, <2>3, FitSaved, MembersStay DEF SaveAI
  <2>5. FitMembers(handler[h].ms \ {m}, b.id)
        BY <2>2 DEF FitMembers
  <2> QED BY <1>1, <1>2, <2>1, <2>4, <2>5, ReturnFits
<1> QED BY <1>3, <1>4

LEMMA NoConfirmSteps ==
    ASSUME FitCopies, NEW h \in Handlers
    PROVE  ~(ConfirmFind(h) \/ ConfirmFindMember(h) \/ ConfirmSave(h) \/ CountConfirmed(h))
BY DEF FitCopies, FitHandler, ConfirmLabels, ConfirmFind, ConfirmFindMember, ConfirmSave,
       CountConfirmed, FindBattle, FindMember, At

LEMMA RequestFits ==
    ASSUME TypeInv, FitCopies, NoConfirms, NEW h \in Handlers, Request(h)
    PROVE  HandlerFit(h)
<1>1. RowsAdvance({}, {}) /\ MembersAdvance
      BY RowsStay, MembersStay
         DEF Request, FindRequest, ConfirmRequest, AnswerRequest, LeaveRequest,
             ChangeTypeRequest, BattleRequest, Accept, pgVars
<1>2. ASSUME NEW kind, NEW s, NEW b, NEW label, Accept(h, kind, s, b, label),
             label \in {"findWaiting", "answerFind", "leaveFind", "changeFind"}
      PROVE  HandlerFit(h)
  <2>1. handler'[h].at = label
        BY <1>2 DEF Accept, Idle, TypeInv, TypeOK, ApiTypeOK
  <2>2. \A g \in Handlers \ {h} : handler'[g] = handler[g]
        BY <1>2 DEF Accept, TypeInv, TypeOK, ApiTypeOK
  <2>3. FitHandler(handler'[h]) /\ ~Starting(handler'[h])
        BY <1>2, <2>1 DEF FitHandler, Starting, ConfirmLabels, LobbyLabels
  <2> QED BY <1>1, <2>2, <2>3 DEF HandlerFit
<1>3. ~(requests["confirm"] < Budget["confirm"])
      BY DEF NoConfirms, TypeInv, TypeOK, ApiTypeOK, RequestKinds
<1>4. \A s, uuid : ~ConfirmRequest(h, s, uuid)
      BY <1>3 DEF ConfirmRequest, BattleRequest, Accept
<1> QED BY <1>2, <1>4
        DEF Request, FindRequest, AnswerRequest, LeaveRequest, ChangeTypeRequest,
            BattleRequest

-----------------------------------------------------------------------------
(* The inductive step: tables, handlers and kicker *)

\* The tables fit after a statement.
TablesFit ==
    /\ \A r, s \in battles : r.id = s.id => r = s
    /\ \A r \in battles : LobbyRow(r)
    /\ \A id \in sqlBattles : id <= battleSeq
    /\ \A id \in sqlBattles : RowsAre(id, "FINISHED")
    /\ \A m \in members : FitMember(m)

LEMMA MemberRowsFit ==
    ASSUME TypeInv, TypeInv', FitCopies, NEW starts, NEW finishes,
           RowsAdvance(starts, finishes), MembersAdvance
    PROVE  (\A m \in members : FitMember(m))'
<1> USE DEF TypeInv, TypeOK, PgTypeOK
<1> SUFFICES ASSUME NEW n \in members'
             PROVE  FitMember(n)'
    OBVIOUS
<1>0. n \in BattleMember
      OBVIOUS
<1>1. CASE FitMember(n)
      BY <1>0, <1>1, MemberStays
<1>2. CASE n.id = memberSeq + 1 /\ n.id <= memberSeq' /\ Untouched(n) /\ n.battle <= battleSeq
  <2>1. n.battle <= battleSeq'
        BY <1>0, <1>2 DEF RowsAdvance, BattleMember
  <2>2. \A k \in members' : k.id = n.id => k.battle = n.battle
        BY DEF MembersAdvance
  <2>3. \A s \in battles' : Complete(s.questions, n)
        BY <1>2, UntouchedIsComplete
  <2> QED BY <1>2, <2>1, <2>2, <2>3
          DEF FitMember, Untouched, Complete, Answered, IsUnstarted
<1> QED BY <1>1, <1>2 DEF MembersAdvance

LEMMA TablesStayFit ==
    ASSUME TypeInv, TypeInv', FitCopies, NEW starts, NEW finishes,
           RowsAdvance(starts, finishes), MembersAdvance, sqlBattles' = sqlBattles
    PROVE  TablesFit'
<1>1. (\A m \in members : FitMember(m))'
      BY MemberRowsFit
<1>2. (\A id \in sqlBattles : id <= battleSeq)'
      BY DEF FitCopies, RowsAdvance, TypeInv, TypeOK, PgTypeOK, SqlTypeOK
<1>3. ASSUME NEW id \in sqlBattles'
      PROVE  RowsAre(id, "FINISHED")'
      BY StatusStays DEF FitCopies, TypeInv, TypeOK, SqlTypeOK
<1>4. (\A r \in battles : LobbyRow(r))'
      BY DEF RowsAdvance, LobbyRow
<1> QED BY <1>1, <1>2, <1>3, <1>4 DEF TablesFit, RowsAdvance

\* Handlers that did not move, or moved on to what fits.
LEMMA HandlersFit ==
    ASSUME TypeInv, TypeInv', NEW h \in Handlers, FitHandler(handler'[h]),
           NEW starts, NEW finishes, RowsAdvance(starts, finishes), MembersAdvance,
           Starting(handler'[h]) => handler'[h].b.id \notin starts
    PROVE  FitHandler(handler[h])'
<1>1. PICK s : s = handler'[h]
      OBVIOUS
<1>2. s \in HandlerState
      BY <1>1 DEF TypeInv, TypeOK, ApiTypeOK
<1>3. FitHandler(s)'
      BY <1>1, <1>2, HandlerStays
<1> QED BY <1>1, <1>3
        DEF FitHandler, FitMembers, FitMember, FitBattle, Starting, IsUnstarted,
            Untouched, Complete, Answered

\* The worker holds what it held.
LEMMA WorkerFits ==
    ASSUME TypeInv, TypeInv', FitKicker(kicker'), FitEnder(ender'), NEW starts,
           RowsAdvance(starts, {}), MembersAdvance, sqlBattles' = sqlBattles
    PROVE  FitKicker(kicker)' /\ FitEnder(ender)'
<1>1. PICK k : k = kicker'
      OBVIOUS
<1>2. PICK e : e = ender'
      OBVIOUS
<1>3. k \in KickerState /\ e \in EnderState
      BY <1>1, <1>2 DEF TypeInv, TypeOK, WorkerTypeOK
<1>4. FitKicker(k)' /\ FitEnder(e)'
      BY <1>1, <1>2, <1>3, KickerStays, EnderStays
<1>5. FitKicker(kicker)'
      BY <1>1, <1>4 DEF FitKicker, FitMember, Untouched, Complete, Answered, IsUnstarted
<1>6. FitEnder(ender)'
      BY <1>2, <1>4 DEF FitEnder, FitMembers, FitMember, FitBattle, Pending, RowsAre,
                        Untouched, Complete, Answered, IsUnstarted, PassOf
<1> QED BY <1>5, <1>6

LEMMA HandlerStepFits ==
    ASSUME TypeInv, TypeInv', FitCopies, NEW h \in Handlers, HandlerFit(h),
           UNCHANGED <<workerVars, sqlVars>>
    PROVE  FitCopies'
<1>0. sqlBattles' = sqlBattles /\ kicker' = kicker /\ ender' = ender
      BY DEF workerVars, sqlVars
<1>1. TablesFit'
      BY <1>0, TablesStayFit DEF HandlerFit
<1>2. \A g \in Handlers : FitHandler(handler'[g])
      BY DEF FitCopies, HandlerFit
<1>3. \A g \in Handlers : FitHandler(handler[g])'
  <2> SUFFICES ASSUME NEW g \in Handlers
               PROVE  FitHandler(handler[g])'
      OBVIOUS
  <2> QED BY <1>2, HandlersFit DEF HandlerFit
<1>4. \A g \in Handlers :
        Starting(handler'[g]) => Starting(handler[g]) /\ handler'[g].b = handler[g].b
      BY DEF HandlerFit
<1>5. OneStarter'
  <2>1. \A f, g \in Handlers :
          /\ Starting(handler'[f]) /\ Starting(handler'[g])
          /\ handler'[f].b.id = handler'[g].b.id
          => f = g
        BY <1>4 DEF FitCopies, OneStarter
  <2> QED BY <2>1 DEF OneStarter, Starting
<1>6. FitKicker(kicker)' /\ FitEnder(ender)'
  <2>1. FitKicker(kicker') /\ FitEnder(ender')
        BY <1>0 DEF FitCopies
  <2> QED BY <1>0, <2>1, WorkerFits DEF HandlerFit
<1> QED BY <1>1, <1>3, <1>5, <1>6 DEF FitCopies, TablesFit

\* The battle just created is an unstarted AI battle that its creator alone holds,
\* or a lobby.
LEMMA CreateFits ==
    ASSUME TypeInv, TypeInv', SoundCopies, FitCopies, NEW h \in Handlers,
           CreateNewBattle(h), UNCHANGED workerVars
    PROVE  FitCopies'
<1> USE DEF TypeInv, TypeOK
<1>0. sqlBattles' = sqlBattles /\ kicker' = kicker /\ ender' = ender
      BY DEF workerVars, sqlVars, CreateNewBattle
<1>1. PICK c : c = NewBattle(handler[h].b.type, handler[h].student)
      OBVIOUS
<1>2. PICK row : row = NewBattleRow(c)
      OBVIOUS
<1>3. CreateBattle(c) /\ HoldBattle(h, row, "createCreator")
      BY <1>1, <1>2 DEF CreateNewBattle
<1>4. /\ c \in Battle /\ c.questions = {} /\ LobbyRow(c)
      /\ c.type = "AI" => IsUnstarted(c)
  <2>1. Level[handler[h].student] \in Nat
        BY StudentsAssumption DEF CreateNewBattle, StudentsAtWork, At
  <2>2. handler[h].b.type \in BattleType
        BY Locals DEF Battle
  <2> QED BY <1>1, <2>1, <2>2, ZeroValues
          DEF NewBattle, NoBattle, Battle, BattleStatus, LobbyRow, IsUnstarted
<1>5. /\ row.id = battleSeq + 1 /\ row.type = c.type
      /\ c.type = "AI" => IsUnstarted(row) /\ row.questions = {}
      BY <1>2, <1>4 DEF NewBattleRow, Battle, IsUnstarted
<1>6. RowsAdvance({}, {}) /\ MembersAdvance
      BY <1>3, <1>4, RowAdded, MembersStay DEF CreateNewBattle
<1>7. TablesFit'
      BY <1>0, <1>6, TablesStayFit
<1>8. battles' = battles \cup {row} /\ battleSeq' = battleSeq + 1
      BY <1>2, <1>3 DEF CreateBattle
<1>9. \A g \in Handlers \ {h} : handler'[g] = handler[g]
      BY <1>3 DEF ApiTypeOK, HoldBattle
<1>10. handler'[h].at = "createCreator" /\ handler'[h].b = row
      BY <1>3 DEF ApiTypeOK, HandlerState, HoldBattle
<1>11. FitHandler(handler[h])'
  <2>1. PICK s : s = handler'[h]
        OBVIOUS
  <2>2. s.at = "createCreator" /\ s.b = row
        BY <1>10, <2>1
  <2>3. \A r \in battles' : r.id = row.id => r = row
        BY <1>7, <1>8 DEF TablesFit
  <2>4. FitHandler(s)'
        BY <1>5, <1>8, <2>2, <2>3
           DEF FitHandler, Starting, ConfirmLabels, LobbyLabels, IsUnstarted, PgTypeOK
  <2> QED BY <2>1, <2>4
          DEF FitHandler, FitMembers, FitMember, FitBattle, Starting, IsUnstarted,
              Untouched, Complete, Answered
<1>12. \A g \in Handlers : FitHandler(handler[g])'
  <2> SUFFICES ASSUME NEW g \in Handlers, g # h
               PROVE  FitHandler(handler[g])'
      BY <1>11
  <2>1. FitHandler(handler'[g])
        BY <1>9 DEF FitCopies
  <2> QED BY <1>6, <2>1, HandlersFit
<1>13. \A g \in Handlers : Starting(handler[g]) => handler[g].b.id # row.id
  <2>1. \A g \in Handlers : Starting(handler[g]) => handler[g].b.id <= battleSeq
        BY DEF FitCopies, FitHandler
  <2> QED BY <1>5, <2>1, Locals DEF PgTypeOK
<1>14. OneStarter'
  <2>1. \A f, g \in Handlers :
          /\ Starting(handler'[f]) /\ Starting(handler'[g])
          /\ handler'[f].b.id = handler'[g].b.id
          => f = g
        BY <1>9, <1>10, <1>13 DEF FitCopies, OneStarter
  <2> QED BY <2>1 DEF OneStarter, Starting
<1>15. FitKicker(kicker)' /\ FitEnder(ender)'
  <2>1. FitKicker(kicker') /\ FitEnder(ender')
        BY <1>0 DEF FitCopies
  <2> QED BY <1>0, <1>6, <2>1, WorkerFits
<1> QED BY <1>7, <1>12, <1>14, <1>15 DEF FitCopies, TablesFit

\* The battle its creator starts, and nobody else does.
LEMMA StartFits ==
    ASSUME TypeInv, TypeInv', SoundCopies, FitCopies, NEW h \in Handlers,
           NEW qs \in QuestionSets, qs # {}, At(h, "startBattle"),
           SaveBattle(Started(handler[h].b, qs)),
           HoldBattle(h, Started(handler[h].b, qs), "loadAI"),
           UNCHANGED <<members, battleSeq, memberSeq, sqlVars, workerVars>>
    PROVE  FitCopies'
<1> USE DEF TypeInv, TypeOK
<1>b. PICK b : b = handler[h].b
      OBVIOUS
<1>s. PICK starts : starts = {b.id}
      OBVIOUS
<1>0. sqlBattles' = sqlBattles /\ kicker' = kicker /\ ender' = ender
      BY DEF workerVars, sqlVars
<1>1. PICK c : c = Started(b, qs)
      OBVIOUS
<1>2. /\ b \in Battle /\ qs \in SUBSET Questions /\ Sound(b)
      /\ FitHandler(handler[h]) /\ Starting(handler[h])
      BY <1>b, HandlerLocals DEF Questions, FitCopies, Starting, At, SoundHandler, LoadedLabels
<1>3. c \in Battle /\ c.id = b.id /\ c.questions = qs
      BY <1>1, <1>2 DEF Started, Battle, BattleStatus
<1>4. RowsAdvance(starts, {})
  <2>1. \A r \in battles : r.id = b.id => IsUnstarted(r) /\ r.type = "AI"
        BY <1>b, <1>2 DEF FitHandler, Sound
  <2> QED BY <1>b, <1>s, <1>2, <2>1, StartedSaved
<1>5. MembersAdvance
      BY MembersStay
<1>6. TablesFit'
      BY <1>0, <1>4, <1>5, TablesStayFit
<1>7. \A g \in Handlers \ {h} : handler'[g] = handler[g]
      BY DEF ApiTypeOK, HoldBattle
<1>8. handler'[h].at = "loadAI" /\ handler'[h].b = c
      BY <1>b, <1>1 DEF ApiTypeOK, HandlerState, HoldBattle
<1>9. ~Starting(handler'[h])
      BY <1>8 DEF Starting
<1>10. FitBattle(c)'
  <2>1. \A r \in battles' : r.id = c.id => r.questions = qs
    <3>1. \A r \in battles : r.id = c.id => SavedRow(r, c).questions = qs
          BY <1>3 DEF SavedRow, Battle, PgTypeOK
    <3>2. battles' = {IF r.id = c.id THEN SavedRow(r, c) ELSE r : r \in battles}
          BY <1>b, <1>1 DEF SaveBattle
    <3> QED BY <3>1, <3>2
  <2>2. c.id <= battleSeq'
        BY <1>b, <1>2, <1>3 DEF FitHandler
  <2> QED BY <1>3, <2>1, <2>2 DEF FitBattle, IsUnstarted
<1>11. FitHandler(handler[h])'
  <2>1. PICK s : s = handler'[h]
        OBVIOUS
  <2>2. s.at = "loadAI" /\ s.b = c
        BY <1>8, <2>1
  <2>3. FitHandler(s)'
        BY <1>3, <1>10, <2>2
           DEF FitHandler, FitBattle, Starting, ConfirmLabels, LobbyLabels, IsUnstarted
  <2> QED BY <2>1, <2>3
          DEF FitHandler, FitMembers, FitMember, FitBattle, Starting, IsUnstarted,
              Untouched, Complete, Answered
<1>12. \A g \in Handlers : FitHandler(handler[g])'
  <2> SUFFICES ASSUME NEW g \in Handlers, g # h
               PROVE  FitHandler(handler[g])'
      BY <1>11
  <2>1. FitHandler(handler'[g])
        BY <1>7 DEF FitCopies
  <2>2. Starting(handler'[g]) => handler'[g].b.id \notin starts
        BY <1>b, <1>s, <1>2, <1>7 DEF FitCopies, OneStarter
  <2> QED BY <1>4, <1>5, <2>1, <2>2, HandlersFit
<1>13. OneStarter'
  <2>1. \A f, g \in Handlers :
          /\ Starting(handler'[f]) /\ Starting(handler'[g])
          /\ handler'[f].b.id = handler'[g].b.id
          => f = g
        BY <1>7, <1>9 DEF FitCopies, OneStarter
  <2> QED BY <2>1 DEF OneStarter, Starting
<1>14. FitKicker(kicker)' /\ FitEnder(ender)'
  <2>1. FitKicker(kicker') /\ FitEnder(ender')
        BY <1>0 DEF FitCopies
  <2> QED BY <1>0, <1>4, <1>5, <2>1, WorkerFits
<1> QED BY <1>6, <1>12, <1>13, <1>14 DEF FitCopies, TablesFit

LEMMA StartStepFits ==
    ASSUME TypeInv, TypeInv', SoundCopies, FitCopies, NEW h \in Handlers,
           StartBattle(h), UNCHANGED workerVars
    PROVE  FitCopies'
<1>1. PICK qs \in QuestionSets :
        IF qs = {} THEN Respond(h) /\ UNCHANGED battles
        ELSE IF BattleStored(Started(handler[h].b, qs))
               THEN /\ SaveBattle(Started(handler[h].b, qs))
                    /\ HoldBattle(h, Started(handler[h].b, qs), "loadAI")
               ELSE Return(h) /\ UNCHANGED battles
      BY DEF StartBattle
<1>2. CASE (Respond(h) \/ Return(h)) /\ UNCHANGED battles
  <2>1. HandlerFit(h)
        BY <1>2, RowsStay, MembersStay, ReturnFits DEF StartBattle, TypeInv, TypeOK
  <2> QED BY <2>1, HandlerStepFits DEF StartBattle
<1>3. CASE /\ qs # {} /\ SaveBattle(Started(handler[h].b, qs))
           /\ HoldBattle(h, Started(handler[h].b, qs), "loadAI")
      BY <1>3, StartFits DEF StartBattle
<1> QED BY <1>1, <1>2, <1>3

-----------------------------------------------------------------------------
(* Steps of the worker *)

\* A step of a loop moves no handler.
LEMMA LoopStepFits ==
    ASSUME TypeInv, TypeInv', FitCopies, NEW finishes, RowsAdvance({}, finishes),
           MembersAdvance, TablesFit', UNCHANGED apiVars,
           FitKicker(kicker)', FitEnder(ender)'
    PROVE  FitCopies'
<1>0. handler' = handler
      BY DEF apiVars
<1>1. \A h \in Handlers : FitHandler(handler[h])'
  <2> SUFFICES ASSUME NEW h \in Handlers
               PROVE  FitHandler(handler[h])'
      OBVIOUS
  <2>1. FitHandler(handler'[h])
        BY <1>0 DEF FitCopies
  <2> QED BY <2>1, HandlersFit
<1>2. OneStarter'
  <2>1. \A f, g \in Handlers :
          /\ Starting(handler'[f]) /\ Starting(handler'[g])
          /\ handler'[f].b.id = handler'[g].b.id
          => f = g
        BY <1>0 DEF FitCopies, OneStarter
  <2> QED BY <2>1 DEF OneStarter, Starting
<1> QED BY <1>1, <1>2 DEF FitCopies, TablesFit

LEMMA KickNextFits ==
    ASSUME NEW todo, \A b \in todo : b.questions = {}, KickNext(todo)
    PROVE  FitKicker(kicker')
BY DEF KickNext, KickerIdle, FitKicker

\* The kicker goes on with what it held, or less.
LEMMA KickerHoldsFit ==
    ASSUME FitKicker(kicker), kicker'.todo = kicker.todo, kicker'.b = kicker.b,
           kicker'.left \subseteq kicker.left,
           kicker'.at \in {"kick", "reset"} => kicker.at \in {"kick", "reset"}
    PROVE  FitKicker(kicker')
BY DEF FitKicker

LEMMA KickScanFits ==
    ASSUME TypeInv, SoundCopies, FitCopies, KickScan \/ KickLoad
    PROVE  RowsAdvance({}, {}) /\ MembersAdvance /\ FitKicker(kicker')
<1>0. RowsAdvance({}, {}) /\ MembersAdvance
      BY RowsStay, MembersStay DEF KickScan, KickLoad, pgVars
<1>1. CASE KickScan
  <2>1. \A b \in MayBeExpiredOnQueue : b.questions = {}
        BY RowsFit DEF MayBeExpiredOnQueue
  <2> QED BY <1>0, <1>1, <2>1, KickNextFits DEF KickScan
<1>2. CASE KickLoad
  <2>1. PICK b \in kicker.todo :
          /\ kicker'.todo = kicker.todo \ {b} /\ kicker'.b = b
          /\ kicker'.left = MembersOf(b.id) \ KickExpiredMembers(b, MembersOf(b.id))
        BY <1>2 DEF KickLoad
  <2>2. \A c \in kicker.todo : c.questions = {}
        BY DEF FitCopies, FitKicker
  <2>3. \A m \in kicker'.left : FitMember(m)
        BY <2>1 DEF MembersOf, FitCopies
  <2> QED BY <1>0, <2>1, <2>2, <2>3 DEF FitKicker
<1> QED BY <1>1, <1>2

LEMMA KickDeletesFit ==
    ASSUME TypeInv, SoundCopies, FitCopies,
           KickDeleteMembers \/ KickDeleteBattle \/ KickMember \/ KickError
    PROVE  RowsAdvance({}, {}) /\ MembersAdvance /\ FitKicker(kicker')
<1> USE DEF TypeInv, TypeOK
<1>0. RowsAdvance({}, {}) /\ MembersAdvance
      BY RowsStay, MembersStay
         DEF KickDeleteMembers, KickDeleteBattle, KickMember, KickError, DeleteByBattle,
             DeleteBattle, DeleteMember, pgVars
<1>1. FitKicker(kicker) /\ \A b \in kicker.todo : b.questions = {}
      BY DEF FitCopies, FitKicker
<1>2. ASSUME NEW todo \in SUBSET kicker.todo, KickNext(todo)
      PROVE  FitKicker(kicker')
      BY <1>1, <1>2, KickNextFits
<1>3. ASSUME kicker' = [kicker EXCEPT !.at = "deleteBattle"]
      PROVE  FitKicker(kicker')
      BY <1>1, <1>3, KickerHoldsFit DEF WorkerTypeOK, KickerState
<1>4. ASSUME NEW m, KickedOne(m), kicker.at = "kick"
      PROVE  FitKicker(kicker')
      BY <1>1, <1>4, KickerHoldsFit DEF KickedOne, WorkerTypeOK, KickerState
<1>5. ASSUME NEW m, UnconfirmedOne(m), kicker.at = "unconfirm"
      PROVE  FitKicker(kicker')
  <2>1. CASE KickNext(kicker.todo)
        BY <1>2, <2>1
  <2>2. CASE kicker' = [kicker EXCEPT !.left = @ \ {m}]
        BY <1>1, <1>5, <2>2, KickerHoldsFit DEF WorkerTypeOK, KickerState
  <2> QED BY <1>5, <2>1, <2>2 DEF UnconfirmedOne
<1>6. ASSUME NEW b, KickNext(kicker.todo \ {b})
      PROVE  FitKicker(kicker')
      BY <1>1, <1>6, KickNextFits
<1> QED BY <1>0, <1>2, <1>3, <1>4, <1>5, <1>6
        DEF KickDeleteMembers, KickDeleteBattle, KickMember, KickError

LEMMA KickSavesFit ==
    ASSUME TypeInv, SoundCopies, FitCopies, KickReset \/ KickUnconfirm
    PROVE  RowsAdvance({}, {}) /\ MembersAdvance /\ FitKicker(kicker')
<1> USE WorkerLocals DEF TypeInv, TypeOK
<1>1. FitKicker(kicker) /\ \A b \in kicker.todo : b.questions = {}
      BY DEF FitCopies, FitKicker
<1>2. ASSUME KickNext(kicker.todo)
      PROVE  FitKicker(kicker')
      BY <1>1, <1>2, KickNextFits
<1>3. CASE KickReset
  <2>1. PICK c : c = Reset(kicker.b)
        OBVIOUS
  <2>2. Sound(kicker.b) /\ kicker.b.type # "AI" /\ kicker.b.questions = {}
        BY <1>1, <1>3 DEF KickReset, SoundCopies, SoundKicker, FitKicker
  <2>3. /\ c \in Battle /\ c.questions = {} /\ c.status = "WAITING"
        /\ \A r \in battles : r.id = c.id => r.type # "AI"
        BY <2>1, <2>2 DEF Reset, Battle, BattleStatus, Sound
  <2>4. MembersAdvance
        BY <1>3, MembersStay DEF KickReset
  <2>5. CASE SaveBattle(c) /\ kicker' = [kicker EXCEPT !.b = c, !.at = "unconfirm"]
    <3>1. RowsAdvance({}, {})
          BY <1>3, <2>3, <2>5, LobbySaved DEF KickReset
    <3>2. FitKicker(kicker')
          BY <1>1, <2>5 DEF FitKicker, WorkerTypeOK, KickerState
    <3> QED BY <2>4, <3>1, <3>2
  <2>6. CASE KickNext(kicker.todo) /\ UNCHANGED battles
        BY <1>2, <1>3, <2>4, <2>6, RowsStay DEF KickReset
  <2> QED BY <1>3, <2>1, <2>5, <2>6 DEF KickReset
<1>4. CASE KickUnconfirm
  <2>1. PICK m \in kicker.left :
          /\ IF MemberStored(m) THEN SaveMember(Unconfirmed(m)) ELSE UNCHANGED members
          /\ UnconfirmedOne(m)
        BY <1>4 DEF KickUnconfirm
  <2>2. PICK n : n = Unconfirmed(m)
        OBVIOUS
  <2>3. /\ n \in BattleMember /\ n.id = m.id /\ n.battle = m.battle
        /\ n.answers = m.answers /\ n.isFinished = m.isFinished
        /\ n.lastQuestionAt = m.lastQuestionAt
        BY <2>2 DEF Unconfirmed, BattleMember, MemberStatus
  <2>4. FitMember(m)
        BY <1>1 DEF FitKicker
  <2>5. FitMember(n)
        BY <2>3, <2>4 DEF FitMember, Untouched, Complete, Answered
  <2>6. RowsAdvance({}, {}) /\ MembersAdvance
        BY <1>4, <2>1, <2>2, <2>3, <2>5, RowsStay, FitSaved, MembersStay
           DEF KickUnconfirm
  <2>7. CASE kicker' = [kicker EXCEPT !.left = @ \ {m}]
        BY <1>1, <1>4, <2>6, <2>7, KickerHoldsFit
           DEF KickUnconfirm, WorkerTypeOK, KickerState
  <2> QED BY <1>2, <2>1, <2>6, <2>7 DEF UnconfirmedOne
<1> QED BY <1>3, <1>4

LEMMA KickerStepFits ==
    ASSUME TypeInv, TypeInv', SoundCopies, FitCopies, KickerStep \/ KickError,
           UNCHANGED <<apiVars, sqlVars, ender>>
    PROVE  FitCopies'
<1>1. RowsAdvance({}, {}) /\ MembersAdvance /\ FitKicker(kicker')
      BY KickScanFits, KickDeletesFit, KickSavesFit DEF KickerStep
<1>2. sqlBattles' = sqlBattles /\ FitEnder(ender')
      BY DEF sqlVars, FitCopies
<1>3. TablesFit' /\ FitKicker(kicker)' /\ FitEnder(ender)'
      BY <1>1, <1>2, TablesStayFit, WorkerFits
<1> QED BY <1>1, <1>3, LoopStepFits

\* Ranked members are told apart by their students if the members were.
LEMMA RankedApart ==
    ASSUME NEW ms \in SUBSET BattleMember,
           \A m, n \in ms : m.student = n.student => m = n,
           NEW ranked \in RankedMembers(ms)
    PROVE  \A m, n \in ranked : m.student = n.student => m = n
<1>1. PICK place \in Placements(ms) :
        ranked = {[m EXCEPT !.place = place[m],
                            !.points = IF TooManyWrong(m)
                                         THEN 0
                                         ELSE RewardPoints(place[m], Cardinality(ms))] :
                    m \in ms}
      BY Zenon DEF RankedMembers
<1> DEFINE f(m) == [m EXCEPT !.place = place[m],
                             !.points = IF TooManyWrong(m)
                                          THEN 0
                                          ELSE RewardPoints(place[m], Cardinality(ms))]
<1>2. \A m \in ms : f(m).student = m.student
      BY DEF BattleMember
<1>3. ranked = {f(m) : m \in ms}
      BY <1>1, Zenon
<1> HIDE DEF f
<1> QED BY <1>2, <1>3

LEMMA WorkFits ==
    ASSUME NEW pass \in {"Expired", "Idle", "Finished"}, NEW todo, NEW idle,
           \A b \in todo : Pending(b),
           \A b, c \in todo : b.id = c.id => b = c,
           pass \in {"Expired", "Idle"} => \A b \in todo : b.questions # {},
           Work(pass, todo, idle)
    PROVE  FitEnder(ender')
<1>1. /\ AfterPass[pass] \in {"scanIdle", "scanFinished", "scanExpired"}
      /\ LoadLabel[pass] \in {"loadExpired", "loadIdle", "loadFinished"}
      /\ PassOf[LoadLabel[pass]] = pass
  <2>1. CASE pass = "Expired"
        BY <2>1 DEF AfterPass, LoadLabel, PassOf
  <2>2. CASE pass = "Idle"
        BY <2>2 DEF AfterPass, LoadLabel, PassOf
  <2>3. CASE pass = "Finished"
        BY <2>3 DEF AfterPass, LoadLabel, PassOf
  <2> QED BY <2>1, <2>2, <2>3
<1>2. DOMAIN PassOf = {"loadExpired", "loadIdle", "saveIdle", "loadFinished"}
      BY DEF PassOf
<1>3. CASE todo = {}
  <2>1. ender'.at = AfterPass[pass] /\ ender'.todo = {}
        BY <1>3 DEF Work, EnderIdle
  <2> QED BY <1>1, <1>2, <2>1 DEF FitEnder
<1>4. CASE todo # {}
  <2>1. ender'.at = LoadLabel[pass] /\ ender'.pass = pass /\ ender'.todo = todo
        BY <1>4 DEF Work, EnderIdle
  <2> QED BY <1>1, <1>2, <2>1 DEF FitEnder
<1> QED BY <1>3, <1>4

\* The ender goes on with battles of the pass it is in.
LEMMA EndNextFits ==
    ASSUME TypeInv, FitEnder(ender), NEW pass, pass = ender.pass \/ pass = "Finished",
           NEW todo \in SUBSET ender.todo, EndNext(pass, todo)
    PROVE  FitEnder(ender')
<1>1. pass \in {"Expired", "Idle", "Finished"}
      BY WorkerLocals DEF TypeInv, TypeOK
<1> QED BY <1>1, WorkFits DEF FitEnder, EndNext

\* The ender goes on at a label of EndBattle, or with its deletes.
LEMMA EnderHoldsFit ==
    ASSUME FitEnder(ender), ender'.todo = ender.todo, ender'.pass = ender.pass,
           ender'.b = ender.b, ender'.ms = ender.ms,
           \/ ender'.at = "dropBattle"
           \/ ender'.at = ender.at /\ ender'.left \subseteq ender.left
           \/ ender.at = "saveMembers" /\ ender'.at \in {"saveMembers", "sqlBattle"}
           \/ ender.at = "sqlMembers" /\ ender'.at \in {"sqlMembers", "sqlStats"}
    PROVE  FitEnder(ender')
<1>1. DOMAIN PassOf = {"loadExpired", "loadIdle", "saveIdle", "loadFinished"}
      BY DEF PassOf
<1>2. CASE ender'.at = ender.at
      BY <1>2 DEF FitEnder, FitMembers
<1>3. CASE ender'.at # ender.at
      BY <1>1, <1>3 DEF FitEnder
<1> QED BY <1>2, <1>3

LEMMA EnderScanFits ==
    ASSUME TypeInv, SoundCopies, FitCopies, ScanExpired \/ ScanIdle \/ ScanFinished
    PROVE  RowsAdvance({}, {}) /\ MembersAdvance /\ FitEnder(ender')
<1> USE DEF TypeInv, TypeOK
<1>0. RowsAdvance({}, {}) /\ MembersAdvance
      BY RowsStay, MembersStay DEF ScanExpired, ScanIdle, ScanFinished, pgVars
<1>1. ASSUME NEW b \in FindOnGoing
      PROVE  Pending(b)
  <2>1. b \in battles /\ b.status = "ON_GOING"
        BY DEF FindOnGoing
  <2>2. FitBattle(b) /\ b.type = "AI"
        BY <2>1, RowsFit
  <2>3. RowsAre(b.id, "ON_GOING") /\ b.id \notin sqlBattles
        BY <2>1 DEF FitCopies, RowsAre
  <2> QED BY <2>2, <2>3 DEF Pending
<1>2. \A b, c \in FindOnGoing : b.id = c.id => b = c
      BY DEF FindOnGoing, FitCopies
<1>3. CASE ScanExpired
      BY <1>0, <1>1, <1>2, <1>3, WorkFits DEF ScanExpired, EndNext, MayBeOnGoingExpired
<1>4. CASE ScanIdle
  <2>1. PICK idle \in SUBSET {m \in members : \E b \in FindOnGoing :
                                m.battle = b.id /\ MayBeIdle(b, m)} :
          Work("Idle", {b \in FindOnGoing : \E m \in idle : m.battle = b.id}, idle)
        BY <1>4 DEF ScanIdle
  <2>2. ASSUME NEW b \in FindOnGoing, NEW m \in idle, m.battle = b.id
        PROVE  b.questions # {}
    <3>1. m \in members /\ MayBeIdle(b, m)
          BY <1>2, <2>1, <2>2
    <3>2. IsUnstarted(b) => Untouched(m)
          BY <2>2, <3>1 DEF FindOnGoing, FitCopies, FitMember
    <3> QED BY <3>1, <3>2 DEF FindOnGoing, MayBeIdle, IsUnstarted, Untouched
  <2> QED BY <1>0, <1>1, <1>2, <2>1, <2>2, WorkFits
<1>5. CASE ScanFinished
      BY <1>0, <1>1, <1>2, <1>5, WorkFits
         DEF ScanFinished, EndNext, FindOnGoingAllMembersFinished
<1> QED BY <1>3, <1>4, <1>5

\* EndBattle computes members that fit, of a battle that has started.
LEMMA ExecuteFits ==
    ASSUME TypeInv, UniqueMembership, FitCopies, NEW b \in ender.todo,
           NEW fillBlanks \in BOOLEAN, Execute(b, MembersOf(b.id), fillBlanks),
           fillBlanks => b.questions # {},
           \A r \in battles : r.id = b.id => r.questions # {}
    PROVE  FitEnder(ender')
<1> USE DEF TypeInv, TypeOK
<1>1. b \in Battle /\ Pending(b) /\ FitBattle(b)
      BY WorkerLocals DEF FitCopies, FitEnder, Pending
<1>2. PICK ms : ms = Filled(b, MembersOf(b.id), fillBlanks)
      OBVIOUS
<1>3. PICK ranked \in RankedMembers(ms) :
        ender' = [ender EXCEPT !.at = "saveBattle", !.todo = @ \ {b},
                               !.b = Finished(b), !.ms = ranked, !.left = ranked]
      BY <1>2 DEF Execute
<1>4. PICK c : c = Finished(b)
      OBVIOUS
<1>5. /\ ender'.at = "saveBattle" /\ ender'.todo = ender.todo \ {b}
      /\ ender'.pass = ender.pass /\ ender'.b = c /\ ender'.ms = ranked
      BY <1>3, <1>4 DEF WorkerTypeOK, EnderState
<1>6. c.id = b.id /\ c.type = b.type /\ c.questions = b.questions /\ c.status = "FINISHED"
      BY <1>1, <1>4 DEF Finished, Battle
<1>7. Pending(c)
      BY <1>1, <1>6 DEF Pending, FitBattle
<1>8. ASSUME NEW m \in MembersOf(b.id)
      PROVE  m \in BattleMember /\ FitMember(m) /\ m.battle = b.id
      BY DEF MembersOf, FitCopies, PgTypeOK
<1>9. ASSUME NEW n \in ms
      PROVE  /\ n \in BattleMember /\ FitMember(n) /\ n.battle = b.id
             /\ \E m \in MembersOf(b.id) :
                  n = IF fillBlanks /\ ~m.isFinished THEN FillBlanks(b, m) ELSE m
  <2>1. PICK m \in MembersOf(b.id) :
          n = IF fillBlanks /\ ~m.isFinished THEN FillBlanks(b, m) ELSE m
        BY <1>2 DEF Filled
  <2>2. CASE n = m
        BY <1>8, <2>1, <2>2
  <2>3. CASE fillBlanks /\ n = FillBlanks(b, m)
    <3>1. n \in BattleMember /\ n.battle = m.battle
          BY <1>1, <1>8, <2>3, FillBlanksType DEF FillBlanks, BattleMember
    <3>2. FitMember(n)
          BY <1>1, <1>8, <2>3, BlanksFit
    <3> QED BY <1>8, <2>1, <3>1, <3>2
  <2> QED BY <2>1, <2>2, <2>3
<1>10. \A m, n \in ms : m.student = n.student => m = n
  <2>1. \A m \in MembersOf(b.id) : FillBlanks(b, m).student = m.student
        BY <1>8 DEF FillBlanks, BattleMember
  <2>2. \A m, n \in MembersOf(b.id) : m.student = n.student => m = n
        BY DEF MembersOf, UniqueMembership
  <2> QED BY <1>9, <2>1, <2>2
<1>11. FitMembers(ranked, c.id)
  <2> SUFFICES ASSUME NEW n \in ranked
               PROVE  FitMember(n) /\ n.battle = b.id
      BY <1>6 DEF FitMembers
  <2>1. PICK m \in ms : /\ n.answers = m.answers /\ n.id = m.id /\ n.battle = m.battle
                        /\ n.isFinished = m.isFinished
                        /\ n.lastQuestionAt = m.lastQuestionAt
        BY <1>9, RankedKeeps
  <2>2. FitMember(m) /\ m.battle = b.id
        BY <1>9
  <2> QED BY <2>1, <2>2 DEF FitMember, Untouched, Complete, Answered
<1>12. \A m, n \in ranked : m.student = n.student => m = n
      BY <1>9, <1>10, RankedApart
<1>13. \A r \in battles : r.id = c.id => r.questions # {}
      BY <1>6
<1>14. DOMAIN PassOf = {"loadExpired", "loadIdle", "saveIdle", "loadFinished"}
      BY DEF PassOf
<1> QED BY <1>5, <1>6, <1>7, <1>11, <1>12, <1>13, <1>14 DEF FitCopies, FitEnder

LEMMA EnderLoadFits ==
    ASSUME TypeInv, SoundCopies, UniqueMembership, FitCopies,
           LoadExpired \/ LoadIdle \/ LoadFinished
    PROVE  RowsAdvance({}, {}) /\ MembersAdvance /\ FitEnder(ender')
<1> USE DEF TypeInv, TypeOK
<1>0. RowsAdvance({}, {}) /\ MembersAdvance
      BY RowsStay, MembersStay DEF LoadExpired, LoadIdle, LoadFinished, pgVars
<1>1. FitEnder(ender)
      BY DEF FitCopies
<1>2. /\ DOMAIN PassOf = {"loadExpired", "loadIdle", "saveIdle", "loadFinished"}
      /\ PassOf["loadExpired"] = "Expired" /\ PassOf["loadIdle"] = "Idle"
      /\ PassOf["saveIdle"] = "Idle"
      BY DEF PassOf
<1>3. \A b \in ender.todo : b \in Battle /\ Pending(b)
      BY <1>1, WorkerLocals DEF FitEnder
<1>4. CASE LoadExpired
  <2>1. PICK b \in ender.todo :
          \/ ender' = [ender EXCEPT !.at = "dropMembers", !.todo = @ \ {b}, !.b = b]
          \/ Execute(b, MembersOf(b.id), TRUE)
        BY <1>4 DEF LoadExpired
  <2>2. CASE Execute(b, MembersOf(b.id), TRUE)
    <3>1. b.questions # {}
          BY <1>1, <1>2, <1>4 DEF LoadExpired, FitEnder
    <3>2. \A r \in battles : r.id = b.id => r.questions # {}
          BY <1>3, <3>1 DEF Pending, FitBattle, RowsAre, IsUnstarted
    <3> QED BY <1>0, <2>2, <3>1, <3>2, ExecuteFits
  <2>3. CASE ender' = [ender EXCEPT !.at = "dropMembers", !.todo = @ \ {b}, !.b = b]
    <3>1. /\ ender'.at = "dropMembers" /\ ender'.todo = ender.todo \ {b}
          /\ ender'.pass = ender.pass
          BY <2>3 DEF WorkerTypeOK, EnderState
    <3> QED BY <1>0, <1>1, <1>2, <3>1 DEF FitEnder
  <2> QED BY <2>1, <2>2, <2>3
<1>5. CASE LoadIdle
  <2>0. ender.pass = "Idle"
        BY <1>1, <1>2, <1>5 DEF LoadIdle, FitEnder
  <2>1. PICK b \in ender.todo :
          \/ EndNext("Idle", ender.todo \ {b})
          \/ ender' = [ender EXCEPT !.at = "saveIdle", !.todo = @ \ {b}, !.b = b,
                                    !.left = IdleMembers(MembersOf(b.id))]
        BY <1>5 DEF LoadIdle
  <2>2. CASE EndNext("Idle", ender.todo \ {b})
        BY <1>0, <1>1, <2>0, <2>2, EndNextFits
  <2>3. CASE ender' = [ender EXCEPT !.at = "saveIdle", !.todo = @ \ {b}, !.b = b,
                                    !.left = IdleMembers(MembersOf(b.id))]
    <3>1. /\ ender'.at = "saveIdle" /\ ender'.todo = ender.todo \ {b}
          /\ ender'.pass = ender.pass /\ ender'.b = b
          /\ ender'.left = IdleMembers(MembersOf(b.id))
          BY <2>3 DEF WorkerTypeOK, EnderState
    <3>2. FitBattle(b) /\ b.questions # {}
          BY <1>1, <1>3, <2>0 DEF FitEnder, Pending
    <3>3. FitMembers(IdleMembers(MembersOf(b.id)), b.id)
          BY DEF IdleMembers, MembersOf, FitMembers, FitCopies
    <3> QED BY <1>0, <1>1, <1>2, <2>0, <3>1, <3>2, <3>3 DEF FitEnder
  <2> QED BY <2>1, <2>2, <2>3
<1>6. CASE LoadFinished
  <2>1. PICK b \in ender.todo :
          IF AllMembersFinished(MembersOf(b.id))
            THEN Execute(b, MembersOf(b.id), FALSE)
            ELSE EndNext("Finished", ender.todo \ {b})
        BY <1>6 DEF LoadFinished
  <2>2. CASE EndNext("Finished", ender.todo \ {b})
        BY <1>0, <1>1, <2>2, EndNextFits
  <2>3. CASE AllMembersFinished(MembersOf(b.id)) /\ Execute(b, MembersOf(b.id), FALSE)
    <3>1. PICK m \in members : m.battle = b.id /\ m.isFinished
          BY <2>3 DEF AllMembersFinished, MembersOf
    <3>2. \A r \in battles : r.id = b.id => ~IsUnstarted(r)
          BY <3>1 DEF FitCopies, FitMember, Untouched
    <3>3. \A r \in battles : r.id = b.id => r.questions # {}
          BY <1>3, <3>2 DEF Pending, RowsAre, IsUnstarted
    <3> QED BY <1>0, <2>3, <3>3, ExecuteFits
  <2> QED BY <2>1, <2>2, <2>3
<1> QED BY <1>4, <1>5, <1>6

LEMMA EnderDropFits ==
    ASSUME TypeInv, FitCopies, DropMembers \/ DropBattle \/ EndError
    PROVE  RowsAdvance({}, {}) /\ MembersAdvance /\ FitEnder(ender')
<1> USE DEF TypeInv, TypeOK
<1>0. RowsAdvance({}, {}) /\ MembersAdvance
      BY RowsStay, MembersStay
         DEF DropMembers, DropBattle, EndError, DeleteByBattle, DeleteBattle, pgVars
<1>1. FitEnder(ender)
      BY DEF FitCopies
<1>2. ASSUME NEW todo \in SUBSET ender.todo, EndNext(ender.pass, todo)
      PROVE  FitEnder(ender')
      BY <1>1, <1>2, EndNextFits
<1>3. ASSUME ender' = [ender EXCEPT !.at = "dropBattle"]
      PROVE  FitEnder(ender')
      BY <1>1, <1>3, EnderHoldsFit DEF WorkerTypeOK, EnderState
<1>4. ASSUME NEW m, ender.at = "saveIdle",
             IF LeftAfter(m) = {} THEN EndNext("Idle", ender.todo)
                                  ELSE ender' = [ender EXCEPT !.left = LeftAfter(m)]
      PROVE  FitEnder(ender')
  <2>1. ender.pass = "Idle"
        BY <1>1, <1>4 DEF FitEnder, PassOf
  <2>2. CASE EndNext("Idle", ender.todo)
        BY <1>2, <2>1, <2>2
  <2>3. CASE ender' = [ender EXCEPT !.left = LeftAfter(m)]
        BY <1>1, <2>3, EnderHoldsFit DEF LeftAfter, WorkerTypeOK, EnderState
  <2> QED BY <1>4, <2>2, <2>3
<1>5. ASSUME NEW b, EndNext(ender.pass, ender.todo \ {b})
      PROVE  FitEnder(ender')
      BY <1>1, <1>5, EndNextFits
<1> QED BY <1>0, <1>2, <1>3, <1>4, <1>5 DEF DropMembers, DropBattle, EndError, GiveUp

\* The members the ender saves fit.
LEMMA EnderMembersFit ==
    ASSUME TypeInv, FitCopies, CountedEnder, SaveIdle \/ SavePgMember
    PROVE  RowsAdvance({}, {}) /\ MembersAdvance /\ FitEnder(ender')
<1> USE WorkerLocals DEF TypeInv, TypeOK
<1>0. RowsAdvance({}, {})
      BY RowsStay DEF SaveIdle, SavePgMember
<1>1. FitEnder(ender)
      BY DEF FitCopies
<1>2. CASE SaveIdle
  <2>1. PICK m \in ender.left :
          /\ IF MemberStored(m) THEN SaveMember(FillBlanks(ender.b, m))
                                ELSE UNCHANGED members
          /\ IF LeftAfter(m) = {} THEN EndNext("Idle", ender.todo)
                                  ELSE ender' = [ender EXCEPT !.left = LeftAfter(m)]
        BY <1>2 DEF SaveIdle
  <2>2. PICK b : b = ender.b
        OBVIOUS
  <2>3. /\ ender.pass = "Idle" /\ FitBattle(b) /\ b.questions # {}
        /\ b \in Battle /\ m \in BattleMember /\ FitMember(m) /\ m.battle = b.id
        BY <1>1, <1>2, <2>2 DEF SaveIdle, FitEnder, FitMembers, PassOf
  <2>4. PICK n : n = FillBlanks(b, m)
        OBVIOUS
  <2>5. n \in BattleMember /\ FitMember(n)
        BY <2>3, <2>4, FillBlanksType, BlanksFit
  <2>6. SaveMember(n) \/ UNCHANGED members
        BY <2>1, <2>2, <2>4
  <2>7. MembersAdvance
        BY <1>2, <2>5, <2>6, FitSaved, MembersStay DEF SaveIdle
  <2>8. CASE EndNext("Idle", ender.todo)
        BY <1>0, <1>1, <2>3, <2>7, <2>8, EndNextFits
  <2>9. CASE ender' = [ender EXCEPT !.left = LeftAfter(m)]
        BY <1>0, <1>1, <2>7, <2>9, EnderHoldsFit DEF LeftAfter, WorkerTypeOK, EnderState
  <2> QED BY <2>1, <2>8, <2>9
<1>3. CASE SavePgMember
  <2>1. PICK m \in ender.left :
          IF MemberStored(m)
            THEN SaveMember(m) /\ EndedOne(m, "sqlBattle")
            ELSE GiveUp /\ UNCHANGED members
        BY <1>3 DEF SavePgMember
  <2>2. m \in BattleMember /\ FitMember(m)
        BY <1>1, <1>3 DEF SavePgMember, CountedEnder, FitEnder, FitMembers
  <2>3. MembersAdvance
        BY <1>3, <2>1, <2>2, FitSaved, MembersStay DEF SavePgMember
  <2>4. CASE GiveUp
        BY <1>0, <1>1, <2>3, <2>4, EndNextFits DEF GiveUp
  <2>5. CASE EndedOne(m, "sqlBattle")
    <3>1. /\ ender'.todo = ender.todo /\ ender'.pass = ender.pass
          /\ ender'.b = ender.b /\ ender'.ms = ender.ms
          /\ ender'.at \in {"saveMembers", "sqlBattle"}
          BY <1>3, <2>5 DEF SavePgMember, EndedOne, WorkerTypeOK, EnderState
    <3> QED BY <1>0, <1>1, <1>3, <2>3, <3>1, EnderHoldsFit DEF SavePgMember
  <2> QED BY <2>1, <2>4, <2>5
<1> QED BY <1>2, <1>3

\* The copies that two other writes of EndBattle leave alone.
LEMMA EnderCountsFit ==
    ASSUME TypeInv, FitCopies, SaveSqlMember \/ UpsertStats
    PROVE  RowsAdvance({}, {}) /\ MembersAdvance /\ FitEnder(ender')
<1> USE WorkerLocals DEF TypeInv, TypeOK
<1>0. RowsAdvance({}, {}) /\ MembersAdvance
      BY RowsStay, MembersStay DEF SaveSqlMember, UpsertStats, pgVars
<1>1. FitEnder(ender)
      BY DEF FitCopies
<1>2. CASE SaveSqlMember
  <2>1. /\ ender'.todo = ender.todo /\ ender'.pass = ender.pass
        /\ ender'.b = ender.b /\ ender'.ms = ender.ms
        /\ ender'.at \in {"sqlMembers", "sqlStats"}
        BY <1>2 DEF SaveSqlMember, EndedOne, WorkerTypeOK, EnderState
  <2> QED BY <1>0, <1>1, <1>2, <2>1, EnderHoldsFit DEF SaveSqlMember
<1>3. CASE UpsertStats
  <2>1. PICK m \in ender.left :
          GiveUp \/ ender' = [ender EXCEPT !.left = LeftAfter(m)]
        BY <1>3 DEF UpsertStats
  <2>2. CASE GiveUp
        BY <1>0, <1>1, <2>2, EndNextFits DEF GiveUp
  <2>3. CASE ender' = [ender EXCEPT !.left = LeftAfter(m)]
        BY <1>0, <1>1, <2>3, EnderHoldsFit DEF LeftAfter, WorkerTypeOK, EnderState
  <2> QED BY <2>1, <2>2, <2>3
<1> QED BY <1>2, <1>3

\* Steps of the ender that neither finish a battle nor store one.
LEMMA EnderStepFits ==
    ASSUME TypeInv, TypeInv', SoundCopies, UniqueMembership, CountedEnder, FitCopies,
           EndError \/ (EnderStep /\ ~SavePgBattle /\ ~SaveSqlBattle),
           UNCHANGED <<apiVars, kicker>>
    PROVE  FitCopies'
<1>1. RowsAdvance({}, {}) /\ MembersAdvance /\ FitEnder(ender')
      BY EnderScanFits, EnderLoadFits, EnderDropFits, EnderMembersFit, EnderCountsFit
         DEF EnderStep
<1>2. sqlBattles' = sqlBattles
      BY DEF EndError, EnderStep, ScanExpired, LoadExpired, DropMembers, DropBattle,
             ScanIdle, LoadIdle, SaveIdle, ScanFinished, LoadFinished, SavePgMember,
             SaveSqlMember, UpsertStats, sqlVars
<1>3. FitKicker(kicker')
      BY DEF FitCopies
<1>4. TablesFit' /\ FitKicker(kicker)' /\ FitEnder(ender)'
      BY <1>1, <1>2, <1>3, TablesStayFit, WorkerFits
<1> QED BY <1>1, <1>4, LoopStepFits

\* The battle is finished: every other copy of an ON_GOING row is of another battle.
LEMMA FinishFits ==
    ASSUME TypeInv, TypeInv', SoundCopies, FitCopies, ender.at = "saveBattle",
           SaveBattle(ender.b), NEW label, label \in {"saveMembers", "sqlBattle"},
           ender' = [ender EXCEPT !.at = label],
           UNCHANGED <<members, battleSeq, memberSeq, sqlVars, kicker, apiVars>>
    PROVE  FitCopies'
<1> USE WorkerLocals DEF TypeInv, TypeOK
<1>0. sqlBattles' = sqlBattles /\ kicker' = kicker
      BY DEF sqlVars
<1>1. PICK c : c = ender.b
      OBVIOUS
<1>2. PICK finishes : finishes = {c.id}
      OBVIOUS
<1>3. /\ c \in Battle /\ Sound(c) /\ Pending(c) /\ c.status = "FINISHED" /\ c.id \in Nat
      /\ \A r \in battles : r.id = c.id => r.questions # {} /\ r.type = c.type
      BY <1>1 DEF SoundCopies, SoundEnder, Sound, FitCopies, FitEnder
<1>4. RowsAdvance({}, finishes)
      BY <1>1, <1>2, <1>3, FinishedSaved
<1>5. MembersAdvance
      BY MembersStay
<1>6. TablesFit'
      BY <1>0, <1>4, <1>5, TablesStayFit
<1>7. FitKicker(kicker)'
  <2>1. PICK k : k = kicker'
        OBVIOUS
  <2>2. k \in KickerState /\ FitKicker(k)
        BY <1>0, <2>1 DEF WorkerTypeOK, FitCopies
  <2>3. FitKicker(k)'
        BY <1>4, <1>5, <2>2, KickerStays
  <2> QED BY <2>1, <2>3 DEF FitKicker, FitMember, Untouched, Complete, Answered, IsUnstarted
<1>8. RowsAre(c.id, "FINISHED")'
  <2>1. \A r \in battles : r.id = c.id => SavedRow(r, c).status = "FINISHED"
        BY <1>3 DEF SavedRow, Battle, PgTypeOK
  <2>2. battles' = {IF r.id = c.id THEN SavedRow(r, c) ELSE r : r \in battles}
        BY <1>1 DEF SaveBattle
  <2>3. \A r \in battles' : r.id = c.id => r.status = "FINISHED"
        BY <2>1, <2>2
  <2> QED BY <2>3 DEF RowsAre
<1>9. FitEnder(ender)'
  <2>1. PICK e : e = ender'
        OBVIOUS
  <2>2. /\ e.at = label /\ e.pass = ender.pass /\ e.todo = ender.todo /\ e.b = c
        /\ e.ms = ender.ms
        BY <1>1, <2>1 DEF WorkerTypeOK, EnderState
  <2>3. \A b \in e.todo : b \in Battle /\ Pending(b) /\ b.id # c.id
        BY <1>1, <2>2 DEF FitCopies, FitEnder
  <2>4. \A b \in e.todo : Pending(b)'
    <3> SUFFICES ASSUME NEW b \in e.todo
                 PROVE  Pending(b)'
        OBVIOUS
    <3>1. b.id \notin finishes /\ b.id \notin sqlBattles'
          BY <1>0, <1>2, <2>3 DEF Pending
    <3> QED BY <1>4, <2>3, <3>1, PendingStays
  <2>5. FitMembers(e.ms, c.id)'
    <3>1. FitMembers(e.ms, c.id)
          BY <1>1, <2>2 DEF FitCopies, FitEnder
    <3>2. e.ms \subseteq BattleMember
          BY <2>2
    <3> QED BY <1>4, <1>5, <3>1, <3>2, MemberStays DEF FitMembers
  <2>6. c.id <= battleSeq' /\ c.id \notin sqlBattles'
        BY <1>0, <1>3 DEF Pending, FitBattle
  <2>7. /\ \A b, d \in e.todo : b.id = d.id => b = d
        /\ e.pass \in {"Expired", "Idle"} => \A b \in e.todo : b.questions # {}
        /\ \A m, n \in e.ms : m.student = n.student => m = n
        BY <2>2 DEF FitCopies, FitEnder
  <2>8. DOMAIN PassOf = {"loadExpired", "loadIdle", "saveIdle", "loadFinished"}
        BY DEF PassOf
  <2>9. FitEnder(e)'
        BY <1>8, <2>2, <2>3, <2>4, <2>5, <2>6, <2>7, <2>8 DEF FitEnder
  <2> QED BY <2>1, <2>9
          DEF FitEnder, FitMembers, FitMember, FitBattle, Pending, RowsAre, Untouched,
              Complete, Answered, IsUnstarted, PassOf
<1> QED BY <1>4, <1>5, <1>6, <1>7, <1>9, LoopStepFits

LEMMA SavePgBattleFits ==
    ASSUME TypeInv, TypeInv', SoundCopies, CountedEnder, FitCopies, SavePgBattle,
           UNCHANGED apiVars
    PROVE  FitCopies'
<1>1. CASE SaveBattle(ender.b) /\
           ender' = [ender EXCEPT !.at = IF ender.ms = {} THEN "sqlBattle"
                                                          ELSE "saveMembers"]
      BY <1>1, FinishFits DEF SavePgBattle
<1>2. CASE GiveUp /\ UNCHANGED battles
  <2>1. RowsAdvance({}, {}) /\ MembersAdvance
        BY <1>2, RowsStay, MembersStay DEF SavePgBattle
  <2>2. FitEnder(ender')
        BY <1>2, EndNextFits DEF GiveUp, FitCopies
  <2>3. FitKicker(kicker') /\ sqlBattles' = sqlBattles
        BY DEF SavePgBattle, sqlVars, FitCopies
  <2>4. TablesFit' /\ FitKicker(kicker)' /\ FitEnder(ender)'
        BY <2>1, <2>2, <2>3, TablesStayFit, WorkerFits
  <2> QED BY <2>1, <2>4, LoopStepFits
<1> QED BY <1>1, <1>2 DEF SavePgBattle

\* The battle is stored: it is none of those the ender has yet to work on.
LEMMA SaveSqlBattleFits ==
    ASSUME TypeInv, TypeInv', FitCopies, SaveSqlBattle, UNCHANGED apiVars
    PROVE  FitCopies'
<1> USE WorkerLocals DEF TypeInv, TypeOK
<1>0. /\ battles' = battles /\ members' = members /\ battleSeq' = battleSeq
      /\ memberSeq' = memberSeq /\ sqlBattles' = sqlBattles \cup {ender.b.id}
      /\ kicker' = kicker
      BY DEF SaveSqlBattle, SqlSaveBattle, pgVars
<1>1. RowsAdvance({}, {}) /\ MembersAdvance
      BY <1>0, RowsStay, MembersStay
<1>2. FitEnder(ender)
      BY DEF FitCopies
<1>3. /\ ender.b.id <= battleSeq /\ RowsAre(ender.b.id, "FINISHED")
      /\ \A b \in ender.todo : b.id # ender.b.id
      BY <1>2 DEF SaveSqlBattle, FitEnder
<1>4. TablesFit'
  <2>1. (\A m \in members : FitMember(m))'
        BY <1>1, MemberRowsFit
  <2>2. \A id \in sqlBattles' : id <= battleSeq'
        BY <1>0, <1>3 DEF FitCopies
  <2>3. \A id \in sqlBattles' : \A r \in battles' : r.id = id => r.status = "FINISHED"
        BY <1>0, <1>3 DEF FitCopies, RowsAre
  <2>4. /\ \A r, s \in battles' : r.id = s.id => r = s
        /\ \A r \in battles' : LobbyRow(r)
        BY <1>0 DEF FitCopies
  <2> QED BY <2>1, <2>2, <2>3, <2>4 DEF TablesFit, RowsAre, LobbyRow
<1>5. FitKicker(kicker)'
      BY <1>0 DEF FitCopies, FitKicker, FitMember, Untouched, Complete, Answered, IsUnstarted
<1>6. FitEnder(ender)'
  <2>1. PICK e : e = ender'
        OBVIOUS
  <2>2. /\ FitEnder(e) /\ \A b \in e.todo : b.id # ender.b.id
        /\ e.at \notin {"saveBattle", "saveMembers", "sqlBattle"}
    <3>1. CASE GiveUp
      <4>1. FitEnder(ender')
            BY <1>2, <3>1, EndNextFits DEF GiveUp
      <4>2. ender'.todo \subseteq ender.todo
            BY <3>1 DEF GiveUp, EndNext, Work, EnderIdle
      <4>3. ender'.at \notin {"saveBattle", "saveMembers", "sqlBattle"}
        <5>1. CASE ender.pass = "Expired"
              BY <3>1, <5>1 DEF GiveUp, EndNext, Work, EnderIdle, AfterPass, LoadLabel
        <5>2. CASE ender.pass = "Idle"
              BY <3>1, <5>2 DEF GiveUp, EndNext, Work, EnderIdle, AfterPass, LoadLabel
        <5>3. CASE ender.pass = "Finished"
              BY <3>1, <5>3 DEF GiveUp, EndNext, Work, EnderIdle, AfterPass, LoadLabel
        <5> QED BY <5>1, <5>2, <5>3
      <4> QED BY <1>3, <2>1, <4>1, <4>2, <4>3
    <3>2. CASE ender' = [ender EXCEPT !.at = "sqlMembers"]
      <4>1. /\ e.at = "sqlMembers" /\ e.todo = ender.todo /\ e.pass = ender.pass
            /\ e.ms = ender.ms
            BY <2>1, <3>2 DEF WorkerTypeOK, EnderState
      <4>2. DOMAIN PassOf = {"loadExpired", "loadIdle", "saveIdle", "loadFinished"}
            BY DEF PassOf
      <4> QED BY <1>2, <1>3, <4>1, <4>2 DEF SaveSqlBattle, FitEnder
    <3> QED BY <3>1, <3>2 DEF SaveSqlBattle
  <2>3. FitEnder(e)'
        BY <1>0, <2>2
           DEF FitEnder, FitMembers, FitMember, FitBattle, Pending, RowsAre, Untouched,
               Complete, Answered, IsUnstarted, PassOf
  <2> QED BY <2>1, <2>3
          DEF FitEnder, FitMembers, FitMember, FitBattle, Pending, RowsAre, Untouched,
              Complete, Answered, IsUnstarted, PassOf
<1> QED BY <1>1, <1>4, <1>5, <1>6, LoopStepFits

-----------------------------------------------------------------------------
(* The inductive step *)

LEMMA FitStep ==
    ASSUME TypeInv, TypeInv', SoundCopies, SingleCopies, UniqueMembership, CountedEnder,
           NoConfirms, FitCopies, [Next]_vars
    PROVE  FitCopies'
<1>1. ASSUME NEW h \in Handlers, Arrive(h)
      PROVE  FitCopies'
      BY <1>1, RequestFits, RequestTypes, HandlerStepFits DEF Arrive, workerVars
<1>2. ASSUME NEW h \in Handlers, Handle(h)
      PROVE  FitCopies'
  <2>1. CASE CreateNewBattle(h)
        BY <1>2, <2>1, CreateFits DEF Handle
  <2>2. CASE StartBattle(h)
        BY <1>2, <2>2, StartStepFits DEF Handle
  <2>3. CASE ~CreateNewBattle(h) /\ ~StartBattle(h)
    <3>1. HandlerFit(h)
          BY <1>2, <2>3, NoConfirmSteps, FindFits, LobbyFits, AnswerStepsFit,
             LeaveStepsFit, AIMembersFit
             DEF Handle, HandlerStep
    <3>2. UNCHANGED sqlVars
          BY <1>2, HandlerTypes DEF Handle, HandlerOK
    <3> QED BY <1>2, <3>1, <3>2, HandlerStepFits DEF Handle, workerVars
  <2> QED BY <2>1, <2>2, <2>3
<1>3. CASE Kick
      BY <1>3, KickerTypes, KickerStepFits DEF Kick, KickerOK
<1>4. CASE End
  <2>1. kicker' = kicker
        BY <1>4, EnderTypes DEF End, EnderOK
  <2> QED BY <1>4, <2>1, EnderStepFits, SavePgBattleFits, SaveSqlBattleFits DEF End
<1>5. CASE Fault
  <2>1. ASSUME NEW h \in Handlers, Abort(h), UNCHANGED workerVars
        PROVE  FitCopies'
    <3>1. HandlerFit(h)
          BY <2>1, RowsStay, MembersStay, ReturnFits DEF Abort, pgVars, TypeInv, TypeOK
    <3> QED BY <2>1, <3>1, HandlerStepFits DEF Abort, workerVars
  <2>2. CASE KickError /\ UNCHANGED apiVars
        BY <2>2, KickErrorTypes, KickerStepFits DEF KickerOK
  <2>3. CASE EndError /\ UNCHANGED apiVars
        BY <2>3, EndErrorTypes, EnderStepFits DEF EnderOK
  <2>4. CASE WorkerCrash /\ UNCHANGED apiVars
    <3>1. FitKicker(kicker') /\ FitEnder(ender')
          BY <2>4 DEF WorkerCrash, KickerIdle, EnderIdle, FitKicker, FitEnder, PassOf
    <3>2. RowsAdvance({}, {}) /\ MembersAdvance /\ sqlBattles' = sqlBattles
          BY <2>4, RowsStay, MembersStay DEF WorkerCrash, pgVars, sqlVars
    <3>3. TablesFit' /\ FitKicker(kicker)' /\ FitEnder(ender)'
          BY <3>1, <3>2, TablesStayFit, WorkerFits
    <3> QED BY <2>4, <3>2, <3>3, LoopStepFits
  <2> QED BY <1>5, <2>1, <2>2, <2>3, <2>4 DEF Fault
<1>6. CASE UNCHANGED vars
  <2>1. RowsAdvance({}, {}) /\ MembersAdvance /\ sqlBattles' = sqlBattles
        BY <1>6, RowsStay, MembersStay DEF vars, pgVars, sqlVars
  <2>2. FitKicker(kicker') /\ FitEnder(ender') /\ UNCHANGED apiVars
        BY <1>6 DEF vars, workerVars, FitCopies
  <2>3. TablesFit' /\ FitKicker(kicker)' /\ FitEnder(ender)'
        BY <2>1, <2>2, TablesStayFit, WorkerFits
  <2> QED BY <2>1, <2>2, <2>3, LoopStepFits
<1> QED BY <1>1, <1>2, <1>3, <1>4, <1>5, <1>6 DEF Next

\* While no confirm is sent, every copy in flight fits the row it was read from.
THEOREM CopiesFit == NoConfirms /\ Spec => []FitCopies
<1>1. Init => FitCopies
  <2>1. FitHandler(Idle) /\ ~Starting(Idle)
        BY IdleFits
  <2>2. FitKicker(KickerIdle) /\ FitEnder(EnderIdle)
        BY DEF KickerIdle, EnderIdle, FitKicker, FitEnder, PassOf
  <2> QED BY <2>1, <2>2
          DEF Init, PgInit, SqlInit, ApiInit, WorkerInit, FitCopies, OneStarter
<1>2. NoConfirms /\ TypeInv /\ TypeInv' /\ SoundCopies /\ SingleCopies
        /\ UniqueMembership /\ CountedEnder /\ FitCopies /\ [Next]_vars => FitCopies'
      BY FitStep
<1>3. NoConfirms => NoConfirms'
      BY DEF NoConfirms
<1> QED BY TypeInvariant, CopiesAreSound, CopiesAreSingle, MembershipIsUnique,
           ResultsComeFirst, <1>1, <1>2, <1>3, PTL DEF Spec

\* MySQL holds a battle only when PostgreSQL has it FINISHED, however creators,
\* answers, the other loop and crashes interleave with the five writes of EndBattle.
THEOREM StoredBattlesAreFinished == NoConfirms /\ Spec => []SqlOnlyWhenFinished
<1>1. FitCopies => SqlOnlyWhenFinished
      BY DEF FitCopies, RowsAre, SqlOnlyWhenFinished
<1> QED BY CopiesFit, <1>1, PTL

\* A member of a started battle is finished exactly when it has an answer or a blank
\* for every question, whichever copies of it are saved over each other.
THEOREM FinishedMembersAreComplete == NoConfirms /\ Spec => []FinishedIffComplete
<1>1. FitCopies => FinishedIffComplete
      BY DEF FitCopies, FitMember, Complete, MembersOf, FinishedIffComplete
<1> QED BY CopiesFit, <1>1, PTL

-----------------------------------------------------------------------------
(* A battle is counted once *)

\* Student s has a result of the battle at hand, and is still to be counted for it.
Owing(s) ==
    \/ ender.at = "sqlMembers" /\ \E m \in ender.ms \ ender.left : m.student = s
    \/ ender.at = "sqlStats" /\ \E m \in ender.left : m.student = s

\* Each count of s, made or owed, has a battle of its own.
Backed(s) ==
    studentBattle[s].win + studentBattle[s].lose + (IF Owing(s) THEN 1 ELSE 0)
        <= Cardinality(FinishedBattlesOf(s))

\* The ender inserts results, and never overwrites one: the battle is its first time.
NewResults ==
    ender.at = "sqlMembers" =>
        \A m \in ender.left : ~ResultStored(ender.b.id, m.student)

\* What that rests on: a battle of MySQL is one the sequence gave out, the ender comes
\* to the MySQL writes of a battle MySQL does not have, with one row for each student.
CountsFit ==
    /\ \A id \in sqlBattles : id <= battleSeq
    /\ ender.at = "sqlBattle" => ender.b.id \notin sqlBattles
    /\ ender.at \in {"sqlMembers", "sqlStats"} =>
          \A m, n \in ender.ms : m.student = n.student => m = n

\* The inductive invariant of EachBattleCountedOnce.
CountedOnce ==
    /\ \A r \in sqlMembers : r.battle \in sqlBattles
    /\ NewResults
    /\ \A s \in Students : Backed(s)

\* The battles of which s has a result are finitely many, and become no fewer.
LEMMA FinishedBattlesFinite ==
    ASSUME TypeInv, CountsFit, NEW s
    PROVE  /\ IsFiniteSet(FinishedBattlesOf(s))
           /\ Cardinality(FinishedBattlesOf(s)) \in Nat
<1>1. sqlBattles \subseteq 0..battleSeq
      BY DEF TypeInv, TypeOK, SqlTypeOK, PgTypeOK, CountsFit
<1>2. IsFiniteSet(0..battleSeq)
      BY FS_Interval DEF TypeInv, TypeOK, PgTypeOK
<1>3. FinishedBattlesOf(s) \subseteq 0..battleSeq
      BY <1>1 DEF FinishedBattlesOf
<1> QED BY <1>2, <1>3, FS_Subset, FS_CardinalityType

\* The same in the next state.
LEMMA FinishedBattlesFiniteNext ==
    ASSUME TypeInv', CountsFit', NEW s
    PROVE  /\ IsFiniteSet(FinishedBattlesOf(s))'
           /\ Cardinality(FinishedBattlesOf(s))' \in Nat
<1>1. sqlBattles' \subseteq 0..battleSeq'
      BY DEF TypeInv, TypeOK, SqlTypeOK, PgTypeOK, CountsFit
<1>2. IsFiniteSet(0..battleSeq')
      BY FS_Interval DEF TypeInv, TypeOK, PgTypeOK
<1>3. PICK ids : ids = FinishedBattlesOf(s)'
      OBVIOUS
<1>4. ids \subseteq 0..battleSeq'
      BY <1>1, <1>3 DEF FinishedBattlesOf
<1>5. IsFiniteSet(ids) /\ Cardinality(ids) \in Nat
      BY <1>2, <1>4, FS_Subset, FS_CardinalityType
<1> QED BY <1>3, <1>5

LEMMA FinishedBattlesGrow ==
    ASSUME TypeInv, TypeInv', CountsFit, CountsFit', NEW s, ResultsKept
    PROVE  /\ FinishedBattlesOf(s) \subseteq FinishedBattlesOf(s)'
           /\ Cardinality(FinishedBattlesOf(s)) <= Cardinality(FinishedBattlesOf(s))'
<1>1. ASSUME NEW id \in FinishedBattlesOf(s)
      PROVE  id \in FinishedBattlesOf(s)'
  <2>1. ResultStored(id, s) /\ id \in sqlBattles
        BY DEF FinishedBattlesOf, ResultStored
  <2>2. ResultStored(id, s)' /\ id \in sqlBattles'
        BY <2>1 DEF ResultsKept
  <2> QED BY <2>2 DEF FinishedBattlesOf, ResultStored
<1>2. IsFiniteSet(FinishedBattlesOf(s))'
      BY FinishedBattlesFiniteNext
<1> QED BY <1>1, <1>2, FS_Subset

\* Nothing is counted, and nobody new is owed a count.
LEMMA KeepsOnce ==
    ASSUME TypeInv, TypeInv', CountsFit, CountsFit', CountedOnce, NothingCounted,
           \A s \in Students : Owing(s)' => Owing(s)
    PROVE  (\A s \in Students : Backed(s))'
<1> SUFFICES ASSUME NEW s \in Students
             PROVE  Backed(s)'
    BY DEF Backed
<1>1. Cardinality(FinishedBattlesOf(s)) <= Cardinality(FinishedBattlesOf(s))'
      BY FinishedBattlesGrow DEF NothingCounted
<1>2. /\ Cardinality(FinishedBattlesOf(s)) \in Nat
      /\ Cardinality(FinishedBattlesOf(s))' \in Nat
      BY FinishedBattlesFinite, FinishedBattlesFiniteNext
<1>3. /\ studentBattle'[s].win = studentBattle[s].win
      /\ studentBattle'[s].lose = studentBattle[s].lose
      /\ studentBattle[s].win \in Nat /\ studentBattle[s].lose \in Nat
      BY DEF NothingCounted, TypeInv, TypeOK, SqlTypeOK, Counts
<1> QED BY <1>1, <1>2, <1>3 DEF CountedOnce, Backed

\* Steps of the ender that write nothing to MySQL.
LEMMA PgStepOnce ==
    ASSUME TypeInv, TypeInv', CountsFit, CountsFit', CountedOnce, NothingCounted,
           UNCHANGED sqlVars, ender'.at \notin {"sqlMembers", "sqlStats"}
    PROVE  CountedOnce'
<1>1. \A s \in Students : ~Owing(s)'
      BY DEF Owing
<1>2. NewResults' /\ \A r \in sqlMembers' : r.battle \in sqlBattles'
      BY DEF NewResults, sqlVars, CountedOnce
<1> QED BY <1>1, <1>2, KeepsOnce DEF CountedOnce

LEMMA SqlBattleOnce ==
    ASSUME TypeInv, TypeInv', CountsFit, CountsFit', CountedEnder, CountedOnce,
           SaveSqlBattle
    PROVE  CountedOnce'
<1> USE WorkerLocals DEF TypeInv, TypeOK
<1>1. sqlMembers' = sqlMembers /\ sqlBattles \subseteq sqlBattles'
      BY DEF SaveSqlBattle, SqlSaveBattle
<1>2. NothingCounted
      BY SqlBattleCounted
<1>3. \A r \in sqlMembers' : r.battle \in sqlBattles'
      BY <1>1 DEF CountedOnce
<1>4. NewResults' /\ \A s \in Students : ~Owing(s)'
  <2>1. CASE GiveUp
    <3>1. ender'.at \notin {"sqlMembers", "sqlStats"}
      <4>1. CASE ender.pass = "Expired"
            BY <2>1, <4>1 DEF GiveUp, EndNext, Work, EnderIdle, AfterPass, LoadLabel
      <4>2. CASE ender.pass = "Idle"
            BY <2>1, <4>2 DEF GiveUp, EndNext, Work, EnderIdle, AfterPass, LoadLabel
      <4>3. CASE ender.pass = "Finished"
            BY <2>1, <4>3 DEF GiveUp, EndNext, Work, EnderIdle, AfterPass, LoadLabel
      <4> QED BY <4>1, <4>2, <4>3
    <3> QED BY <3>1 DEF NewResults, Owing
  <2>2. CASE ender' = [ender EXCEPT !.at = "sqlMembers"]
    <3>1. /\ ender'.at = "sqlMembers" /\ ender'.b = ender.b
          /\ ender'.left = ender'.ms
          BY <2>2 DEF SaveSqlBattle, CountedEnder, WorkerTypeOK, EnderState
    <3>2. ender.b.id \notin sqlBattles
          BY DEF SaveSqlBattle, CountsFit
    <3> QED BY <1>1, <3>1, <3>2 DEF NewResults, Owing, ResultStored, CountedOnce
  <2> QED BY <2>1, <2>2 DEF SaveSqlBattle
<1> QED BY <1>2, <1>3, <1>4, KeepsOnce DEF CountedOnce

\* One more result, one more count owed.
LEMMA SqlMemberOnce ==
    ASSUME TypeInv, TypeInv', CountsFit, CountsFit', CountedEnder, CountedOnce,
           SaveSqlMember
    PROVE  CountedOnce'
<1> USE WorkerLocals DEF TypeInv, TypeOK
<1>0. ender.at = "sqlMembers" /\ ender.left \subseteq ender.ms
      BY DEF SaveSqlMember, CountedEnder
<1>1. PICK m \in ender.left : SqlUpdateMember(ender.b, m) /\ EndedOne(m, "sqlStats")
      BY DEF SaveSqlMember
<1>2. PICK id : id = ender.b.id
      OBVIOUS
<1>3. PICK row : row = SqlRow(ender.b, m)
      OBVIOUS
<1>4. id \in sqlBattles /\ sqlBattles' = sqlBattles /\ studentBattle' = studentBattle
      BY <1>2 DEF SaveSqlMember, CountedEnder
<1>5. ~ResultStored(id, m.student)
      BY <1>0, <1>1, <1>2 DEF CountedOnce, NewResults
<1>6. row.battle = id /\ row.student = m.student
      BY <1>2, <1>3 DEF SqlRow
<1>7. sqlMembers' = sqlMembers \cup {row}
      BY <1>1, <1>2, <1>3, <1>4, <1>5 DEF SqlUpdateMember, ResultStored
<1>8. \A r \in sqlMembers' : r.battle \in sqlBattles'
      BY <1>4, <1>6, <1>7 DEF CountedOnce
<1>9. /\ ender'.b = ender.b /\ ender'.ms = ender.ms
      /\ \/ ender'.at = "sqlStats" /\ ender'.left = ender.ms /\ ender.left = {m}
         \/ ender'.at = "sqlMembers" /\ ender'.left = ender.left \ {m}
      BY <1>0, <1>1 DEF EndedOne, LeftAfter, WorkerTypeOK, EnderState
<1>10. \A n \in ender.ms : n.student = m.student => n = m
      BY <1>0, <1>1 DEF CountsFit
<1>11. NewResults'
  <2>1. ASSUME ender'.at = "sqlMembers", NEW n \in ender'.left
        PROVE  \A r \in sqlMembers' : ~(r.battle = id /\ r.student = n.student)
    <3>1. n \in ender.left /\ n # m
          BY <1>9, <2>1
    <3>2. ~ResultStored(id, n.student) /\ n.student # m.student
          BY <1>0, <1>2, <1>10, <3>1 DEF CountedOnce, NewResults
    <3> QED BY <1>6, <1>7, <3>2 DEF ResultStored
  <2> QED BY <1>2, <1>9, <2>1 DEF NewResults, ResultStored
<1>12. ASSUME NEW s \in Students, s # m.student, Owing(s)'
       PROVE  Owing(s)
       BY <1>0, <1>9, <1>12 DEF Owing
<1>13. ~Owing(m.student)
       BY <1>0, <1>1, <1>10 DEF Owing
<1>14. ASSUME NEW s \in Students
       PROVE  /\ Cardinality(FinishedBattlesOf(s)) <= Cardinality(FinishedBattlesOf(s))'
              /\ s = m.student => Cardinality(FinishedBattlesOf(s))' =
                                    Cardinality(FinishedBattlesOf(s)) + 1
  <2>1. CASE s = m.student
    <3>1. FinishedBattlesOf(s)' = FinishedBattlesOf(s) \cup {id}
          BY <1>4, <1>6, <1>7, <2>1 DEF FinishedBattlesOf
    <3>2. id \notin FinishedBattlesOf(s)
          BY <1>5, <2>1 DEF FinishedBattlesOf, ResultStored
    <3>3. Cardinality(FinishedBattlesOf(s))' = Cardinality(FinishedBattlesOf(s)) + 1
          BY <3>1, <3>2, FinishedBattlesFinite, FS_AddElement
    <3> QED BY <3>3, FinishedBattlesFinite
  <2>2. CASE s # m.student
    <3>1. FinishedBattlesOf(s)' = FinishedBattlesOf(s)
          BY <1>4, <1>6, <1>7, <2>2 DEF FinishedBattlesOf
    <3> QED BY <2>2, <3>1, FinishedBattlesFinite
  <2> QED BY <2>1, <2>2
<1>15. ASSUME NEW s \in Students
       PROVE  Backed(s)'
  <2>1. studentBattle[s].win \in Nat /\ studentBattle[s].lose \in Nat
        BY DEF SqlTypeOK, Counts
  <2>2. /\ Cardinality(FinishedBattlesOf(s)) \in Nat
        /\ Cardinality(FinishedBattlesOf(s))' \in Nat
        BY FinishedBattlesFinite, FinishedBattlesFiniteNext
  <2>3. Backed(s)
        BY DEF CountedOnce
  <2> QED BY <1>4, <1>12, <1>13, <1>14, <2>1, <2>2, <2>3 DEF Backed
<1> QED BY <1>8, <1>11, <1>15 DEF CountedOnce

\* The count owed is made.
LEMMA StatsOnce ==
    ASSUME TypeInv, TypeInv', CountsFit, CountsFit', CountedEnder, CountedOnce,
           UpsertStats
    PROVE  CountedOnce'
<1> USE WorkerLocals DEF TypeInv, TypeOK
<1>0. ender.at = "sqlStats" /\ ender.left \subseteq ender.ms
      BY DEF UpsertStats, CountedEnder
<1>1. PICK m \in ender.left :
        /\ UpsertStudentBattle(m)
        /\ IF LeftAfter(m) = {} THEN GiveUp
                                ELSE ender' = [ender EXCEPT !.left = LeftAfter(m)]
      BY DEF UpsertStats
<1>2. sqlMembers' = sqlMembers /\ sqlBattles' = sqlBattles
      BY DEF UpsertStats
<1>3. \A n \in ender.ms : n.student = m.student => n = m
      BY <1>0, <1>1 DEF CountsFit
<1>4. \/ ender'.at \notin {"sqlMembers", "sqlStats"}
      \/ ender'.at = "sqlStats" /\ ender'.left = ender.left \ {m}
  <2>1. CASE GiveUp
    <3>1. CASE ender.pass = "Expired"
          BY <2>1, <3>1 DEF GiveUp, EndNext, Work, EnderIdle, AfterPass, LoadLabel
    <3>2. CASE ender.pass = "Idle"
          BY <2>1, <3>2 DEF GiveUp, EndNext, Work, EnderIdle, AfterPass, LoadLabel
    <3>3. CASE ender.pass = "Finished"
          BY <2>1, <3>3 DEF GiveUp, EndNext, Work, EnderIdle, AfterPass, LoadLabel
    <3> QED BY <3>1, <3>2, <3>3
  <2>2. CASE ender' = [ender EXCEPT !.left = LeftAfter(m)]
        BY <1>0, <2>2 DEF LeftAfter, WorkerTypeOK, EnderState
  <2> QED BY <1>1, <2>1, <2>2
<1>5. NewResults' /\ \A r \in sqlMembers' : r.battle \in sqlBattles'
      BY <1>2, <1>4 DEF NewResults, CountedOnce
<1>6. /\ Owing(m.student) /\ ~Owing(m.student)'
      /\ \A s \in Students : Owing(s)' => Owing(s)
      BY <1>0, <1>1, <1>3, <1>4 DEF Owing
<1>7. ASSUME NEW s \in Students
      PROVE  Backed(s)'
  <2>1. studentBattle[s].win \in Nat /\ studentBattle[s].lose \in Nat
        BY DEF SqlTypeOK, Counts
  <2>2. Cardinality(FinishedBattlesOf(s)) \in Nat
        BY FinishedBattlesFinite
  <2>3. FinishedBattlesOf(s)' = FinishedBattlesOf(s)
        BY <1>2 DEF FinishedBattlesOf
  <2>4. Backed(s)
        BY DEF CountedOnce
  <2>5. CASE s = m.student
    <3>1. studentBattle'[s].win + studentBattle'[s].lose =
            studentBattle[s].win + studentBattle[s].lose + 1
          BY <1>1, <2>1, <2>5 DEF UpsertStudentBattle, Counted, SqlTypeOK, Counts
    <3> QED BY <1>6, <2>1, <2>2, <2>3, <2>4, <2>5, <3>1 DEF Backed
  <2>6. CASE s # m.student
    <3>1. studentBattle'[s] = studentBattle[s]
          BY <1>1, <2>6 DEF UpsertStudentBattle, SqlTypeOK
    <3> QED BY <1>6, <2>1, <2>2, <2>3, <2>4, <2>6, <3>1 DEF Backed
  <2> QED BY <2>5, <2>6
<1> QED BY <1>5, <1>7 DEF CountedOnce

LEMMA OnceStep ==
    ASSUME TypeInv, TypeInv', CountsFit, CountsFit', CountedEnder, CountedOnce,
           [Next]_vars
    PROVE  CountedOnce'
<1> USE DEF TypeInv, TypeOK
<1>1. ASSUME UNCHANGED <<sqlVars, ender>>
      PROVE  CountedOnce'
      BY <1>1 DEF sqlVars, CountedOnce, NewResults, Backed, Owing, ResultStored,
                  FinishedBattlesOf
<1>2. ASSUME NEW pass \in {"Expired", "Idle", "Finished"}, NEW todo, NEW idle,
             Work(pass, todo, idle)
      PROVE  ender'.at \notin {"sqlMembers", "sqlStats"}
  <2>1. CASE pass = "Expired"
        BY <1>2, <2>1 DEF Work, EnderIdle, AfterPass, LoadLabel
  <2>2. CASE pass = "Idle"
        BY <1>2, <2>2 DEF Work, EnderIdle, AfterPass, LoadLabel
  <2>3. CASE pass = "Finished"
        BY <1>2, <2>3 DEF Work, EnderIdle, AfterPass, LoadLabel
  <2> QED BY <2>1, <2>2, <2>3
<1>3. ASSUME EndError \/ (EnderStep /\ ~SaveSqlBattle /\ ~SaveSqlMember /\ ~UpsertStats)
      PROVE  CountedOnce'
  <2>1. NothingCounted
        BY <1>3, PgStepCounted
  <2>2. UNCHANGED sqlVars
        BY <1>3 DEF EndError, EnderStep, ScanExpired, LoadExpired, DropMembers,
                    DropBattle, ScanIdle, LoadIdle, SaveIdle, ScanFinished, LoadFinished,
                    SavePgBattle, SavePgMember
  <2>3. ender'.at \notin {"sqlMembers", "sqlStats"}
        BY <1>2, <1>3, WorkerLocals
           DEF EndError, EnderStep, ScanExpired, LoadExpired, DropMembers, DropBattle,
               ScanIdle, LoadIdle, SaveIdle, ScanFinished, LoadFinished, SavePgBattle,
               SavePgMember, Execute, GiveUp, EndNext, EndedOne, WorkerTypeOK, EnderState
  <2> QED BY <2>1, <2>2, <2>3, PgStepOnce
<1>4. CASE End
      BY <1>3, <1>4, SqlBattleOnce, SqlMemberOnce, StatsOnce DEF End
<1>5. CASE EndError
      BY <1>3, <1>5
<1>6. CASE WorkerCrash
  <2>1. ender'.at = "scanExpired" /\ UNCHANGED sqlVars
        BY <1>6 DEF WorkerCrash, EnderIdle
  <2>2. NothingCounted
        BY <2>1 DEF sqlVars, NothingCounted, ResultsKept, ResultStored
  <2> QED BY <2>1, <2>2, PgStepOnce
<1>7. ASSUME NEW h \in Handlers, Arrive(h) \/ Handle(h)
      PROVE  CountedOnce'
  <2>1. UNCHANGED <<sqlVars, ender>>
        BY <1>7, RequestTypes, HandlerTypes DEF Arrive, Handle, HandlerOK, workerVars
  <2> QED BY <1>1, <2>1
<1>8. CASE Kick \/ KickError
      BY <1>1, <1>8, KickerTypes, KickErrorTypes DEF Kick, KickerOK
<1>9. ASSUME NEW h \in Handlers, Abort(h), UNCHANGED workerVars
      PROVE  CountedOnce'
      BY <1>1, <1>9 DEF Abort, workerVars
<1>10. CASE UNCHANGED vars
      BY <1>1, <1>10 DEF vars, workerVars
<1> QED BY <1>4, <1>5, <1>6, <1>7, <1>8, <1>9, <1>10 DEF Next, Fault

LEMMA OnceInit ==
    ASSUME TypeInv, CountsFit, Init
    PROVE  CountedOnce
<1> SUFFICES ASSUME NEW s \in Students
             PROVE  Backed(s)
    BY DEF Init, SqlInit, WorkerInit, EnderIdle, CountedOnce, NewResults
<1>1. ~Owing(s) /\ studentBattle[s].win = 0 /\ studentBattle[s].lose = 0
      BY DEF Init, SqlInit, WorkerInit, EnderIdle, Owing
<1> QED BY <1>1, FinishedBattlesFinite DEF Backed

LEMMA OnceMeansCounted ==
    ASSUME TypeInv, CountsFit, CountedOnce
    PROVE  EachBattleCountedOnce
<1> SUFFICES ASSUME NEW s \in Students
             PROVE  studentBattle[s].win + studentBattle[s].lose
                      <= Cardinality(FinishedBattlesOf(s))
    BY DEF EachBattleCountedOnce
<1>1. studentBattle[s].win \in Nat /\ studentBattle[s].lose \in Nat
      BY DEF TypeInv, TypeOK, SqlTypeOK, Counts
<1> QED BY <1>1, FinishedBattlesFinite DEF CountedOnce, Backed

\* A student's wins and losses are no more than the battles MySQL has a result of,
\* wherever the worker crashes or gives up and whichever pass meets the battle again.
THEOREM BattlesAreCountedOnce == NoConfirms /\ Spec => []EachBattleCountedOnce
<1>1. FitCopies => CountsFit
      BY DEF FitCopies, FitEnder, CountsFit
<1>2. TypeInv /\ CountsFit /\ Init => CountedOnce
      BY OnceInit
<1>3. /\ TypeInv /\ TypeInv' /\ CountsFit /\ CountsFit'
      /\ CountedEnder /\ CountedOnce /\ [Next]_vars
      => CountedOnce'
      BY OnceStep
<1>4. TypeInv /\ CountsFit /\ CountedOnce => EachBattleCountedOnce
      BY OnceMeansCounted
<1> QED BY TypeInvariant, CopiesFit, ResultsComeFirst, <1>1, <1>2, <1>3, <1>4, PTL DEF Spec
=============================================================================
