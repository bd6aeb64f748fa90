---------------------------- MODULE SerialProofs ----------------------------
(***************************************************************************)
(* What the system does when its requests and ticks do not overlap, every  *)
(* battle type and every request included, for every value of the          *)
(* constants: the promises the tables keep to players and to MySQL, and    *)
(* the refinement of BattleLifecycle.                                      *)
(*                                                                         *)
(* One process is at work at a time (Alone), so its copies are the rows    *)
(* themselves (ExactCopies): what it saves replaces a row by the row it    *)
(* means to leave.  Each step is then one of a few moves of the tables     *)
(* (OpenMove) on a battle that is not FINISHED, or one of the five writes  *)
(* by which the ender finishes a battle and records it.                    *)
(***************************************************************************)
EXTENDS AIBattleProofs, BattleRefinement

\* No two processes are at work.
Alone ==
    /\ \A g, h \in Handlers : ~At(g, "idle") /\ ~At(h, "idle") => g = h
    /\ \A h \in Handlers : ~At(h, "idle") => kicker = KickerIdle /\ ender = EnderIdle
    /\ kicker.at = "scan" => kicker = KickerIdle
    /\ ender.at = "scanExpired" => ender = EnderIdle
    /\ kicker = KickerIdle \/ ender = EnderIdle

\* What the serial theorems are about: no overlap, no failures, and clients that
\* confirm what they see ON_QUEUE.
OneAtATime == Exclusive /\ ~Faults /\ Documented

-----------------------------------------------------------------------------
(* The tables between two steps *)

\* Members of a battle with questions qs.
FitsQuestions(qs, m) == (qs = {} => Untouched(m)) /\ Complete(qs, m)

RowFits(r) ==
    /\ r.status \in {"WAITING", "ON_QUEUE"} => r.questions = {}
    /\ r.status = "FINISHED" => r.questions # {}
    /\ \A m \in MembersOf(r.id) : FitsQuestions(r.questions, m)

FitTables ==
    /\ \A r, s \in battles : r.id = s.id => r = s
    /\ \A m, n \in members : m.id = n.id => m = n
    /\ \A m \in members : m.id <= memberSeq
    /\ \A r \in battles : RowFits(r)

FitResults ==
    /\ \A id \in sqlBattles : \E r \in battles : r.id = id /\ r.status = "FINISHED"
    /\ \A x \in sqlMembers : x.battle \in sqlBattles
    /\ FinishedBattlesAreRanked
    /\ StoredResultsAgree

-----------------------------------------------------------------------------
(* The copies of the process at work *)

RowsWith(status) == {r \in battles : r.status = status}

Open == {r \in battles : r.status # "FINISHED"}

ExactHandler(s) ==
    /\ s.at \in LobbyLabels => s.b \in RowsWith("WAITING")
    /\ s.at \in {"createCreator", "findOpponent", "startBattle"} =>
          s.b \in Open /\ s.b.questions = {}
    /\ s.at = "createCreator" => MembersOf(s.b.id) = {}
    /\ s.at = "findOpponent" => s.b.type = "AI"
    /\ s.at = "startBattle" => s.b.status # "WAITING"
    /\ s.at \in {"loadAI", "saveAI"} => s.b \in RowsWith("ON_GOING") /\ s.b.questions # {}
    /\ s.at = "loadAI" => \A m \in MembersOf(s.b.id) : Untouched(m)
    /\ s.at = "saveAI" => s.ms \subseteq {m \in MembersOf(s.b.id) : Untouched(m)}
    /\ s.at \in {"confirmFind", "changeOpponent"} => RowsAre(s.b.id, "ON_QUEUE")
    /\ s.at \in {"confirmFindMember", "confirmSave", "countConfirmed"} =>
          s.b \in RowsWith("ON_QUEUE")
    /\ s.at \in {"answerFindMember", "answerSave"} => s.b \in RowsWith("ON_GOING")
    /\ s.at \in {"leaveDeleteMembers", "leaveDeleteBattle", "leaveDelete"} => s.b \in Open
    /\ s.at = "leaveDeleteBattle" => MembersOf(s.b.id) = {}
    /\ s.at \in {"leaveFindMember", "leaveSave"} =>
          s.b \in RowsWith("ON_GOING") /\ s.b.questions # {}
    /\ s.at \in {"confirmSave", "answerSave", "leaveSave"} => s.m \in MembersOf(s.b.id)

ExactKicker(k) ==
    /\ k.todo \subseteq RowsWith("ON_QUEUE") \ {k.b}
    /\ k.at \in {"deleteMembers", "deleteBattle", "kick", "reset"} =>
          k.b \in RowsWith("ON_QUEUE")
    /\ k.at = "deleteBattle" => MembersOf(k.b.id) = {}
    /\ k.at \in {"kick", "reset"} =>
          k.kicked \subseteq MembersOf(k.b.id) /\ k.left = MembersOf(k.b.id) \ k.kicked
    /\ k.at = "reset" => k.kicked = {}
    /\ k.at = "unconfirm" => k.b \in RowsWith("WAITING") /\ k.left \subseteq MembersOf(k.b.id)

\* n is what the end of the battle makes of member m.
FinalOf(m, n, qs) ==
    /\ n.id = m.id /\ n.battle = m.battle /\ n.student = m.student /\ n.type = m.type
    /\ n.isFinished /\ n.place # 0 /\ Complete(qs, n)
    /\ m.isFinished => n.answers = m.answers

FinalMembers(ms, b) ==
    /\ \A n \in ms : \E m \in MembersOf(b.id) : FinalOf(m, n, b.questions)
    /\ \A m \in MembersOf(b.id) : \E n \in ms : n.id = m.id
    /\ \A x, y \in ms : x.id = y.id => x = y

\* The rows MySQL has of battle b are those of ms.
StoredOf(b, ms) ==
    \A x \in sqlMembers : x.battle = b.id => \E m \in ms : x = SqlRow(b, m)

ExactEnder(e) ==
    /\ e.todo \subseteq RowsWith("ON_GOING")
    /\ e.at \in DOMAIN PassOf => e.pass = PassOf[e.at]
    /\ e.pass \in {"Expired", "Idle"} => \A b \in e.todo : b.questions # {}
    /\ e.at \in {"dropMembers", "dropBattle", "saveIdle"} =>
          e.b \in RowsWith("ON_GOING") \ e.todo
    /\ e.at = "dropBattle" => MembersOf(e.b.id) = {}
    /\ e.at = "saveIdle" => e.b.questions # {} /\ e.left \subseteq MembersOf(e.b.id)
    /\ e.at = "saveBattle" =>
          /\ e.b.questions # {} /\ e.left = e.ms
          /\ \E r \in RowsWith("ON_GOING") \ e.todo : e.b = Finished(r)
    /\ e.at \in {"saveBattle", "saveMembers"} => FinalMembers(e.ms, e.b)
    /\ e.at \in {"saveMembers", "sqlBattle", "sqlMembers", "sqlStats"} =>
          e.b \in RowsWith("FINISHED")
    /\ e.at = "saveMembers" => e.left \subseteq e.ms /\ e.ms \ e.left \subseteq members
    /\ e.at \in {"saveMembers", "sqlBattle"} => e.b.id \notin sqlBattles
    /\ e.at \in {"sqlBattle", "sqlMembers", "sqlStats"} =>
          /\ MembersOf(e.b.id) = e.ms
          /\ \A m \in e.ms : m.isFinished /\ m.place # 0
    /\ e.at = "sqlBattle" => e.left = e.ms
    /\ e.at \in {"sqlMembers", "sqlStats"} => e.left \subseteq e.ms /\ e.b.id \in sqlBattles
    /\ e.at = "sqlMembers" => StoredOf(e.b, e.ms \ e.left)
    /\ e.at = "sqlStats" => StoredOf(e.b, e.ms)

ExactCopies ==
    /\ \A h \in Handlers : ExactHandler(handler[h])
    /\ ExactKicker(kicker)
    /\ ExactEnder(ender)

\* The inductive invariant of the serial system.
SerialInv == FitTables /\ FitResults /\ ExactCopies

-----------------------------------------------------------------------------
(* The places in a battle *)

\* A question reader that finds questions.  Without it a lobby everyone confirmed
\* stays ON_QUEUE, and the kick daemon reopens it full.
QuestionsFound == {} \notin QuestionSets

Places(b) == BattleMemberCount[b.type]

ConfirmedOf(id) == {m \in MembersOf(id) : m.status = "CONFIRMED"}

\* A battle no process is at: a waiting lobby has a place left and nobody in it has
\* confirmed, a queue still waits for someone, and who plays has confirmed.
HasRoom(r) ==
    /\ r.status # "FINISHED" => CountByBattle(r.id) <= Places(r)
    /\ r.status = "WAITING" => CountByBattle(r.id) < Places(r) /\ ConfirmedOf(r.id) = {}
    /\ r.status = "ON_QUEUE" => Cardinality(ConfirmedOf(r.id)) < Places(r)
    /\ r.status = "ON_GOING" /\ r.type # "AI" => ConfirmedOf(r.id) = MembersOf(r.id)

RoomsBut(ids) == \A r \in battles : r.id \in ids \/ HasRoom(r)

\* The handler has changed the members of its battle and is about to look whether
\* the lobby is full, or all confirmed.
LobbyFullLabels == {"saveLevel", "countMembers", "setOnQueue"}
AllConfirmedLabels == {"countConfirmed", "startBattle"}

HeldByHandler(s) == IF s.at \in LobbyFullLabels \cup AllConfirmedLabels THEN {s.b.id} ELSE {}

HandlerHasRoom(s) ==
    /\ s.at \in LobbyFullLabels =>
          CountByBattle(s.b.id) <= Places(s.b) /\ ConfirmedOf(s.b.id) = {}
    /\ s.at = "countConfirmed" => CountByBattle(s.b.id) <= Places(s.b)
    /\ s.at = "findOpponent" => CountByBattle(s.b.id) = 1
    /\ s.at = "startBattle" =>
          /\ CountByBattle(s.b.id) = Places(s.b)
          /\ s.b.type # "AI" => ConfirmedOf(s.b.id) = MembersOf(s.b.id)
    /\ s.at = "changeSave" => CountByBattle(s.b.id) < 2
    /\ s.at = "changeOpponent" => CountByBattle(s.b.id) < 2 /\ ConfirmedOf(s.b.id) = {}
    /\ s.at = "leaveFindMember" => s.b.type # "AI"
    /\ s.at = "leaveDelete" =>
          s.b.status \in {"WAITING", "ON_QUEUE"} \/ ~ExistsInBattle(s.b.id, s.student)

\* The kicker has reopened its battle and not yet reset everyone who stays.
HeldByKicker(k) == IF k.at = "unconfirm" THEN {k.b.id} ELSE {}

KickerHasRoom(k) ==
    /\ k.at \in {"kick", "reset"} => Cardinality(k.left) < Places(k.b)
    /\ k.at = "unconfirm" =>
          CountByBattle(k.b.id) < Places(k.b) /\ ConfirmedOf(k.b.id) \subseteq k.left

HeldRooms == HeldByKicker(kicker) \cup UNION {HeldByHandler(handler[h]) : h \in Handlers}

RoomInv ==
    /\ RoomsBut(HeldRooms)
    /\ \A h \in Handlers : HandlerHasRoom(handler[h])
    /\ KickerHasRoom(kicker)

-----------------------------------------------------------------------------
(* One process at work *)

LEMMA HandlerMoves ==
    ASSUME TypeInv, SingleCopies, NEW h \in Handlers, HandlerStep(h)
    PROVE  ~At(h, "idle") /\ \A g \in Handlers \ {h} : handler'[g] = handler[g]
<1>1. HandlerSingle(h)
      BY QuietSingle, WritingSingle DEF HandlerStep
<1>2. ~At(h, "idle")
      BY DEF HandlerStep, At, FindWaitingBattle, CheckExistsInBattle, CreateParticipant,
             LowerLevel, CountMembers, SetOnQueue, CreateNewBattle, CreateCreator,
             FindOpponent, StartBattle, LoadAI, SaveAI, ConfirmFind, ConfirmFindMember,
             ConfirmSave, CountConfirmed, AnswerFind, AnswerFindMember, AnswerSave,
             LeaveFind, LeaveDeleteMembers, LeaveDeleteBattle, LeaveFindMember, LeaveSave,
             LeaveDelete, ChangeFind, ChangeCount, ChangeSave, ChangeOpponent,
             FindBattle, FindMember
<1> QED BY <1>1, <1>2 DEF HandlerSingle

LEMMA ArrivalMoves ==
    ASSUME ApiTypeOK, NEW h \in Handlers, Request(h)
    PROVE  /\ \A g \in Handlers \ {h} : handler'[g] = handler[g]
           /\ UNCHANGED <<pgVars, sqlVars>>
<1>1. \E kind, s, b, label : Accept(h, kind, s, b, label)
      BY DEF Request, FindRequest, BattleRequest, ConfirmRequest, AnswerRequest,
             LeaveRequest, ChangeTypeRequest
<1> QED BY <1>1 DEF Accept, ApiTypeOK

LEMMA KickerMoves ==
    ASSUME WorkerTypeOK, KickerStep \/ KickError, kicker.at = "scan" => kicker = KickerIdle
    PROVE  /\ kicker'.at = "scan" => kicker' = KickerIdle
           /\ ender' = ender
<1>1. \A todo : KickNext(todo) => (kicker'.at = "scan" => kicker' = KickerIdle)
      BY DEF KickNext, KickerIdle
<1>2. \A m : KickedOne(m) => kicker'.at # "scan"
      BY DEF KickedOne, WorkerTypeOK, KickerState
<1>3. kicker.at = "unconfirm" =>
        \A m : UnconfirmedOne(m) => (kicker'.at = "scan" => kicker' = KickerIdle)
      BY <1>1 DEF UnconfirmedOne, WorkerTypeOK, KickerState
<1>4. CASE KickScan \/ KickLoad \/ KickDeleteBattle
      BY <1>1, <1>4 DEF KickScan, KickLoad, KickDeleteBattle
<1>5. CASE KickDeleteMembers
      BY <1>5 DEF KickDeleteMembers, WorkerTypeOK, KickerState
<1>6. CASE KickMember
      BY <1>2, <1>6 DEF KickMember
<1>7. CASE KickReset
      BY <1>1, <1>7 DEF KickReset, WorkerTypeOK, KickerState
<1>8. CASE KickUnconfirm
      BY <1>3, <1>8 DEF KickUnconfirm
<1>9. CASE KickError
      BY <1>1, <1>2, <1>3, <1>9 DEF KickError, WorkerTypeOK, KickerState
<1> QED BY <1>4, <1>5, <1>6, <1>7, <1>8, <1>9 DEF KickerStep

LEMMA EnderMoves ==
    ASSUME WorkerTypeOK, EnderStep \/ EndError, ender.at = "scanExpired" => ender = EnderIdle
    PROVE  /\ ender'.at = "scanExpired" => ender' = EnderIdle
           /\ kicker' = kicker
<1>1. \A pass \in {"Expired", "Idle", "Finished"} : \A todo, idle :
        Work(pass, todo, idle) => (ender'.at = "scanExpired" => ender' = EnderIdle)
      BY DEF Work, AfterPass, LoadLabel, EnderIdle
<1>2. \A pass \in {"Expired", "Idle", "Finished"} : \A todo :
        EndNext(pass, todo) => (ender'.at = "scanExpired" => ender' = EnderIdle)
      BY <1>1 DEF EndNext
<1>3. GiveUp => (ender'.at = "scanExpired" => ender' = EnderIdle)
      BY <1>2 DEF GiveUp, WorkerTypeOK, EnderState
<1>4. \A m, next : EndedOne(m, next) =>
         ender'.at = next \/ ender'.at = ender.at
      BY DEF EndedOne, WorkerTypeOK, EnderState
<1>5. \A b, ms, fillBlanks : Execute(b, ms, fillBlanks) => ender'.at = "saveBattle"
      BY DEF Execute, WorkerTypeOK, EnderState
<1>6. CASE ScanExpired \/ ScanIdle \/ ScanFinished
      BY <1>1, <1>2, <1>6 DEF ScanExpired, ScanIdle, ScanFinished
<1>7. CASE LoadExpired \/ LoadIdle \/ LoadFinished
      BY <1>2, <1>5, <1>7 DEF LoadExpired, LoadIdle, LoadFinished, WorkerTypeOK, EnderState
<1>8. CASE DropMembers \/ DropBattle \/ SaveIdle
      BY <1>2, <1>8 DEF DropMembers, DropBattle, SaveIdle, WorkerTypeOK, EnderState
<1>9. CASE SavePgBattle \/ SavePgMember \/ SaveSqlBattle \/ SaveSqlMember \/ UpsertStats
      BY <1>3, <1>4, <1>9 DEF SavePgBattle, SavePgMember, SaveSqlBattle, SaveSqlMember,
                             UpsertStats, WorkerTypeOK, EnderState
<1>10. CASE EndError
      BY <1>2, <1>3, <1>10 DEF EndError, WorkerTypeOK, EnderState
<1> QED BY <1>6, <1>7, <1>8, <1>9, <1>10 DEF EnderStep, EndError

LEMMA AloneStep ==
    ASSUME Exclusive, TypeInv, SingleCopies, Alone, [Next]_vars
    PROVE  Alone'
<1> USE DEF TypeInv, TypeOK
<1>1. ASSUME NEW h \in Handlers, \A g \in Handlers \ {h} : At(g, "idle"),
             \A g \in Handlers \ {h} : handler'[g] = handler[g],
             kicker = KickerIdle, ender = EnderIdle, UNCHANGED workerVars
      PROVE  Alone'
      BY <1>1 DEF Alone, At, workerVars
<1>2. ASSUME NEW h \in Handlers, Arrive(h)
      PROVE  Alone'
  <2>1. Quiet
        BY <1>2 DEF Arrive, MayBegin
  <2> QED BY <1>1, <1>2, <2>1, ArrivalMoves DEF Arrive, Quiet
<1>3. ASSUME NEW h \in Handlers, Handle(h)
      PROVE  Alone'
  <2>1. ~At(h, "idle") /\ \A g \in Handlers \ {h} : handler'[g] = handler[g]
        BY <1>3, HandlerMoves DEF Handle
  <2> QED BY <1>1, <1>3, <2>1 DEF Alone, Handle
<1>4. ASSUME KickerStep \/ KickError, kicker.at = "scan" => Quiet, UNCHANGED apiVars
      PROVE  Alone'
  <2>1. (\A h \in Handlers : At(h, "idle")) /\ ender = EnderIdle
        BY <1>4 DEF Alone, Quiet, KickerIdle
  <2>2. (kicker'.at = "scan" => kicker' = KickerIdle) /\ ender' = ender
        BY <1>4, KickerMoves DEF Alone
  <2> QED BY <1>4, <2>1, <2>2 DEF Alone, At, apiVars
<1>5. ASSUME EnderStep \/ EndError, ender.at = "scanExpired" => Quiet, UNCHANGED apiVars
      PROVE  Alone'
  <2>1. (\A h \in Handlers : At(h, "idle")) /\ kicker = KickerIdle
        BY <1>5 DEF Alone, Quiet, EnderIdle
  <2>2. (ender'.at = "scanExpired" => ender' = EnderIdle) /\ kicker' = kicker
        BY <1>5, EnderMoves DEF Alone
  <2> QED BY <1>5, <2>1, <2>2 DEF Alone, At, apiVars
<1>6. CASE Kick \/ End
      BY <1>4, <1>5, <1>6 DEF Kick, End, MayBegin
<1>7. CASE Fault
  <2>1. ASSUME NEW h \in Handlers, Abort(h), UNCHANGED workerVars
        PROVE  Alone'
        BY <1>1, <2>1 DEF Abort, Return, Alone, ApiTypeOK
  <2>2. KickError => kicker.at # "scan"
        BY DEF KickError
  <2>3. EndError => ender.at # "scanExpired"
        BY DEF EndError
  <2>4. CASE WorkerCrash /\ UNCHANGED apiVars
    <3>1. \A h \in Handlers : At(h, "idle")
          BY <2>4 DEF WorkerCrash, Alone
    <3> QED BY <2>4, <3>1 DEF WorkerCrash, apiVars, Alone, At
  <2> QED BY <1>4, <1>5, <1>7, <2>1, <2>2, <2>3, <2>4 DEF Fault
<1>8. CASE UNCHANGED vars
      BY <1>8 DEF vars, apiVars, workerVars, Alone, At
<1> QED BY <1>2, <1>3, <1>6, <1>7, <1>8 DEF Next

\* When a handler or a tick starts only in a quiet system, one process is at work at
\* a time: neither a handler nor a loop that goes on from pass to pass and from
\* battle to battle lets another in (main.go:118, main.go:180).
THEOREM OneProcessAtWork == Exclusive /\ Spec => []Alone
<1>1. Init => Alone
      BY DEF Init, ApiInit, WorkerInit, Idle, KickerIdle, EnderIdle, Alone, At
<1>2. Exclusive /\ TypeInv /\ SingleCopies /\ Alone /\ [Next]_vars => Alone'
      BY AloneStep
<1>3. Exclusive => Exclusive'
      OBVIOUS
<1> QED BY TypeInvariant, CopiesAreSingle, <1>1, <1>2, <1>3, PTL DEF Spec

-----------------------------------------------------------------------------
(* The demo limit *)

FindLabels ==
    {"findWaiting", "existsInBattle", "createParticipant", "createBattle", "createCreator"}

\* A Find at work is one that checkDemoLimit let through.
WithinLimits ==
    \A h \in Handlers :
        handler[h].at \in FindLabels => WithinDemoLimit(handler[h].student)

\* The step brings no one new into a battle.
NobodyJoins == \A n \in members' : \E m \in members : m.id = n.id

LEMMA SavedNobodyJoins ==
    ASSUME PgTypeOK, \/ members' \subseteq members
                     \/ \E m \in BattleMember : SaveMember(m)
    PROVE  NobodyJoins
<1>1. CASE members' \subseteq members
      BY <1>1 DEF NobodyJoins
<1>2. ASSUME NEW m \in BattleMember, SaveMember(m)
      PROVE  NobodyJoins
  <2>1. \A r \in members : SavedMemberRow(r, m).id = r.id
        BY DEF SavedMemberRow, PgTypeOK, BattleMember
  <2> QED BY <1>2, <2>1 DEF NobodyJoins, SaveMember
<1> QED BY <1>1, <1>2

\* The student of the request joins, or a bot does.
Joins(h) ==
    \A n \in members' :
        \/ \E m \in members : m.id = n.id
        \/ n.student = handler[h].student /\ handler[h].at \in FindLabels
        \/ n.type = "AI" /\ n.student \in Bots

LEMMA InsertJoins ==
    ASSUME PgTypeOK, NEW h \in Handlers, NEW m \in BattleMember, NEW next,
           InsertMember(h, m, next),
           \/ m.type = "AI" /\ m.student \in Bots
           \/ m.student = handler[h].student /\ handler[h].at \in FindLabels
    PROVE  Joins(h)
<1>1. PICK row : row = [m EXCEPT !.id = memberSeq + 1]
      OBVIOUS
<1>2. row.student = m.student /\ row.type = m.type
      BY <1>1 DEF BattleMember
<1>3. members' \subseteq members \cup {row}
      BY <1>1 DEF InsertMember, CreateMember
<1> QED BY <1>2, <1>3 DEF Joins

LEMMA OpponentJoins ==
    ASSUME TypeInv, NEW h \in Handlers, NEW next, MakeAIOpponent(h, next)
    PROVE  Joins(h)
<1>1. CASE UNCHANGED members
      BY <1>1 DEF Joins
<1>2. ASSUME NEW bot \in Bots, InsertMember(h, AIOpponent(handler[h].b, bot), next)
      PROVE  Joins(h)
  <2>1. NewMember(handler[h].b, bot, "AI") \in BattleMember
        BY NewMemberType, Locals DEF TypeInv, TypeOK, Students, MemberType
  <2>2. PICK m : m = AIOpponent(handler[h].b, bot)
        OBVIOUS
  <2>3. m \in BattleMember /\ m.type = "AI" /\ m.student = bot
        BY <2>1, <2>2 DEF AIOpponent, NewMember, NoMember, BattleMember, MemberStatus
  <2>4. InsertMember(h, m, next) /\ PgTypeOK
        BY <1>2, <2>2 DEF TypeInv, TypeOK
  <2> QED BY <2>3, <2>4, InsertJoins, Zenon
<1> QED BY <1>1, <1>2 DEF MakeAIOpponent

LEMMA HandlerJoins ==
    ASSUME TypeInv, NEW h \in Handlers, HandlerStep(h)
    PROVE  Joins(h)
<1> USE DEF TypeInv, TypeOK
<1>1. CASE CreateParticipant(h)
  <2>0. handler[h].at \in FindLabels
        BY <1>1 DEF CreateParticipant, At, FindLabels
  <2>1. PICK m : m = NewMember(handler[h].b, handler[h].student, "PARTICIPANT")
        OBVIOUS
  <2>2. m \in BattleMember
        BY <2>1, Locals, NewMemberType DEF MemberType
  <2>3. m.student = handler[h].student
        BY <2>1 DEF NewMember, NoMember
  <2> QED BY <1>1, <2>0, <2>1, <2>2, <2>3, InsertJoins DEF CreateParticipant
<1>2. CASE CreateCreator(h)
  <2>0. handler[h].at \in FindLabels
        BY <1>2 DEF CreateCreator, At, FindLabels
  <2>1. PICK m : m = NewMember(handler[h].b, handler[h].student, "CREATOR")
        OBVIOUS
  <2>2. m \in BattleMember
        BY <2>1, Locals, NewMemberType DEF MemberType
  <2>3. m.student = handler[h].student
        BY <2>1 DEF NewMember, NoMember
  <2> QED BY <1>2, <2>0, <2>1, <2>2, <2>3, InsertJoins DEF CreateCreator
<1>3. CASE FindOpponent(h) \/ ChangeOpponent(h)
      BY <1>3, OpponentJoins DEF FindOpponent, ChangeOpponent
<1>4. CASE \/ FindWaitingBattle(h) \/ CheckExistsInBattle(h) \/ LowerLevel(h)
           \/ CountMembers(h) \/ SetOnQueue(h) \/ CreateNewBattle(h) \/ StartBattle(h)
           \/ LoadAI(h) \/ ConfirmFind(h) \/ ConfirmFindMember(h) \/ CountConfirmed(h)
           \/ AnswerFind(h) \/ AnswerFindMember(h)
           \/ LeaveFind(h) \/ LeaveDeleteMembers(h) \/ LeaveDeleteBattle(h)
           \/ LeaveFindMember(h) \/ LeaveDelete(h)
           \/ ChangeFind(h) \/ ChangeCount(h) \/ ChangeSave(h)
  <2>1. members' \subseteq members
        BY <1>4
           DEF FindWaitingBattle, CheckExistsInBattle, LowerLevel, CountMembers, SetOnQueue,
               CreateNewBattle, StartBattle, LoadAI, ConfirmFind, ConfirmFindMember,
               CountConfirmed, AnswerFind, AnswerFindMember, LeaveFind, LeaveDeleteMembers,
               LeaveDeleteBattle, LeaveFindMember, LeaveDelete, ChangeFind, ChangeCount,
               ChangeSave, FindBattle, FindMember, DeleteByBattle, DeleteBattle,
               DeleteByBattleAndStudent, pgVars
  <2> QED BY <2>1 DEF Joins
<1>5. CASE SaveAI(h) \/ ConfirmSave(h) \/ AnswerSave(h) \/ LeaveSave(h)
  <2>0. memberSeq' = memberSeq /\ StoreStep
        BY <1>5, HandlerTypes
           DEF SaveAI, ConfirmSave, AnswerSave, LeaveSave, SaveHeld, pgVars, HandlerStep,
               HandlerOK
  <2>1. members' \subseteq members \/ \E m \in BattleMember : SaveMember(m)
        BY <2>0 DEF StoreStep, BattleCreated, BattleSaved, BattleDeleted, DeleteBattle,
                    MemberCreated, CreateMember, MemberSaved, MembersDeleted, pgVars, PgTypeOK
  <2> QED BY <2>1, SavedNobodyJoins DEF Joins, NobodyJoins
<1> QED BY <1>1, <1>2, <1>3, <1>4, <1>5 DEF HandlerStep

\* A handler comes to the labels of Find only on the way through Find.
LEMMA HandlerFinds ==
    ASSUME TypeInv, NEW h \in Handlers, HandlerStep(h)
    PROVE  handler'[h].at \in FindLabels =>
               /\ handler[h].at \in FindLabels
               /\ handler'[h].student = handler[h].student
<1> USE DEF TypeInv, TypeOK, ApiTypeOK, FindLabels
<1>0. handler[h] \in HandlerState
      BY DEF ApiTypeOK
<1>1. Return(h) \/ Respond(h) => handler'[h].at = "idle"
      BY DEF Return, Respond, Idle
<1>2. \A label : Goto(h, label) =>
        handler'[h].at = label /\ (label # "idle" => handler'[h].student = handler[h].student)
      BY <1>0, <1>1 DEF Goto, HandlerState
<1>3. \A b, label : HoldBattle(h, b, label) =>
        handler'[h].at = label /\ handler'[h].student = handler[h].student
      BY <1>0 DEF HoldBattle, HandlerState
<1>4. \A m, label : HoldMember(h, m, label) \/ HoldMembers(h, m, label) =>
        handler'[h].at = label
      BY <1>0 DEF HoldMember, HoldMembers, HandlerState
<1>5. CASE FindWaitingBattle(h) \/ CheckExistsInBattle(h) \/ CreateNewBattle(h)
      BY <1>1, <1>2, <1>3, <1>5
         DEF At, FindWaitingBattle, CheckExistsInBattle, CreateNewBattle
<1>6. \A m, next : InsertMember(h, m, next) => handler'[h].at \in {"idle", next}
      BY <1>1, <1>2 DEF InsertMember
<1>7. \A next : MakeAIOpponent(h, next) => handler'[h].at \in {"idle", next}
      BY <1>1, <1>6 DEF MakeAIOpponent
<1>8. CASE CreateParticipant(h) \/ CreateCreator(h) \/ FindOpponent(h) \/ ChangeOpponent(h)
      BY <1>6, <1>7, <1>8 DEF CreateParticipant, CreateCreator, FindOpponent, ChangeOpponent
<1>9. CASE \/ LowerLevel(h) \/ CountMembers(h) \/ SetOnQueue(h) \/ StartBattle(h)
           \/ LoadAI(h) \/ SaveAI(h) \/ CountConfirmed(h) \/ ConfirmSave(h)
           \/ ChangeCount(h) \/ ChangeSave(h)
           \/ LeaveDeleteMembers(h) \/ LeaveDeleteBattle(h) \/ LeaveDelete(h)
      BY <1>1, <1>2, <1>3, <1>4, <1>9
         DEF LowerLevel, CountMembers, SetOnQueue, StartBattle, LoadAI, SaveAI,
             CountConfirmed, ConfirmSave, ChangeCount, ChangeSave, LeaveDeleteMembers,
             LeaveDeleteBattle, LeaveDelete
<1>10. CASE AnswerSave(h) \/ LeaveSave(h)
      BY <1>1, <1>10 DEF AnswerSave, LeaveSave, SaveHeld
<1>11. CASE ConfirmFind(h) \/ AnswerFind(h) \/ LeaveFind(h) \/ ChangeFind(h)
      BY <1>1, <1>3, <1>11
         DEF ConfirmFind, AnswerFind, LeaveFind, ChangeFind, FindBattle, FindByUUID,
             AfterAnswerFind, AfterLeaveFind, AfterChangeFind
<1>12. CASE ConfirmFindMember(h) \/ AnswerFindMember(h) \/ LeaveFindMember(h)
      BY <1>2, <1>4, <1>12
         DEF ConfirmFindMember, AnswerFindMember, LeaveFindMember, FindMember,
             FindByBattleAndStudent, MembersOf, AfterLeaveFindMember
<1> QED BY <1>5, <1>8, <1>9, <1>10, <1>11, <1>12 DEF HandlerStep

LEMMA LimitsStep ==
    ASSUME TypeInv, SingleCopies, Alone, WithinLimits, [Next]_vars
    PROVE  WithinLimits'
<1> USE DEF TypeInv, TypeOK
<1>1. ASSUME NEW h \in Handlers, \A g \in Handlers \ {h} : handler'[g] = handler[g],
             UNCHANGED sqlVars,
             handler'[h].at \in FindLabels => WithinDemoLimit(handler'[h].student)
      PROVE  WithinLimits'
      BY <1>1 DEF WithinLimits, WithinDemoLimit, FinishedBattlesOf, sqlVars
<1>2. ASSUME NEW h \in Handlers, Arrive(h)
      PROVE  WithinLimits'
  <2>1. ASSUME NEW s, NEW b, NEW kind, NEW label, Accept(h, kind, s, b, label),
               label \in FindLabels => WithinDemoLimit(s)
        PROVE  handler'[h].at \in FindLabels => WithinDemoLimit(handler'[h].student)
        BY <2>1 DEF Accept, Idle, ApiTypeOK
  <2>2. PICK s \in Humans :
          \/ \E type \in FindTypes : FindRequest(h, s, type)
          \/ \E uuid \in 1..battleSeq :
                \/ ConfirmRequest(h, s, uuid) \/ AnswerRequest(h, s, uuid)
                \/ LeaveRequest(h, s, uuid) \/ ChangeTypeRequest(h, s, uuid)
        BY <1>2 DEF Arrive, Request
  <2>3. handler'[h].at \in FindLabels => WithinDemoLimit(handler'[h].student)
        BY <2>1, <2>2 DEF FindRequest, BattleRequest, ConfirmRequest, AnswerRequest,
                          LeaveRequest, ChangeTypeRequest, FindLabels
  <2> QED BY <1>1, <1>2, <2>3, ArrivalMoves DEF Arrive
<1>3. ASSUME NEW h \in Handlers, Handle(h)
      PROVE  WithinLimits'
  <2>1. HandlerStep(h)
        BY <1>3 DEF Handle
  <2>2. UNCHANGED sqlVars
        BY <2>1, HandlerTypes DEF HandlerOK
  <2>3. handler'[h].at \in FindLabels => WithinDemoLimit(handler'[h].student)
        BY <2>1, HandlerFinds DEF WithinLimits
  <2> QED BY <1>1, <2>1, <2>2, <2>3, HandlerMoves
<1>4. ASSUME kicker # KickerIdle \/ ender # EnderIdle \/ UNCHANGED sqlVars, UNCHANGED apiVars
      PROVE  WithinLimits'
  <2>1. CASE UNCHANGED sqlVars
        BY <1>4, <2>1 DEF WithinLimits, WithinDemoLimit, FinishedBattlesOf, sqlVars, apiVars
  <2>2. CASE kicker # KickerIdle \/ ender # EnderIdle
        BY <1>4, <2>2 DEF Alone, At, WithinLimits, FindLabels, apiVars
  <2> QED BY <1>4, <2>1, <2>2
<1>5. CASE Kick
      BY <1>4, <1>5 DEF Kick, KickerStep, KickScan, KickLoad, KickDeleteMembers,
                        KickDeleteBattle, KickMember, KickReset, KickUnconfirm
<1>6. CASE End
  <2>1. ASSUME SaveSqlBattle \/ SaveSqlMember \/ UpsertStats
        PROVE  ender # EnderIdle
        BY <2>1 DEF SaveSqlBattle, SaveSqlMember, UpsertStats, EnderIdle
  <2>2. ASSUME ~(SaveSqlBattle \/ SaveSqlMember \/ UpsertStats)
        PROVE  UNCHANGED sqlVars
        BY <1>6, <2>2 DEF End, EnderStep, ScanExpired, LoadExpired, DropMembers, DropBattle,
                          ScanIdle, LoadIdle, SaveIdle, ScanFinished, LoadFinished,
                          SavePgBattle, SavePgMember
  <2>3. ender # EnderIdle \/ UNCHANGED sqlVars
        BY <1>6, <2>1, <2>2 DEF End
  <2> QED BY <1>4, <1>6, <2>3 DEF End
<1>7. CASE Fault
  <2>1. ASSUME NEW h \in Handlers, Abort(h)
        PROVE  WithinLimits'
        BY <1>1, <2>1 DEF Abort, Return, Idle, ApiTypeOK, FindLabels
  <2> QED BY <1>4, <1>7, <2>1 DEF Fault, KickError, EndError, WorkerCrash
<1>8. CASE UNCHANGED vars
      BY <1>8 DEF vars, apiVars, sqlVars, WithinLimits, WithinDemoLimit, FinishedBattlesOf
<1> QED BY <1>2, <1>3, <1>5, <1>6, <1>7, <1>8 DEF Next

\* The battles a student has a result of can be counted.
LEMMA ResultsAreFinite ==
    ASSUME IsFiniteSet(sqlBattles), NEW s
    PROVE  IsFiniteSet(FinishedBattlesOf(s))
<1>1. FinishedBattlesOf(s) \subseteq sqlBattles
      BY DEF FinishedBattlesOf
<1> QED BY <1>1, FS_Subset

LEMMA FiniteStep ==
    ASSUME TypeInv, IsFiniteSet(sqlBattles), [Next]_vars
    PROVE  IsFiniteSet(sqlBattles')
<1>1. sqlBattles' = sqlBattles \/ \E id : sqlBattles' = sqlBattles \cup {id}
  <2>1. CASE End
        BY <2>1 DEF End, EnderStep, ScanExpired, LoadExpired, DropMembers, DropBattle,
                    ScanIdle, LoadIdle, SaveIdle, ScanFinished, LoadFinished,
                    SavePgBattle, SavePgMember, SaveSqlBattle, SaveSqlMember,
                    UpsertStats, SqlSaveBattle, sqlVars
  <2>2. CASE Kick
        BY <2>2 DEF Kick, KickerStep, KickScan, KickLoad, KickDeleteMembers,
                    KickDeleteBattle, KickMember, KickReset, KickUnconfirm, sqlVars
  <2>3. ASSUME NEW h \in Handlers, Arrive(h) \/ Handle(h)
        PROVE  sqlBattles' = sqlBattles
        BY <2>3, RequestTypes, HandlerTypes DEF Arrive, Handle, HandlerOK, sqlVars
  <2>4. CASE Fault \/ UNCHANGED vars
        BY <2>4 DEF Fault, Abort, KickError, EndError, WorkerCrash, vars, sqlVars
  <2> QED BY <2>1, <2>2, <2>3, <2>4 DEF Next
<1> QED BY <1>1, FS_AddElement

\* No step brings a demo student who has reached the limit into a battle.
LEMMA LimitHolds ==
    ASSUME TypeInv, WithinLimits, [Next]_vars,
           NEW s \in DemoStudents, Cardinality(FinishedBattlesOf(s)) >= DemoLimit,
           IsFiniteSet(sqlBattles), NEW n \in members', n.student = s, n.type # "AI"
    PROVE  \E m \in members : m.id = n.id
<1> USE DEF TypeInv, TypeOK
<1>1. ~WithinDemoLimit(s)
      BY ResultsAreFinite, FS_CardinalityType, DemoAssumption DEF WithinDemoLimit
<1>2. NobodyJoins \/ \E h \in Handlers : Joins(h)
  <2>1. ASSUME NEW h \in Handlers, Arrive(h)
        PROVE  NobodyJoins
        BY <2>1, ArrivalMoves DEF Arrive, pgVars, NobodyJoins
  <2>2. ASSUME NEW h \in Handlers, Handle(h)
        PROVE  Joins(h)
        BY <2>2, HandlerJoins DEF Handle
  <2>3. CASE Kick
    <3>1. memberSeq' = memberSeq /\ StoreStep
          BY <2>3, KickerTypes
             DEF Kick, KickerStep, KickScan, KickLoad, KickDeleteMembers, KickDeleteBattle,
                 KickMember, KickReset, KickUnconfirm, pgVars, KickerOK
    <3> QED BY <3>1, SavedNobodyJoins
            DEF StoreStep, BattleCreated, BattleSaved, BattleDeleted, DeleteBattle,
                MemberCreated, CreateMember, MemberSaved, MembersDeleted, pgVars, PgTypeOK
  <2>4. CASE End
    <3>1. memberSeq' = memberSeq /\ StoreStep
          BY <2>4, EnderTypes
             DEF End, EnderStep, ScanExpired, LoadExpired, DropMembers, DropBattle,
                 ScanIdle, LoadIdle, SaveIdle, ScanFinished, LoadFinished, SavePgBattle,
                 SavePgMember, SaveSqlBattle, SaveSqlMember, UpsertStats, pgVars, EnderOK
    <3> QED BY <3>1, SavedNobodyJoins
            DEF StoreStep, BattleCreated, BattleSaved, BattleDeleted, DeleteBattle,
                MemberCreated, CreateMember, MemberSaved, MembersDeleted, pgVars, PgTypeOK
  <2>5. CASE Fault \/ UNCHANGED vars
        BY <2>5 DEF Fault, Abort, KickError, EndError, WorkerCrash, vars, pgVars, NobodyJoins
  <2> QED BY <2>1, <2>2, <2>3, <2>4, <2>5 DEF Next
<1>3. CASE NobodyJoins
      BY <1>3 DEF NobodyJoins
<1>4. ASSUME NEW h \in Handlers, Joins(h)
      PROVE  \E m \in members : m.id = n.id
  <2>1. handler[h].at \in FindLabels => handler[h].student # s
        BY <1>1 DEF WithinLimits
  <2> QED BY <1>4, <2>1 DEF Joins
<1> QED BY <1>2, <1>3, <1>4

\* While no Find overlaps the end of a battle, a demo student who has played as many
\* battles as the limit allows gets into no other one as a player (find.go:56), whatever
\* fails and crashes in between.
THEOREM DemoLimitHolds == Exclusive /\ Spec => DemoLimitStops
<1>1. Init => WithinLimits /\ IsFiniteSet(sqlBattles)
      BY FS_EmptySet DEF Init, ApiInit, SqlInit, Idle, WithinLimits, FindLabels
<1>2. /\ TypeInv /\ SingleCopies /\ Alone /\ WithinLimits /\ IsFiniteSet(sqlBattles)
      /\ [Next]_vars
      => WithinLimits' /\ IsFiniteSet(sqlBattles)'
      BY LimitsStep, FiniteStep
<1>3. /\ TypeInv /\ WithinLimits /\ IsFiniteSet(sqlBattles) /\ [Next]_vars
      => [\A s \in DemoStudents :
            Cardinality(FinishedBattlesOf(s)) >= DemoLimit =>
                \A n \in members' : n.student = s /\ n.type # "AI" =>
                    \E m \in members : m.id = n.id]_vars
      BY LimitHolds
<1>4. Exclusive => Exclusive'
      OBVIOUS
<1> QED BY TypeInvariant, CopiesAreSingle, OneProcessAtWork, <1>1, <1>2, <1>3, <1>4,
           PTL DEF Spec, DemoLimitStops

-----------------------------------------------------------------------------
(* The moves of the tables *)

\* A new row: a waiting lobby, or an AI battle to be set up.
Opens(c) ==
    /\ c \in Battle /\ c.id = battleSeq + 1 /\ c.questions = {}
    /\ c.status = IF c.type = "AI" THEN "ON_GOING" ELSE "WAITING"
    /\ battles' = battles \cup {c} /\ battleSeq' = battleSeq + 1
    /\ UNCHANGED <<members, memberSeq>>

\* What an open battle's row turns into: it keeps its status, closes, reopens,
\* starts or finishes.
Turn(b, c) ==
    \/ c.status = b.status /\ c.questions = b.questions
    \/ b.status = "WAITING" /\ c.status = "ON_QUEUE" /\ c.questions = b.questions
    \/ b.status = "ON_QUEUE" /\ c.status = "WAITING" /\ c.questions = b.questions
    \/ /\ b.status # "WAITING" /\ b.questions = {}
       /\ c.status = "ON_GOING" /\ c.questions \in QuestionSets \ {{}}
    \/ /\ b.status = "ON_GOING" /\ b.questions # {}
       /\ c.status = "FINISHED" /\ c.questions = b.questions

Moves(b, c) ==
    /\ b \in Open /\ c \in Battle
    /\ c.id = b.id /\ c.type = b.type /\ Turn(b, c)
    /\ battles' = (battles \ {b}) \cup {c}
    /\ UNCHANGED <<members, battleSeq, memberSeq>>

\* A member that has answered nothing enters a battle that has not started.
Enters(m) ==
    /\ m \in BattleMember /\ m.id = memberSeq + 1 /\ Untouched(m)
    /\ ~ExistsInBattle(m.battle, m.student)
    /\ \E r \in battles : r.id = m.battle /\ r.questions = {}
    /\ members' = members \cup {m} /\ memberSeq' = memberSeq + 1
    /\ UNCHANGED <<battles, battleSeq>>

\* Member m becomes n, and stays finished if it was.
Writes(m, n) ==
    /\ m \in members /\ n \in BattleMember
    /\ n.id = m.id /\ n.battle = m.battle /\ n.student = m.student /\ n.type = m.type
    /\ m.isFinished => n.isFinished /\ n.answers = m.answers
    /\ \A r \in battles : r.id = m.battle => FitsQuestions(r.questions, n)
    /\ members' = (members \ {m}) \cup {n}
    /\ UNCHANGED <<battles, battleSeq, memberSeq>>

Removes(b, gone) ==
    /\ b \in Open
    /\ gone \subseteq MembersOf(b.id) /\ members' = members \ gone
    /\ UNCHANGED <<battles, battleSeq, memberSeq>>

Deletes(b) ==
    /\ b \in Open
    /\ battles' = battles \ {b} /\ members' = members \ MembersOf(b.id)
    /\ UNCHANGED <<battleSeq, memberSeq>>

\* No FINISHED battle is touched, and none becomes FINISHED.
OpenMove ==
    \/ UNCHANGED pgVars
    \/ \E c : Opens(c)
    \/ \E b, c : Moves(b, c) /\ c.status # "FINISHED"
    \/ \E m : Enters(m)
    \/ \E m, n : Writes(m, n) /\ \E b \in Open : b.id = m.battle
    \/ \E b, gone : Removes(b, gone)
    \/ \E b : Deletes(b)

LEMMA UntouchedFits ==
    ASSUME NEW m, Untouched(m), NEW qs
    PROVE  FitsQuestions(qs, m)
BY UntouchedIsComplete DEF FitsQuestions

LEMMA OpensFits ==
    ASSUME TypeInv, SoundCopies, NoOrphans, FitTables, NEW c, Opens(c)
    PROVE  FitTables'
<1> USE DEF TypeInv, TypeOK, PgTypeOK
<1>1. \A r \in battles : r.id # c.id
      BY DEF Opens, SoundCopies, Sound, Battle
<1>2. \A m \in members : m.battle # c.id
      BY <1>1 DEF NoOrphans
<1>3. members' = members /\ memberSeq' = memberSeq /\ battles' = battles \cup {c}
      BY DEF Opens
<1>4. \A r \in battles : RowFits(r)'
      BY <1>3 DEF FitTables, RowFits, MembersOf
<1>5. RowFits(c)'
  <2>1. c.status \in {"WAITING", "ON_GOING"} /\ c.questions = {}
        BY DEF Opens
  <2> QED BY <1>2, <1>3, <2>1 DEF RowFits, MembersOf
<1> QED BY <1>1, <1>3, <1>4, <1>5 DEF FitTables

LEMMA MovesFits ==
    ASSUME FitTables, NEW b, NEW c, Moves(b, c)
    PROVE  FitTables'
<1>1. members' = members /\ memberSeq' = memberSeq /\ battles' = (battles \ {b}) \cup {c}
      BY DEF Moves
<1>2. b \in battles /\ c.id = b.id /\ Turn(b, c)
      BY DEF Moves, Open
<1>3. \A r \in battles : RowFits(r)'
      BY <1>1 DEF FitTables, RowFits, MembersOf
<1>4. \A m \in MembersOf(b.id) : FitsQuestions(c.questions, m)
  <2>1. ASSUME NEW m \in MembersOf(b.id)
        PROVE  FitsQuestions(c.questions, m)
    <3>1. FitsQuestions(b.questions, m)
          BY <1>2 DEF FitTables, RowFits
    <3>2. CASE c.questions = b.questions
          BY <3>1, <3>2
    <3>3. CASE b.questions = {}
          BY <3>1, <3>3, UntouchedFits DEF FitsQuestions
    <3> QED BY <1>2, <3>2, <3>3 DEF Turn
  <2> QED BY <2>1
<1>5. /\ c.status \in {"WAITING", "ON_QUEUE"} => c.questions = {}
      /\ c.status = "FINISHED" => c.questions # {}
      BY <1>2 DEF Turn, FitTables, RowFits, Moves, Open
<1>6. RowFits(c)'
      BY <1>1, <1>2, <1>4, <1>5 DEF RowFits, MembersOf
<1>7. \A r, s \in battles' : r.id = s.id => r = s
      BY <1>1, <1>2 DEF FitTables
<1> QED BY <1>1, <1>3, <1>6, <1>7 DEF FitTables

LEMMA MemberMovesFit ==
    ASSUME TypeInv, FitTables,
           \/ \E m : Enters(m)
           \/ \E m, n : Writes(m, n)
           \/ \E b, gone : Removes(b, gone)
    PROVE  FitTables'
<1> USE DEF TypeInv, TypeOK, PgTypeOK
<1>1. battles' = battles
      BY DEF Enters, Writes, Removes
<1>2. ASSUME (\A m, n \in members : m.id = n.id => m = n)',
             (\A m \in members : m.id <= memberSeq)',
             \A r \in battles : \A m \in members' :
                 m.battle = r.id => m \in members \/ FitsQuestions(r.questions, m)
      PROVE  FitTables'
  <2>1. ASSUME NEW r \in battles
        PROVE  RowFits(r)'
    <3>1. RowFits(r)
          BY DEF FitTables
    <3>2. \A m \in MembersOf(r.id)' : FitsQuestions(r.questions, m)
          BY <1>2, <3>1 DEF RowFits, MembersOf
    <3> QED BY <3>1, <3>2 DEF RowFits
  <2> QED BY <1>1, <1>2, <2>1 DEF FitTables
<1>3. ASSUME NEW m, Enters(m)
      PROVE  FitTables'
  <2>1. members' = members \cup {m} /\ memberSeq' = memberSeq + 1 /\ m.id = memberSeq + 1
        BY <1>3 DEF Enters
  <2>2. \A n \in members : n.id <= memberSeq /\ n.id \in Nat
        BY DEF FitTables, BattleMember
  <2>3. (\A x, y \in members : x.id = y.id => x = y)'
        BY <2>1, <2>2 DEF FitTables
  <2>4. (\A x \in members : x.id <= memberSeq)'
        BY <2>1, <2>2
  <2>5. \A r \in battles : FitsQuestions(r.questions, m)
        BY <1>3, UntouchedFits DEF Enters
  <2> QED BY <1>2, <2>1, <2>3, <2>4, <2>5
<1>4. ASSUME NEW m, NEW n, Writes(m, n)
      PROVE  FitTables'
  <2>1. /\ members' = (members \ {m}) \cup {n} /\ memberSeq' = memberSeq
        /\ m \in members /\ n.id = m.id /\ n.battle = m.battle
        BY <1>4 DEF Writes
  <2>2. (\A x, y \in members : x.id = y.id => x = y)'
        BY <2>1 DEF FitTables
  <2>3. (\A x \in members : x.id <= memberSeq)'
        BY <2>1 DEF FitTables
  <2>4. \A r \in battles : r.id = n.battle => FitsQuestions(r.questions, n)
        BY <1>4, <2>1 DEF Writes
  <2> QED BY <1>2, <2>1, <2>2, <2>3, <2>4
<1>5. ASSUME NEW b, NEW gone, Removes(b, gone)
      PROVE  FitTables'
  <2>1. members' = members \ gone /\ memberSeq' = memberSeq
        BY <1>5 DEF Removes
  <2> QED BY <1>2, <2>1 DEF FitTables
<1> QED BY <1>3, <1>4, <1>5

LEMMA DeletesFits ==
    ASSUME FitTables, NEW b, Deletes(b)
    PROVE  FitTables'
<1>1. battles' \subseteq battles /\ members' \subseteq members /\ memberSeq' = memberSeq
      BY DEF Deletes
<1>2. \A r \in battles : RowFits(r)'
      BY <1>1 DEF FitTables, RowFits, MembersOf
<1> QED BY <1>1, <1>2 DEF FitTables

LEMMA MoveFits ==
    ASSUME TypeInv, SoundCopies, NoOrphans, FitTables, OpenMove
    PROVE  FitTables'
<1>1. CASE UNCHANGED pgVars
      BY <1>1 DEF pgVars, FitTables, RowFits, MembersOf, Untouched, Answered
<1> QED BY <1>1, OpensFits, MovesFits, MemberMovesFit, DeletesFits DEF OpenMove

\* The FINISHED battles and their members are what they were.
FinishedKept ==
    /\ \A r \in battles' : r.status = "FINISHED" => r \in battles
    /\ \A r \in battles : r.status = "FINISHED" =>
          r \in battles' /\ MembersOf(r.id)' = MembersOf(r.id)

LEMMA OpenMoveKeeps ==
    ASSUME FitTables, OpenMove
    PROVE  FinishedKept
<1>0. \A b \in Open : b \in battles /\ b.status # "FINISHED"
      BY DEF Open
<1>1. \A r, s \in battles : r.id = s.id => r = s
      BY DEF FitTables
<1>2. CASE UNCHANGED pgVars
      BY <1>2 DEF pgVars, FinishedKept, MembersOf
<1>3. ASSUME NEW c, Opens(c)
      PROVE  FinishedKept
      BY <1>3 DEF Opens, FinishedKept, MembersOf
<1>4. ASSUME NEW b, NEW c, Moves(b, c), c.status # "FINISHED"
      PROVE  FinishedKept
      BY <1>0, <1>4 DEF Moves, FinishedKept, MembersOf
<1>5. ASSUME NEW m, Enters(m)
      PROVE  FinishedKept
  <2>1. PICK b \in battles : b.id = m.battle /\ b.questions = {}
        BY <1>5 DEF Enters
  <2>2. b.status # "FINISHED"
        BY <2>1 DEF FitTables, RowFits
  <2>3. members' = members \cup {m} /\ battles' = battles
        BY <1>5 DEF Enters
  <2> QED BY <1>1, <2>1, <2>2, <2>3 DEF FinishedKept, MembersOf
<1>6. ASSUME NEW m, NEW n, NEW b \in Open, Writes(m, n), b.id = m.battle
      PROVE  FinishedKept
      BY <1>0, <1>1, <1>6 DEF Writes, FinishedKept, MembersOf
<1>7. ASSUME NEW b, NEW gone, Removes(b, gone)
      PROVE  FinishedKept
  <2>1. /\ b \in battles /\ b.status # "FINISHED"
        /\ \A m \in gone : m \in members /\ m.battle = b.id
        /\ members' = members \ gone /\ battles' = battles
        BY <1>0, <1>7 DEF Removes, MembersOf
  <2> QED BY <1>1, <2>1 DEF FinishedKept, MembersOf
<1>8. ASSUME NEW b, Deletes(b)
      PROVE  FinishedKept
  <2>1. b \in battles /\ b.status # "FINISHED"
        BY <1>0, <1>8 DEF Deletes
  <2>2. battles' = battles \ {b} /\ members' = {m \in members : m.battle # b.id}
        BY <1>8 DEF Deletes, MembersOf
  <2> QED BY <1>1, <2>1, <2>2 DEF FinishedKept, MembersOf
<1> QED BY <1>2, <1>3, <1>4, <1>5, <1>6, <1>7, <1>8 DEF OpenMove

LEMMA KeptResults ==
    ASSUME FitResults, FinishedKept, UNCHANGED sqlVars,
           \A id : ~BeingEnded(id), \A id : ~BeingEnded(id)'
    PROVE  FitResults'
<1>1. sqlBattles' = sqlBattles /\ sqlMembers' = sqlMembers
      BY DEF sqlVars
<1>2. (\A id \in sqlBattles : \E r \in battles : r.id = id /\ r.status = "FINISHED")'
      BY <1>1 DEF FitResults, FinishedKept
<1>3. FinishedBattlesAreRanked'
  <2> SUFFICES ASSUME NEW r \in battles', r.status = "FINISHED", NEW m \in MembersOf(r.id)'
               PROVE  m.isFinished /\ m.place # 0
      BY DEF FinishedBattlesAreRanked
  <2>1. r \in battles /\ m \in MembersOf(r.id)
        BY DEF FinishedKept
  <2> QED BY <2>1 DEF FitResults, FinishedBattlesAreRanked
<1>4. StoredResultsAgree'
  <2> SUFFICES ASSUME NEW m \in members', NEW x \in sqlMembers,
                      x.battle = m.battle, x.student = m.student
               PROVE  x.place = m.place /\ x.points = m.points /\ x.answers = m.answers
      BY <1>1 DEF StoredResultsAgree
  <2>1. PICK r \in battles : r.id = m.battle /\ r.status = "FINISHED"
        BY DEF FitResults
  <2>2. m \in MembersOf(r.id)'
        BY <2>1 DEF MembersOf
  <2>3. m \in members
        BY <2>1, <2>2 DEF FinishedKept, MembersOf
  <2> QED BY <2>3 DEF FitResults, StoredResultsAgree
<1> QED BY <1>1, <1>2, <1>3, <1>4 DEF FitResults

\* The step of FinishedMembersStay.
FinishedStay ==
    \A m \in members : \A n \in members' :
        m.id = n.id /\ m.isFinished => n.isFinished /\ n.answers = m.answers

LEMMA MovesStay ==
    ASSUME TypeInv, FitTables,
           OpenMove \/ (\E b, c : Moves(b, c)) \/ (\E m, n : Writes(m, n))
    PROVE  FinishedStay
<1>1. \A m, n \in members : m.id = n.id => m = n
      BY DEF FitTables
<1>2. ASSUME members' \subseteq members
      PROVE  FinishedStay
      BY <1>1, <1>2 DEF FinishedStay
<1>3. ASSUME NEW m, Enters(m)
      PROVE  FinishedStay
  <2>1. \A n \in members : n.id <= memberSeq /\ n.id \in Nat /\ memberSeq \in Nat
        BY DEF FitTables, BattleMember, TypeInv, TypeOK, PgTypeOK
  <2>2. members' = members \cup {m} /\ m.id = memberSeq + 1
        BY <1>3 DEF Enters
  <2>3. \A n \in members : n.id # m.id
        BY <2>1, <2>2
  <2> QED BY <1>1, <2>2, <2>3 DEF FinishedStay
<1>4. ASSUME NEW m, NEW n, Writes(m, n)
      PROVE  FinishedStay
      BY <1>1, <1>4 DEF Writes, FinishedStay
<1> QED BY <1>2, <1>3, <1>4
        DEF OpenMove, Opens, Moves, Removes, Deletes, pgVars

-----------------------------------------------------------------------------
(* The statements as moves *)

\* A Save of a copy of a row that is the row, but for what it changes.
LEMMA SavedRowMoves ==
    ASSUME TypeInv, FitTables, NEW b \in Open, NEW c \in Battle, c.id = b.id, c.type = b.type,
           Turn(b, c), SaveBattle(c), UNCHANGED <<members, battleSeq, memberSeq>>
    PROVE  Moves(b, c)
<1> USE DEF TypeInv, TypeOK, PgTypeOK, Open
<1>1. SavedRow(b, c) = c
      BY DEF SavedRow, Battle
<1>2. \A r \in battles : r.id = c.id <=> r = b
      BY DEF FitTables
<1>3. battles' = {IF r.id = c.id THEN SavedRow(r, c) ELSE r : r \in battles}
      BY DEF SaveBattle
<1>4. battles' = {IF r = b THEN c ELSE r : r \in battles}
      BY <1>1, <1>2, <1>3
<1>5. battles' = (battles \ {b}) \cup {c}
      BY <1>4
<1> QED BY <1>5 DEF Moves

LEMMA SavedMemberWrites ==
    ASSUME TypeInv, FitTables, NEW m \in members, NEW n \in BattleMember,
           n.id = m.id, n.battle = m.battle, n.student = m.student, n.type = m.type,
           m.isFinished => n.isFinished /\ n.answers = m.answers,
           \A r \in battles : r.id = m.battle => FitsQuestions(r.questions, n),
           SaveMember(n), UNCHANGED <<battles, battleSeq, memberSeq>>
    PROVE  Writes(m, n)
<1> USE DEF TypeInv, TypeOK, PgTypeOK
<1>1. SavedMemberRow(m, n) = n
      BY DEF SavedMemberRow, BattleMember
<1>2. \A r \in members : r.id = n.id <=> r = m
      BY DEF FitTables
<1>3. members' = {IF r.id = n.id THEN SavedMemberRow(r, n) ELSE r : r \in members}
      BY DEF SaveMember
<1>4. members' = {IF r = m THEN n ELSE r : r \in members}
      BY <1>1, <1>2, <1>3
<1>5. members' = (members \ {m}) \cup {n}
      BY <1>4
<1> QED BY <1>5 DEF Writes

LEMMA DeletedRow ==
    ASSUME FitTables, NEW b \in Open, DeleteBattle(b.id), UNCHANGED <<battleSeq, memberSeq>>
    PROVE  Deletes(b)
BY DEF FitTables, Open, DeleteBattle, Deletes, MembersOf

LEMMA InsertedEnters ==
    ASSUME TypeInv, FitTables, NEW b \in battles, b.questions = {},
           NEW m \in BattleMember, m.battle = b.id, Untouched(m),
           Insertable(m), CreateMember(m), UNCHANGED <<battles, battleSeq>>,
           NEW row, row = [m EXCEPT !.id = memberSeq + 1]
    PROVE  Enters(row)
<1>1. /\ row \in BattleMember /\ row.id = memberSeq + 1 /\ Untouched(row)
      /\ row.battle = m.battle /\ row.student = m.student
      BY DEF BattleMember, Untouched, TypeInv, TypeOK, PgTypeOK
<1>2. members' = members \cup {row} /\ memberSeq' = memberSeq + 1
      BY DEF CreateMember
<1> QED BY <1>1, <1>2 DEF Insertable, Enters

-----------------------------------------------------------------------------
(* Steps of a handler: control *)

\* Where handler h, then s, is after a call, and with which copies: t.
LEMMA HandlerControl ==
    ASSUME ApiTypeOK, NEW h \in Handlers, NEW t, t = handler'[h], NEW s, s = handler[h]
    PROVE  /\ Return(h) \/ Respond(h) => t = Idle
           /\ \A label : Goto(h, label) =>
                 IF label = "idle" THEN t = Idle
                 ELSE t.at = label /\ t.b = s.b /\ t.m = s.m /\ t.student = s.student
           /\ \A b, label : HoldBattle(h, b, label) =>
                 t.at = label /\ t.b = b /\ t.student = s.student
           /\ \A m, label : HoldMember(h, m, label) =>
                 t.at = label /\ t.b = s.b /\ t.m = m /\ t.student = s.student
           /\ \A ms, label : HoldMembers(h, ms, label) =>
                 t.at = label /\ t.b = s.b /\ t.ms = ms /\ t.student = s.student
<1>0. s \in HandlerState
      BY DEF ApiTypeOK
<1>1. Return(h) \/ Respond(h) => t = Idle
      BY DEF ApiTypeOK, Return, Respond
<1>2. ASSUME NEW label, Goto(h, label)
      PROVE  IF label = "idle" THEN t = Idle
             ELSE t.at = label /\ t.b = s.b /\ t.m = s.m /\ t.student = s.student
      BY <1>0, <1>1, <1>2 DEF ApiTypeOK, Goto, HandlerState
<1>3. ASSUME NEW b, NEW label, HoldBattle(h, b, label)
      PROVE  t.at = label /\ t.b = b /\ t.student = s.student
      BY <1>0, <1>3 DEF ApiTypeOK, HoldBattle, HandlerState
<1>4. ASSUME NEW m, NEW label, HoldMember(h, m, label)
      PROVE  t.at = label /\ t.b = s.b /\ t.m = m /\ t.student = s.student
      BY <1>0, <1>4 DEF ApiTypeOK, HoldMember, HandlerState
<1>5. ASSUME NEW ms, NEW label, HoldMembers(h, ms, label)
      PROVE  t.at = label /\ t.b = s.b /\ t.ms = ms /\ t.student = s.student
      BY <1>0, <1>5 DEF ApiTypeOK, HoldMembers, HandlerState
<1> QED BY <1>1, <1>2, <1>3, <1>4, <1>5

LEMMA IdleExact == ExactHandler(Idle) /\ ExactHandler(Idle)'
BY DEF ExactHandler, Idle, LobbyLabels

-----------------------------------------------------------------------------
(* Steps of a handler: reads *)

\* What every step may rely on.
Settled ==
    TypeInv /\ SoundCopies /\ SingleCopies /\ UniqueMembership /\ NoOrphans /\ FitTables

LEMMA FoundBattle ==
    ASSUME ApiTypeOK, NEW h \in Handlers, NEW from, NEW next, FindBattle(h, from, next),
           NEW t, t = handler'[h]
    PROVE  /\ UNCHANGED pgVars
           /\ \/ t = Idle
              \/ \E b \in battles : /\ b.id = handler[h].b.id /\ next[b] # "idle"
                                    /\ t.at = next[b] /\ t.b = b
BY HandlerControl DEF FindBattle, FindByUUID

LEMMA FoundMember ==
    ASSUME ApiTypeOK, NEW h \in Handlers, NEW from, NEW next, NEW otherwise,
           FindMember(h, from, next, otherwise),
           NEW t, t = handler'[h], NEW s, s = handler[h]
    PROVE  /\ UNCHANGED pgVars
           /\ \/ \E m \in MembersOf(s.b.id) :
                    t.at = next[m] /\ t.m = m /\ t.b = s.b /\ t.student = s.student
              \/ /\ ~ExistsInBattle(s.b.id, s.student)
                 /\ IF otherwise = "idle" THEN t = Idle
                    ELSE t.at = otherwise /\ t.b = s.b /\ t.student = s.student
<1>1. UNCHANGED pgVars
      BY DEF FindMember
<1>2. ASSUME NEW m \in FindByBattleAndStudent(s.b.id, s.student), HoldMember(h, m, next[m])
      PROVE  /\ m \in MembersOf(s.b.id)
             /\ t.at = next[m] /\ t.m = m /\ t.b = s.b /\ t.student = s.student
      BY <1>2, HandlerControl DEF FindByBattleAndStudent
<1>3. ASSUME Goto(h, otherwise)
      PROVE  IF otherwise = "idle" THEN t = Idle
             ELSE t.at = otherwise /\ t.b = s.b /\ t.student = s.student
      BY <1>3, HandlerControl
<1> QED BY <1>1, <1>2, <1>3 DEF FindMember, ExistsInBattle

LEMMA FindReadsExact ==
    ASSUME Settled, NEW h \in Handlers, NEW s, s = handler[h], ExactHandler(s),
           NEW t, t = handler'[h],
           \/ FindWaitingBattle(h) \/ CheckExistsInBattle(h) \/ CountMembers(h)
           \/ LoadAI(h) \/ CountConfirmed(h) \/ ChangeCount(h)
    PROVE  UNCHANGED pgVars /\ ExactHandler(t)'
<1>0. ApiTypeOK
      BY DEF Settled, TypeInv, TypeOK
<1>1. UNCHANGED pgVars
      BY DEF FindWaitingBattle, CheckExistsInBattle, CountMembers, LoadAI, CountConfirmed,
             ChangeCount
<1>2. battles' = battles /\ members' = members
      BY <1>1 DEF pgVars
<1> SUFFICES ExactHandler(t)'
      BY <1>1
<1>3. t = Idle => ExactHandler(t)'
      BY IdleExact
<1>4. ASSUME t.at \in LobbyLabels, t.b \in RowsWith("WAITING")
      PROVE  ExactHandler(t)'
      BY <1>2, <1>4 DEF ExactHandler, LobbyLabels, RowsWith
<1>5. CASE FindWaitingBattle(h)
  <2>1. \A b \in FindWaiting(s.b.type) : HoldBattle(h, b, "existsInBattle") =>
            t.at \in LobbyLabels /\ t.b \in RowsWith("WAITING")
        BY <1>0, HandlerControl DEF FindWaiting, RowsWith, LobbyLabels
  <2>2. Goto(h, "createBattle") => t.at = "createBattle"
        BY <1>0, HandlerControl
  <2>3. t.at = "createBattle" => ExactHandler(t)'
        BY DEF ExactHandler, LobbyLabels
  <2> QED BY <1>4, <1>5, <2>1, <2>2, <2>3 DEF FindWaitingBattle
<1>6. CASE CheckExistsInBattle(h) \/ CountMembers(h) \/ ChangeCount(h)
  <2>1. s.at \in LobbyLabels
        BY <1>6 DEF CheckExistsInBattle, CountMembers, ChangeCount, At, LobbyLabels
  <2>2. s.b \in RowsWith("WAITING")
        BY <2>1 DEF ExactHandler
  <2>3. Respond(h) \/ \E label \in LobbyLabels \cup {"idle"} : Goto(h, label)
        BY <1>6 DEF CheckExistsInBattle, CountMembers, ChangeCount, LobbyLabels
  <2>4. t = Idle \/ (t.at \in LobbyLabels /\ t.b = s.b)
        BY <1>0, <2>3, HandlerControl
  <2> QED BY <1>3, <1>4, <2>2, <2>4
<1>7. CASE LoadAI(h)
  <2>1. s.b \in RowsWith("ON_GOING") /\ s.b.questions # {}
        /\ \A m \in MembersOf(s.b.id) : Untouched(m)
        BY <1>7 DEF LoadAI, At, ExactHandler
  <2>2. PICK ai : ai \subseteq MembersOf(s.b.id) /\ (Respond(h) \/ HoldMembers(h, ai, "saveAI"))
        BY <1>7 DEF LoadAI
  <2>3. CASE t = Idle
        BY <1>3, <2>3
  <2>4. CASE t.at = "saveAI" /\ t.b = s.b /\ t.ms = ai
    <3>1. t.b \in RowsWith("ON_GOING")' /\ t.b.questions # {}
          BY <1>2, <2>1, <2>4 DEF RowsWith
    <3>2. t.ms \subseteq {m \in MembersOf(t.b.id) : Untouched(m)}
          BY <2>1, <2>2, <2>4
    <3>3. t.ms \subseteq {m \in MembersOf(t.b.id) : Untouched(m)}'
          BY <1>2, <3>2 DEF MembersOf, Untouched
    <3> QED BY <2>4, <3>1, <3>3 DEF ExactHandler, LobbyLabels
  <2> QED BY <1>0, <2>2, <2>3, <2>4, HandlerControl
<1>8. CASE CountConfirmed(h)
  <2>1. s.b \in RowsWith("ON_QUEUE")
        BY <1>8 DEF CountConfirmed, At, ExactHandler
  <2>2. s.b \in Open /\ s.b.questions = {} /\ s.b.status # "WAITING"
        BY <2>1 DEF RowsWith, Open, Settled, FitTables, RowFits
  <2>3. Goto(h, "startBattle") \/ Goto(h, "idle")
        BY <1>8 DEF CountConfirmed
  <2>4. t = Idle \/ (t.at = "startBattle" /\ t.b = s.b)
        BY <1>0, <2>3, HandlerControl
  <2>5. CASE t.at = "startBattle" /\ t.b = s.b
    <3>1. t.b \in Open' /\ t.b.questions = {} /\ t.b.status # "WAITING"
          BY <1>2, <2>2, <2>5 DEF Open
    <3> QED BY <2>5, <3>1 DEF ExactHandler, LobbyLabels
  <2> QED BY <1>3, <2>4, <2>5
<1> QED BY <1>5, <1>6, <1>7, <1>8

LEMMA OtherReadsExact ==
    ASSUME Settled, NEW h \in Handlers, NEW s, s = handler[h], ExactHandler(s),
           NEW t, t = handler'[h],
           \/ ConfirmFind(h) \/ ConfirmFindMember(h)
           \/ AnswerFind(h) \/ AnswerFindMember(h)
           \/ LeaveFind(h) \/ LeaveFindMember(h) \/ ChangeFind(h)
    PROVE  UNCHANGED pgVars /\ ExactHandler(t)'
<1>0. ApiTypeOK /\ battles \subseteq Battle /\ \A b \in battles : RowIsTimed(b)
      BY DEF Settled, TypeInv, TypeOK, PgTypeOK, SoundCopies, Sound
<1>1. UNCHANGED pgVars
      BY DEF ConfirmFind, ConfirmFindMember, AnswerFind, AnswerFindMember, LeaveFind,
             LeaveFindMember, ChangeFind, FindBattle, FindMember
<1>2. battles' = battles /\ members' = members
      BY <1>1 DEF pgVars
<1> SUFFICES ExactHandler(t)'
      BY <1>1
<1>3. t = Idle => ExactHandler(t)'
      BY IdleExact
<1>4. ASSUME NEW label, NEW next, \A b \in battles : next[b] # "idle" =>
                                     (t.at = next[b] /\ t.b = b => ExactHandler(t)'),
             FindBattle(h, label, next)
      PROVE  ExactHandler(t)'
      BY <1>0, <1>3, <1>4, FoundBattle
<1>5. CASE ConfirmFind(h)
  <2> DEFINE next == [b \in battles |-> "confirmFindMember"]
  <2>1. FindBattle(h, "confirmFind", next) /\ s.at = "confirmFind"
        BY <1>5 DEF ConfirmFind, FindBattle, At
  <2>2. PICK b : t = Idle \/ (b \in battles /\ b.id = s.b.id /\ t.at = next[b] /\ t.b = b)
        BY <1>0, <2>1, FoundBattle
  <2>3. CASE b \in battles /\ b.id = s.b.id /\ t.at = next[b] /\ t.b = b
    <3>1. t.b \in RowsWith("ON_QUEUE")'
          BY <1>2, <2>1, <2>3 DEF ExactHandler, RowsAre, RowsWith
    <3>2. t.at = "confirmFindMember"
          BY <2>3
    <3> QED BY <3>1, <3>2 DEF ExactHandler, LobbyLabels
  <2> QED BY <1>3, <2>2, <2>3
<1>6. CASE AnswerFind(h)
  <2> DEFINE next == [b \in battles |-> AfterAnswerFind(b)]
  <2>1. ASSUME NEW b \in battles, next[b] # "idle", t.at = next[b], t.b = b
        PROVE  ExactHandler(t)'
    <3>1. t.at = "answerFindMember" /\ b.status = "ON_GOING"
          BY <1>0, <2>1 DEF AfterAnswerFind, Battle, BattleStatus
    <3>2. t.b \in RowsWith("ON_GOING")'
          BY <1>2, <2>1, <3>1 DEF RowsWith
    <3> QED BY <3>1, <3>2 DEF ExactHandler, LobbyLabels
  <2> HIDE DEF next
  <2>2. FindBattle(h, "answerFind", next)
        BY <1>6 DEF AnswerFind, next
  <2> QED BY <1>4, <2>1, <2>2
<1>7. CASE LeaveFind(h)
  <2> DEFINE next == [b \in battles |-> AfterLeaveFind(b)]
  <2>1. ASSUME NEW b \in battles, next[b] # "idle", t.at = next[b], t.b = b
        PROVE  ExactHandler(t)'
    <3>1. b.status # "FINISHED" /\ t.b \in Open'
          BY <1>2, <2>1 DEF AfterLeaveFind, Open
    <3>2. \/ t.at \in {"leaveDeleteMembers", "leaveDelete"}
          \/ t.at = "leaveFindMember" /\ b.status = "ON_GOING" /\ b.type # "AI"
          BY <2>1, <3>1 DEF AfterLeaveFind
    <3>3. b.status = "ON_GOING" /\ b.type # "AI" =>
             t.b \in RowsWith("ON_GOING")' /\ t.b.questions # {}
          BY <1>0, <1>2, <2>1 DEF RowsWith, RowIsTimed
    <3> QED BY <3>1, <3>2, <3>3 DEF ExactHandler, LobbyLabels
  <2> HIDE DEF next
  <2>2. FindBattle(h, "leaveFind", next)
        BY <1>7 DEF LeaveFind, next
  <2> QED BY <1>4, <2>1, <2>2
<1>8. CASE ChangeFind(h)
  <2> DEFINE next == [b \in battles |-> AfterChangeFind(b)]
  <2>1. ASSUME NEW b \in battles, next[b] # "idle", t.at = next[b], t.b = b
        PROVE  ExactHandler(t)'
    <3>1. t.at = "changeCount" /\ b.status = "WAITING"
          BY <2>1 DEF AfterChangeFind
    <3>2. t.b \in RowsWith("WAITING")'
          BY <1>2, <2>1, <3>1 DEF RowsWith
    <3> QED BY <3>1, <3>2 DEF ExactHandler, LobbyLabels
  <2> HIDE DEF next
  <2>2. FindBattle(h, "changeFind", next)
        BY <1>8 DEF ChangeFind, next
  <2> QED BY <1>4, <2>1, <2>2
<1>9. ASSUME NEW from, NEW next, NEW otherwise, FindMember(h, from, next, otherwise),
             otherwise # "idle" =>
                (t.at = otherwise /\ t.b = s.b => ExactHandler(t)'),
             \A m \in MembersOf(s.b.id) :
                 t.at = next[m] /\ t.b = s.b /\ t.m = m => ExactHandler(t)'
      PROVE  ExactHandler(t)'
      BY <1>0, <1>3, <1>9, FoundMember
<1>10. CASE ConfirmFindMember(h)
  <2> DEFINE next == [m \in members |-> "confirmSave"]
  <2>1. s.b \in RowsWith("ON_QUEUE")'
        BY <1>2, <1>10 DEF ConfirmFindMember, FindMember, At, ExactHandler, RowsWith
  <2>2. ASSUME NEW m \in MembersOf(s.b.id), t.at = next[m], t.b = s.b, t.m = m
        PROVE  ExactHandler(t)'
    <3>1. t.at = "confirmSave" /\ t.m \in MembersOf(t.b.id)'
          BY <1>2, <2>2 DEF MembersOf
    <3> QED BY <2>1, <2>2, <3>1 DEF ExactHandler, LobbyLabels
  <2> HIDE DEF next
  <2>3. FindMember(h, "confirmFindMember", next, "idle")
        BY <1>10 DEF ConfirmFindMember, next
  <2> QED BY <1>9, <2>2, <2>3
<1>11. CASE AnswerFindMember(h)
  <2> DEFINE next == [m \in members |-> "answerSave"]
  <2>1. s.b \in RowsWith("ON_GOING")'
        BY <1>2, <1>11 DEF AnswerFindMember, FindMember, At, ExactHandler, RowsWith
  <2>2. ASSUME NEW m \in MembersOf(s.b.id), t.at = next[m], t.b = s.b, t.m = m
        PROVE  ExactHandler(t)'
    <3>1. t.at = "answerSave" /\ t.m \in MembersOf(t.b.id)'
          BY <1>2, <2>2 DEF MembersOf
    <3> QED BY <2>1, <2>2, <3>1 DEF ExactHandler, LobbyLabels
  <2> HIDE DEF next
  <2>3. FindMember(h, "answerFindMember", next, "idle")
        BY <1>11 DEF AnswerFindMember, next
  <2> QED BY <1>9, <2>2, <2>3
<1>12. CASE LeaveFindMember(h)
  <2> DEFINE next == [m \in members |-> AfterLeaveFindMember(m)]
  <2>1. /\ s.b \in RowsWith("ON_GOING")' /\ s.b.questions # {}
        /\ s.b \in Open'
        BY <1>2, <1>12 DEF LeaveFindMember, FindMember, At, ExactHandler, RowsWith, Open
  <2>2. ASSUME NEW m \in MembersOf(s.b.id), t.at = next[m], t.b = s.b, t.m = m
        PROVE  ExactHandler(t)'
    <3>1. t.at \in {"leaveSave", "leaveDelete"} /\ t.m \in MembersOf(t.b.id)'
          BY <1>2, <2>2 DEF MembersOf, AfterLeaveFindMember
    <3> QED BY <2>1, <2>2, <3>1 DEF ExactHandler, LobbyLabels
  <2> HIDE DEF next
  <2>3. FindMember(h, "leaveFindMember", next, "leaveDelete")
        BY <1>12 DEF LeaveFindMember, next
  <2>4. t.at = "leaveDelete" /\ t.b = s.b => ExactHandler(t)'
        BY <2>1 DEF ExactHandler, LobbyLabels
  <2> QED BY <1>9, <2>2, <2>3, <2>4
<1> QED BY <1>5, <1>6, <1>7, <1>8, <1>10, <1>11, <1>12

-----------------------------------------------------------------------------
(* Steps of a handler: new rows *)

\* A row is refused, or it is inserted and the handler goes on.
LEMMA InsertMoves ==
    ASSUME Settled, NEW h \in Handlers, NEW m \in BattleMember, Untouched(m),
           \A b \in battles : b.id = m.battle => b.questions = {},
           NEW next, InsertMember(h, m, next), UNCHANGED <<battles, battleSeq>>
    PROVE  \/ UNCHANGED pgVars /\ Return(h)
           \/ /\ Goto(h, next)
              /\ \E row : /\ Enters(row) /\ row.battle = m.battle
                          /\ row.student = m.student /\ row.status = m.status
<1>1. CASE ~Insertable(m)
      BY <1>1 DEF InsertMember, pgVars
<1>2. CASE Insertable(m)
  <2>1. Goto(h, next) /\ CreateMember(m)
        BY <1>2 DEF InsertMember
  <2>2. PICK row : row = [m EXCEPT !.id = memberSeq + 1]
        OBVIOUS
  <2>3. row.battle = m.battle /\ row.student = m.student /\ row.status = m.status
        BY <2>2 DEF BattleMember
  <2>4. PICK b \in battles : b.id = m.battle /\ b.questions = {}
        BY <1>2 DEF Insertable
  <2>5. TypeInv /\ FitTables
        BY DEF Settled
  <2>6. Enters(row)
        BY <1>2, <2>1, <2>2, <2>4, <2>5, InsertedEnters, Zenon
  <2> QED BY <2>1, <2>3, <2>6
<1> QED BY <1>1, <1>2

LEMMA OpponentMoves ==
    ASSUME Settled, NEW h \in Handlers,
           \A b \in battles : b.id = handler[h].b.id => b.questions = {},
           NEW next, MakeAIOpponent(h, next), UNCHANGED <<battles, battleSeq>>
    PROVE  \/ UNCHANGED pgVars /\ Return(h)
           \/ /\ Goto(h, next)
              /\ \E row : /\ Enters(row) /\ row.battle = handler[h].b.id
                          /\ row.status = "CONFIRMED"
<1> DEFINE b == handler[h].b
<1>1. b \in Battle /\ ApiTypeOK
      BY Locals DEF Settled, TypeInv, TypeOK
<1>2. ASSUME NEW bot \in Bots, InsertMember(h, AIOpponent(b, bot), next)
      PROVE  \/ UNCHANGED pgVars /\ Return(h)
             \/ /\ Goto(h, next)
                /\ \E row : /\ Enters(row) /\ row.battle = b.id
                            /\ row.status = "CONFIRMED"
  <2>1. NewMember(b, bot, "AI") \in BattleMember
        BY <1>1, NewMemberType DEF Students, MemberType
  <2>2. PICK m : m = AIOpponent(b, bot)
        OBVIOUS
  <2>3. m \in BattleMember /\ m.status = "CONFIRMED"
        BY <2>1, <2>2 DEF AIOpponent, BattleMember, MemberStatus
  <2>4. m.battle = b.id
        BY <2>2 DEF AIOpponent, NewMember, NoMember
  <2>5. Untouched(m)
        BY <2>2, NewMemberUntouched, Zenon
  <2>6. InsertMember(h, m, next)
        BY <1>2, <2>2
  <2>7. \A c \in battles : c.id = m.battle => c.questions = {}
        BY <2>4
  <2>8. \/ UNCHANGED pgVars /\ Return(h)
        \/ /\ Goto(h, next)
           /\ \E row : /\ Enters(row) /\ row.battle = m.battle
                       /\ row.student = m.student /\ row.status = m.status
        BY <2>3, <2>5, <2>6, <2>7, InsertMoves, Zenon
  <2> QED BY <2>3, <2>4, <2>8
<1>3. ASSUME Return(h), UNCHANGED <<members, memberSeq>>
      PROVE  UNCHANGED pgVars
      BY <1>3 DEF pgVars
<1> QED BY <1>2, <1>3 DEF MakeAIOpponent

LEMMA ParticipantExact ==
    ASSUME Settled, NEW h \in Handlers, NEW s, s = handler[h], ExactHandler(s),
           NEW t, t = handler'[h], CreateParticipant(h)
    PROVE  /\ \/ UNCHANGED pgVars /\ t = Idle
              \/ /\ \E m : Enters(m) /\ m.battle = s.b.id /\ m.status = "NOT_CONFIRMED"
                 /\ t.at = "saveLevel" /\ t.b = s.b
           /\ ExactHandler(t)'
<1>1. s.b \in Battle /\ ApiTypeOK /\ s.student \in Students \cup {NoStudent}
      BY Locals DEF Settled, TypeInv, TypeOK
<1>2. s.at = "createParticipant" /\ battles' = battles
      BY DEF CreateParticipant, At
<1>3. s.b \in RowsWith("WAITING")
      BY <1>2 DEF ExactHandler, LobbyLabels
<1>4. s.b.type # "AI" /\ \A b \in battles : b.id = s.b.id => b.questions = {}
      BY <1>3 DEF Settled, FitTables, RowFits, RowsWith, SoundCopies, Sound, RowIsTimed
<1>5. PICK m : m = NewMember(s.b, s.student, "PARTICIPANT")
      OBVIOUS
<1>6. m \in BattleMember /\ Untouched(m)
      BY <1>1, <1>5, NewMemberType, NewMemberUntouched, Zenon DEF MemberType
<1>7. m.battle = s.b.id /\ m.status = "NOT_CONFIRMED"
      BY <1>4, <1>5 DEF NewMember, NoMember
<1>8. InsertMember(h, m, "saveLevel") /\ UNCHANGED <<battles, battleSeq>>
      BY <1>5 DEF CreateParticipant
<1>9. \A b \in battles : b.id = m.battle => b.questions = {}
      BY <1>4, <1>7
<1>10. \/ UNCHANGED pgVars /\ Return(h)
       \/ /\ Goto(h, "saveLevel")
          /\ \E row : /\ Enters(row) /\ row.battle = m.battle
                      /\ row.student = m.student /\ row.status = m.status
      BY <1>6, <1>8, <1>9, InsertMoves, Zenon
<1>11. /\ Return(h) => t = Idle
       /\ Goto(h, "saveLevel") => t.at = "saveLevel" /\ t.b = s.b
      BY <1>1, HandlerControl
<1>12. t.at = "saveLevel" /\ t.b = s.b => ExactHandler(t)'
      BY <1>2, <1>3 DEF ExactHandler, LobbyLabels, RowsWith
<1> QED BY <1>7, <1>10, <1>11, <1>12, IdleExact

LEMMA CreatorExact ==
    ASSUME Settled, NEW h \in Handlers, NEW s, s = handler[h], ExactHandler(s),
           NEW t, t = handler'[h], CreateCreator(h)
    PROVE  /\ \/ UNCHANGED pgVars /\ t = Idle
              \/ /\ \E m : /\ Enters(m) /\ m.battle = s.b.id
                           /\ m.status = "CONFIRMED" => s.b.type = "AI"
                 /\ t = Idle \/ (t.at = "findOpponent" /\ t.b = s.b /\ s.b.type = "AI")
           /\ ExactHandler(t)'
<1>1. s.b \in Battle /\ ApiTypeOK /\ s.student \in Students \cup {NoStudent}
      BY Locals DEF Settled, TypeInv, TypeOK
<1>2. s.at = "createCreator" /\ battles' = battles
      BY DEF CreateCreator, At
<1>3. s.b \in Open /\ s.b.questions = {}
      BY <1>2 DEF ExactHandler
<1>4. \A b \in battles : b.id = s.b.id => b.questions = {}
      BY <1>3 DEF Settled, FitTables, Open
<1>5. PICK m : m = NewMember(s.b, s.student, "CREATOR")
      OBVIOUS
<1>6. m \in BattleMember /\ Untouched(m)
      BY <1>1, <1>5, NewMemberType, NewMemberUntouched, Zenon DEF MemberType
<1>7. m.battle = s.b.id /\ (m.status = "CONFIRMED" => s.b.type = "AI")
      BY <1>5 DEF NewMember, NoMember
<1>8. PICK next : /\ next = (IF s.b.type = "AI" THEN "findOpponent" ELSE "idle")
                  /\ InsertMember(h, m, next) /\ UNCHANGED <<battles, battleSeq>>
      BY <1>5 DEF CreateCreator
<1>9. \A b \in battles : b.id = m.battle => b.questions = {}
      BY <1>4, <1>7
<1>10. \/ UNCHANGED pgVars /\ Return(h)
       \/ /\ Goto(h, next)
          /\ \E row : /\ Enters(row) /\ row.battle = m.battle
                      /\ row.student = m.student /\ row.status = m.status
      BY <1>6, <1>8, <1>9, InsertMoves, Zenon
<1>11. /\ Return(h) => t = Idle
       /\ Goto(h, next) =>
             t = Idle \/ (t.at = "findOpponent" /\ t.b = s.b /\ s.b.type = "AI")
      BY <1>1, <1>8, HandlerControl
<1>12. t.at = "findOpponent" /\ t.b = s.b /\ s.b.type = "AI" => ExactHandler(t)'
      BY <1>2, <1>3 DEF ExactHandler, LobbyLabels, Open
<1> QED BY <1>7, <1>10, <1>11, <1>12, IdleExact

LEMMA OpponentExact ==
    ASSUME Settled, NEW h \in Handlers, NEW s, s = handler[h], ExactHandler(s),
           NEW t, t = handler'[h], FindOpponent(h) \/ ChangeOpponent(h)
    PROVE  /\ \/ UNCHANGED pgVars /\ t = Idle
              \/ /\ \E m : Enters(m) /\ m.battle = s.b.id /\ m.status = "CONFIRMED"
                 /\ \/ FindOpponent(h) /\ t.at = "startBattle" /\ t.b = s.b
                    \/ ChangeOpponent(h) /\ t = Idle
           /\ ExactHandler(t)'
<1>1. ApiTypeOK
      BY DEF Settled, TypeInv, TypeOK
<1>2. battles' = battles /\ battleSeq' = battleSeq
      BY DEF FindOpponent, ChangeOpponent
<1>3. CASE FindOpponent(h)
  <2>1. s.b \in Open /\ s.b.questions = {} /\ s.b.type = "AI"
        BY <1>3 DEF FindOpponent, At, ExactHandler
  <2>2. s.b.status # "WAITING"
        BY <2>1 DEF Open, Settled, SoundCopies, Sound, RowIsTimed
  <2>3. \A b \in battles : b.id = s.b.id => b.questions = {}
        BY <2>1 DEF Settled, FitTables, Open
  <2>4. MakeAIOpponent(h, "startBattle")
        BY <1>3 DEF FindOpponent
  <2>5. \/ UNCHANGED pgVars /\ Return(h)
        \/ /\ Goto(h, "startBattle")
           /\ \E row : Enters(row) /\ row.battle = s.b.id /\ row.status = "CONFIRMED"
        BY <1>2, <2>3, <2>4, OpponentMoves
  <2>6. /\ Return(h) => t = Idle
        /\ Goto(h, "startBattle") => t.at = "startBattle" /\ t.b = s.b
        BY <1>1, HandlerControl
  <2>7. t.at = "startBattle" /\ t.b = s.b => ExactHandler(t)'
        BY <1>2, <2>1, <2>2 DEF ExactHandler, LobbyLabels, Open
  <2> QED BY <1>3, <2>5, <2>6, <2>7, IdleExact
<1>4. CASE ChangeOpponent(h)
  <2>1. RowsAre(s.b.id, "ON_QUEUE")
        BY <1>4 DEF ChangeOpponent, At, ExactHandler
  <2>2. \A b \in battles : b.id = s.b.id => b.questions = {}
        BY <2>1 DEF Settled, FitTables, RowFits, RowsAre
  <2>3. MakeAIOpponent(h, "idle")
        BY <1>4 DEF ChangeOpponent
  <2>4. \/ UNCHANGED pgVars /\ Return(h)
        \/ /\ Goto(h, "idle")
           /\ \E row : Enters(row) /\ row.battle = s.b.id /\ row.status = "CONFIRMED"
        BY <1>2, <2>2, <2>3, OpponentMoves
  <2>5. t = Idle
        BY <1>1, <2>4, HandlerControl
  <2> QED BY <1>4, <2>4, <2>5, IdleExact
<1> QED BY <1>3, <1>4

-----------------------------------------------------------------------------
(* Steps of a handler: battles *)

LEMMA CreateExact ==
    ASSUME Settled, NEW h \in Handlers, NEW s, s = handler[h], NEW t, t = handler'[h],
           CreateNewBattle(h)
    PROVE  (\E c : Opens(c)) /\ t.at = "createCreator" /\ ExactHandler(t)'
<1>1. s.b \in Battle /\ ApiTypeOK /\ battleSeq \in Nat
      BY Locals DEF Settled, TypeInv, TypeOK, PgTypeOK
<1>2. Level[s.student] \in Nat
      BY StudentsAssumption DEF Settled, TypeInv, StudentsAtWork, CreateNewBattle, At
<1>3. PICK b : b = NewBattle(s.b.type, s.student)
      OBVIOUS
<1>4. /\ b \in Battle /\ b.questions = {}
      /\ b.status = IF b.type = "AI" THEN "ON_GOING" ELSE "WAITING"
      BY <1>1, <1>2, <1>3 DEF NewBattle, NoBattle, Battle, BattleStatus
<1>5. PICK c : c = NewBattleRow(b)
      OBVIOUS
<1>6. /\ c \in Battle /\ c.id = battleSeq + 1 /\ c.questions = {}
      /\ c.status = IF c.type = "AI" THEN "ON_GOING" ELSE "WAITING"
      BY <1>1, <1>4, <1>5 DEF NewBattleRow, Battle
<1>7. /\ battles' = battles \cup {c} /\ battleSeq' = battleSeq + 1
      /\ UNCHANGED <<members, memberSeq>> /\ HoldBattle(h, c, "createCreator")
      BY <1>3, <1>5 DEF CreateNewBattle, CreateBattle
<1>8. Opens(c)
      BY <1>6, <1>7 DEF Opens
<1>9. t.at = "createCreator" /\ t.b = c
      BY <1>1, <1>7, HandlerControl
<1>10. t.b \in Open'
       BY <1>6, <1>7, <1>9 DEF Open
<1>11. \A r \in battles : r.id # c.id
       BY <1>1, <1>6 DEF Settled, SoundCopies, Sound, Battle, TypeInv, TypeOK, PgTypeOK
<1>12. MembersOf(t.b.id)' = {}
       BY <1>7, <1>9, <1>11 DEF MembersOf, Settled, NoOrphans
<1> QED BY <1>6, <1>8, <1>9, <1>10, <1>12 DEF ExactHandler, LobbyLabels

LEMMA LobbySavesExact ==
    ASSUME Settled, NEW h \in Handlers, NEW s, s = handler[h], ExactHandler(s),
           NEW t, t = handler'[h], LowerLevel(h) \/ SetOnQueue(h) \/ ChangeSave(h)
    PROVE  /\ \/ /\ LowerLevel(h) /\ UNCHANGED pgVars
                 /\ t.at = "countMembers" /\ t.b = s.b
              \/ /\ LowerLevel(h) /\ t.at = "countMembers"
                 /\ Moves(s.b, t.b) /\ t.b.status = "WAITING"
              \/ /\ SetOnQueue(h) /\ t = Idle
                 /\ \E c : Moves(s.b, c) /\ c.status = "ON_QUEUE"
              \/ /\ ChangeSave(h) /\ t.at = "changeOpponent" /\ t.b.id = s.b.id
                 /\ \E c : Moves(s.b, c) /\ c.status = "ON_QUEUE"
           /\ ExactHandler(t)'
<1>1. s.b \in Battle /\ ApiTypeOK /\ TypeInv /\ FitTables
      BY Locals DEF Settled, TypeInv, TypeOK
<1>2. s.at \in LobbyLabels
      BY DEF LowerLevel, SetOnQueue, ChangeSave, At, LobbyLabels
<1>3. s.b \in RowsWith("WAITING") /\ s.b \in battles /\ s.b.status = "WAITING" /\ s.b \in Open
      BY <1>2 DEF ExactHandler, RowsWith, Open
<1>4. UNCHANGED <<members, battleSeq, memberSeq>>
      BY DEF LowerLevel, SetOnQueue, ChangeSave
<1>5. /\ UNCHANGED battles => UNCHANGED pgVars
      /\ \A c : c.id = s.b.id => BattleStored(c)
      BY <1>3, <1>4 DEF pgVars, BattleStored
<1>6. t = Idle => ExactHandler(t)'
      BY IdleExact
<1>7. CASE LowerLevel(h)
  <2>1. Level[s.student] \in Nat
        BY <1>7, StudentsAssumption DEF Settled, TypeInv, StudentsAtWork, LowerLevel, At
  <2>2. PICK c : c = [s.b EXCEPT !.level = Level[s.student]]
        OBVIOUS
  <2>3. c \in Battle /\ c.id = s.b.id /\ c.type = s.b.type
        /\ c.status = s.b.status /\ c.questions = s.b.questions
        BY <1>1, <2>1, <2>2 DEF Battle
  <2>4. \/ UNCHANGED battles /\ Goto(h, "countMembers")
        \/ SaveBattle(c) /\ HoldBattle(h, c, "countMembers")
        BY <1>5, <1>7, <2>2, <2>3 DEF LowerLevel
  <2>5. CASE UNCHANGED battles /\ Goto(h, "countMembers")
    <3>1. t.at = "countMembers" /\ t.b = s.b
          BY <1>1, <2>5, HandlerControl
    <3>2. t.at = "countMembers" /\ t.b = s.b => ExactHandler(t)'
          BY <1>3, <2>5 DEF ExactHandler, LobbyLabels, RowsWith
    <3> QED BY <1>5, <1>7, <2>5, <3>1, <3>2
  <2>6. CASE SaveBattle(c) /\ HoldBattle(h, c, "countMembers")
    <3>1. Moves(s.b, c)
          BY <1>1, <1>3, <1>4, <2>3, <2>6, SavedRowMoves DEF Turn
    <3>2. t.at = "countMembers" /\ t.b = c
          BY <1>1, <2>6, HandlerControl
    <3>3. t.b \in RowsWith("WAITING")'
          BY <1>3, <2>3, <3>1, <3>2 DEF Moves, RowsWith
    <3> QED BY <1>3, <1>7, <2>3, <3>1, <3>2, <3>3 DEF ExactHandler, LobbyLabels
  <2> QED BY <2>4, <2>5, <2>6
<1>8. CASE SetOnQueue(h)
  <2>1. PICK c : c = OnQueue(s.b)
        OBVIOUS
  <2>2. c \in Battle /\ c.id = s.b.id /\ c.type = s.b.type
        /\ c.status = "ON_QUEUE" /\ c.questions = s.b.questions
        BY <1>1, <2>1 DEF OnQueue, Battle, BattleStatus
  <2>3. SaveBattle(c) /\ Respond(h)
        BY <1>5, <1>8, <2>1, <2>2 DEF SetOnQueue
  <2>4. t = Idle
        BY <1>1, <2>3, HandlerControl
  <2>5. SaveBattle(c) => Moves(s.b, c)
        BY <1>1, <1>3, <1>4, <2>2, SavedRowMoves DEF Turn
  <2> QED BY <1>6, <1>8, <2>2, <2>3, <2>4, <2>5
<1>9. CASE ChangeSave(h)
  <2>1. PICK c : c = OnQueue(s.b)
        OBVIOUS
  <2>2. c \in Battle /\ c.id = s.b.id /\ c.type = s.b.type
        /\ c.status = "ON_QUEUE" /\ c.questions = s.b.questions
        BY <1>1, <2>1 DEF OnQueue, Battle, BattleStatus
  <2>3. PICK d : d = [c EXCEPT !.type = "AI"]
        OBVIOUS
  <2>4. d.id = c.id /\ \A r : SavedRow(r, d) = SavedRow(r, c)
        BY <2>2, <2>3 DEF SavedRow, Battle
  <2>5. SaveBattle(d) /\ HoldBattle(h, d, "changeOpponent")
        BY <1>5, <1>9, <2>1, <2>2, <2>3, <2>4 DEF ChangeSave
  <2>6. SaveBattle(d) => SaveBattle(c)
        BY <2>4 DEF SaveBattle
  <2>7. SaveBattle(c) => Moves(s.b, c)
        BY <1>1, <1>3, <1>4, <2>2, SavedRowMoves DEF Turn
  <2>8. Moves(s.b, c) /\ t.at = "changeOpponent" /\ t.b.id = c.id
        BY <1>1, <2>4, <2>5, <2>6, <2>7, HandlerControl
  <2>9. RowsAre(t.b.id, "ON_QUEUE")'
        BY <1>1, <2>2, <2>8 DEF Moves, Open, RowsAre, FitTables
  <2> QED BY <1>9, <2>2, <2>8, <2>9 DEF ExactHandler, LobbyLabels
<1> QED BY <1>7, <1>8, <1>9

LEMMA StartExact ==
    ASSUME Settled, NEW h \in Handlers, NEW s, s = handler[h], ExactHandler(s),
           NEW t, t = handler'[h], StartBattle(h)
    PROVE  /\ \/ UNCHANGED pgVars /\ {} \in QuestionSets
              \/ /\ \E c : Moves(s.b, c) /\ c.status = "ON_GOING" /\ c.questions # {}
                 /\ t.at = "loadAI"
           /\ ExactHandler(t)'
<1>1. s.b \in Battle /\ ApiTypeOK /\ TypeInv /\ FitTables
      BY Locals DEF Settled, TypeInv, TypeOK
<1>2. s.b \in Open /\ s.b.questions = {} /\ s.b.status # "WAITING"
      BY DEF StartBattle, At, ExactHandler
<1>3. UNCHANGED <<members, battleSeq, memberSeq>>
      BY DEF StartBattle
<1>4. PICK qs \in QuestionSets :
         \/ qs = {} /\ UNCHANGED battles /\ Respond(h)
         \/ /\ qs # {} /\ SaveBattle(Started(s.b, qs))
            /\ HoldBattle(h, Started(s.b, qs), "loadAI")
  <2>1. \A qs : Started(s.b, qs).id = s.b.id
        BY <1>1 DEF Started, Battle
  <2>2. \A qs : BattleStored(Started(s.b, qs))
        BY <1>2, <2>1 DEF BattleStored, Open
  <2> QED BY <2>2 DEF StartBattle
<1>5. CASE qs = {} /\ UNCHANGED battles /\ Respond(h)
  <2>1. UNCHANGED pgVars
        BY <1>3, <1>5 DEF pgVars
  <2> QED BY <1>1, <1>5, <2>1, HandlerControl, IdleExact
<1>6. CASE /\ qs # {} /\ SaveBattle(Started(s.b, qs))
           /\ HoldBattle(h, Started(s.b, qs), "loadAI")
  <2>1. PICK c : c = Started(s.b, qs)
        OBVIOUS
  <2>2. c \in Battle /\ c.id = s.b.id /\ c.type = s.b.type
        /\ c.status = "ON_GOING" /\ c.questions = qs
        BY <1>1, <2>1 DEF Started, Battle, BattleStatus, Questions
  <2>3. SaveBattle(c) /\ HoldBattle(h, c, "loadAI")
        BY <1>6, <2>1
  <2>4. Turn(s.b, c)
        BY <1>2, <1>6, <2>2 DEF Turn
  <2>5. Moves(s.b, c)
        BY <1>1, <1>2, <1>3, <2>2, <2>3, <2>4, SavedRowMoves
  <2>6. t.at = "loadAI" /\ t.b = c
        BY <1>1, <2>3, HandlerControl
  <2>7. t.b \in RowsWith("ON_GOING")' /\ t.b.questions # {}
        BY <1>6, <2>2, <2>5, <2>6 DEF Moves, RowsWith
  <2>8. \A m \in MembersOf(s.b.id) : Untouched(m)
        BY <1>1, <1>2 DEF FitTables, RowFits, FitsQuestions, Open
  <2>9. (\A m \in MembersOf(t.b.id) : Untouched(m))'
        BY <1>3, <2>2, <2>6, <2>8 DEF MembersOf, Untouched
  <2> QED BY <1>6, <2>2, <2>5, <2>6, <2>7, <2>9 DEF ExactHandler, LobbyLabels
<1> QED BY <1>4, <1>5, <1>6

-----------------------------------------------------------------------------
(* Steps of a handler: members *)

\* Member m of battle b becomes n, which has what n must have.
LEMMA SavedInBattle ==
    ASSUME Settled, NEW b \in Open, NEW m \in MembersOf(b.id), NEW n \in BattleMember,
           n.id = m.id, n.battle = m.battle, n.student = m.student, n.type = m.type,
           m.isFinished => n.isFinished /\ n.answers = m.answers,
           FitsQuestions(b.questions, n),
           SaveMember(n), UNCHANGED <<battles, battleSeq, memberSeq>>
    PROVE  Writes(m, n)
<1>1. m \in members /\ m.battle = b.id /\ b \in battles
      BY DEF MembersOf, Open
<1>2. \A r \in battles : r.id = m.battle => FitsQuestions(r.questions, n)
      BY <1>1 DEF Settled, FitTables
<1> QED BY <1>1, <1>2, SavedMemberWrites DEF Settled

\* What members of a battle are, between two steps.
LEMMA MembersFit ==
    ASSUME Settled, NEW b \in battles, NEW m \in MembersOf(b.id)
    PROVE  /\ m \in BattleMember /\ m \in members /\ m.battle = b.id
           /\ FitsQuestions(b.questions, m) /\ Single(m) /\ MemberStored(m)
BY DEF Settled, FitTables, RowFits, MembersOf, SingleCopies, AllSingle, TypeInv, TypeOK,
       PgTypeOK, MemberStored

LEMMA FillExact ==
    ASSUME Settled, NEW h \in Handlers, NEW s, s = handler[h], ExactHandler(s),
           NEW t, t = handler'[h], SaveAI(h)
    PROVE  /\ \E m, n : Writes(m, n) /\ m.battle = s.b.id /\ n.status = m.status
           /\ ExactHandler(t)' /\ s.b \in Open
<1>1. s.b \in Battle /\ ApiTypeOK
      BY Locals DEF Settled, TypeInv, TypeOK
<1>2. /\ s.b \in RowsWith("ON_GOING") /\ s.b.questions # {}
      /\ s.ms \subseteq {m \in MembersOf(s.b.id) : Untouched(m)}
      BY DEF SaveAI, At, ExactHandler
<1>3. s.b \in battles /\ s.b \in Open
      BY <1>2 DEF RowsWith, Open
<1>4. PICK m \in s.ms :
         IF MemberStored(m)
           THEN /\ \E filled \in FilledAIMembers(s.b, m) : SaveMember(filled)
                /\ IF s.ms = {m} THEN Respond(h) ELSE HoldMembers(h, s.ms \ {m}, "saveAI")
           ELSE Return(h) /\ UNCHANGED members
      BY DEF SaveAI
<1>5. m \in MembersOf(s.b.id) /\ Untouched(m) /\ m \in BattleMember /\ MemberStored(m)
      BY <1>2, <1>3, MembersFit
<1>6. PICK n \in FilledAIMembers(s.b, m) : SaveMember(n)
      BY <1>4, <1>5
<1>7. n \in BattleMember
      BY <1>1, <1>5, <1>6, FilledAIType
<1>8. /\ n.id = m.id /\ n.battle = m.battle /\ n.student = m.student
      /\ n.type = m.type /\ n.status = m.status /\ Complete(s.b.questions, n)
      BY <1>2, <1>5, FilledAICompletes
<1>9. FitsQuestions(s.b.questions, n) /\ ~m.isFinished
      BY <1>2, <1>5, <1>8 DEF FitsQuestions, Untouched
<1>10. UNCHANGED <<battles, battleSeq, memberSeq>>
       BY DEF SaveAI
<1>11. Writes(m, n)
       BY <1>3, <1>5, <1>6, <1>7, <1>8, <1>9, <1>10, SavedInBattle
<1>12. t = Idle \/ (t.at = "saveAI" /\ t.b = s.b /\ t.ms = s.ms \ {m})
       BY <1>1, <1>4, <1>5, HandlerControl
<1>13. ASSUME t.at = "saveAI" /\ t.b = s.b /\ t.ms = s.ms \ {m}
       PROVE  ExactHandler(t)'
  <2>1. members' = (members \ {m}) \cup {n} /\ battles' = battles
        BY <1>10, <1>11 DEF Writes
  <2>2. t.ms \subseteq {x \in MembersOf(t.b.id) : Untouched(x)}'
        BY <1>2, <1>13, <2>1 DEF MembersOf, Untouched
  <2>3. t.b \in RowsWith("ON_GOING")' /\ t.b.questions # {}
        BY <1>2, <1>13, <2>1 DEF RowsWith
  <2> QED BY <1>13, <2>2, <2>3 DEF ExactHandler, LobbyLabels
<1>14. m.battle = s.b.id
       BY <1>5 DEF MembersOf
<1> QED BY <1>3, <1>8, <1>11, <1>12, <1>13, <1>14, IdleExact

LEMMA ConfirmExact ==
    ASSUME Settled, NEW h \in Handlers, NEW s, s = handler[h], ExactHandler(s),
           NEW t, t = handler'[h], ConfirmSave(h)
    PROVE  /\ \E m, n : Writes(m, n) /\ m.battle = s.b.id /\ n.status = "CONFIRMED"
           /\ ExactHandler(t)' /\ s.b \in RowsWith("ON_QUEUE")
           /\ t.at = "countConfirmed" /\ t.b = s.b
<1>1. s.b \in Battle /\ ApiTypeOK
      BY Locals DEF Settled, TypeInv, TypeOK
<1>2. s.b \in RowsWith("ON_QUEUE") /\ s.m \in MembersOf(s.b.id)
      BY DEF ConfirmSave, At, ExactHandler
<1>3. s.b \in battles /\ s.b \in Open /\ s.b.questions = {}
      BY <1>2 DEF RowsWith, Open, Settled, FitTables, RowFits
<1>4. /\ s.m \in BattleMember /\ MemberStored(s.m)
      /\ FitsQuestions({}, s.m)
      BY <1>2, <1>3, MembersFit
<1>5. PICK n : n = Confirmed(s.m)
      OBVIOUS
<1>6. /\ n \in BattleMember /\ n.id = s.m.id /\ n.battle = s.m.battle
      /\ n.student = s.m.student /\ n.type = s.m.type /\ n.status = "CONFIRMED"
      /\ n.isFinished = s.m.isFinished /\ n.answers = s.m.answers
      /\ n.lastQuestionAt = s.m.lastQuestionAt
      BY <1>4, <1>5 DEF Confirmed, BattleMember, MemberStatus
<1>7. FitsQuestions({}, n)
      BY <1>4, <1>6 DEF FitsQuestions, Untouched, Complete
<1>8. /\ SaveMember(n) /\ HoldMember(h, NoMember, "countConfirmed")
      /\ UNCHANGED <<battles, battleSeq, memberSeq>>
      BY <1>4, <1>5 DEF ConfirmSave
<1>9. Writes(s.m, n)
      BY <1>2, <1>3, <1>6, <1>7, <1>8, SavedInBattle
<1>10. t.at = "countConfirmed" /\ t.b = s.b
       BY <1>1, <1>8, HandlerControl
<1>11. ExactHandler(t)'
       BY <1>2, <1>8, <1>10 DEF ExactHandler, LobbyLabels, RowsWith
<1>12. s.m.battle = s.b.id
       BY <1>2 DEF MembersOf
<1> QED BY <1>2, <1>6, <1>9, <1>10, <1>11, <1>12

LEMMA HeldSaves ==
    ASSUME Settled, NEW h \in Handlers, NEW b \in Open, NEW m \in MembersOf(b.id),
           NEW n \in BattleMember,
           n.id = m.id, n.battle = m.battle, n.student = m.student, n.type = m.type,
           m.isFinished => n.isFinished /\ n.answers = m.answers,
           FitsQuestions(b.questions, n), SaveHeld(h, n)
    PROVE  Writes(m, n) /\ handler'[h] = Idle
<1>1. MemberStored(n)
      BY DEF MemberStored, MembersOf
<1>2. SaveMember(n) /\ Respond(h) /\ UNCHANGED <<battles, battleSeq, memberSeq>>
      BY <1>1 DEF SaveHeld
<1>3. handler'[h] = Idle
      BY <1>2 DEF Respond, Settled, TypeInv, TypeOK, ApiTypeOK
<1> QED BY <1>2, <1>3, SavedInBattle

LEMMA BlanksSaved ==
    ASSUME NEW b \in Battle, b.questions # {}, NEW m \in BattleMember,
           FitsQuestions(b.questions, m), NEW n, n = FillBlanks(b, m)
    PROVE  /\ n \in BattleMember
           /\ n.id = m.id /\ n.battle = m.battle /\ n.student = m.student
           /\ n.type = m.type /\ n.status = m.status
           /\ n.isFinished /\ FitsQuestions(b.questions, n)
           /\ m.isFinished => n.answers = m.answers
<1>1. n \in BattleMember
      BY FillBlanksType
<1>2. /\ n.id = m.id /\ n.battle = m.battle /\ n.student = m.student
      /\ n.type = m.type /\ n.status = m.status /\ n.isFinished = TRUE
      BY DEF FillBlanks, BattleMember
<1>3. Complete(b.questions, m)
      BY DEF FitsQuestions
<1>4. /\ Complete(b.questions, n)
      /\ m.isFinished => n.answers = m.answers
      BY <1>3, BlanksComplete
<1> QED BY <1>1, <1>2, <1>4 DEF FitsQuestions

LEMMA AnswerSaved ==
    ASSUME NEW b \in Battle, NEW m \in BattleMember, Single(m),
           FitsQuestions(b.questions, m),
           NEW q \in Questions, NEW isCorrect \in BOOLEAN, MayProcessAnswer(b, m, q),
           NEW p, p = ProcessAnswer(b, m, q, isCorrect)
    PROVE  /\ p \in BattleMember
           /\ p.id = m.id /\ p.battle = m.battle /\ p.student = m.student
           /\ p.type = m.type /\ p.status = m.status
           /\ ~m.isFinished /\ Complete(b.questions, p) /\ b.questions # {}
<1>1. p \in BattleMember
      BY ProcessAnswerType
<1>2. /\ p.id = m.id /\ p.battle = m.battle /\ p.student = m.student
      /\ p.type = m.type /\ p.status = m.status
      BY DEF ProcessAnswer, BattleMember
<1>3. b.questions # {} /\ Complete(b.questions, m)
      BY DEF FitsQuestions, MayProcessAnswer
<1>4. Complete(b.questions, p)
  <2>1. PICK n : n = [ProcessAnswer(b, m, q, isCorrect) EXCEPT !.lastQuestionAt = TRUE]
        OBVIOUS
  <2>2. Complete(b.questions, m) => Complete(b.questions, n)
        BY <2>1, AnswerCompletes
  <2>3. n = [p EXCEPT !.lastQuestionAt = TRUE]
        BY <2>1
  <2>4. n.answers = p.answers /\ n.isFinished = p.isFinished
        BY <1>1, <2>3 DEF BattleMember
  <2> QED BY <1>3, <2>2, <2>4 DEF Complete, Answered
<1>5. ~m.isFinished
      BY <1>3 DEF Complete, MayProcessAnswer, BattleMember
<1> QED BY <1>1, <1>2, <1>3, <1>4, <1>5

LEMMA LeaveSaves ==
    ASSUME Settled, NEW h \in Handlers, NEW b \in Open, b.questions # {},
           NEW m \in MembersOf(b.id), SaveHeld(h, FillBlanks(b, m))
    PROVE  (\E n : Writes(m, n) /\ n.status = m.status) /\ handler'[h] = Idle
<1>1. PICK n : n = FillBlanks(b, m)
      OBVIOUS
<1>2. b \in Battle /\ m \in BattleMember /\ FitsQuestions(b.questions, m)
      BY MembersFit DEF Open, Settled, TypeInv, TypeOK, PgTypeOK
<1>3. /\ n \in BattleMember
      /\ n.id = m.id /\ n.battle = m.battle /\ n.student = m.student
      /\ n.type = m.type /\ n.status = m.status
      /\ n.isFinished /\ FitsQuestions(b.questions, n)
      /\ m.isFinished => n.answers = m.answers
      BY <1>1, <1>2, BlanksSaved
<1>4. SaveHeld(h, n)
      BY <1>1
<1> QED BY <1>3, <1>4, HeldSaves

LEMMA AnswerSaves ==
    ASSUME Settled, NEW h \in Handlers, NEW b \in Open, NEW m \in MembersOf(b.id),
           NEW q \in Questions, NEW isCorrect \in BOOLEAN, MayProcessAnswer(b, m, q),
           SaveHeld(h, [ProcessAnswer(b, m, q, isCorrect) EXCEPT !.lastQuestionAt = TRUE])
    PROVE  (\E n : Writes(m, n) /\ n.status = m.status) /\ handler'[h] = Idle
<1>1. PICK p : p = ProcessAnswer(b, m, q, isCorrect)
      OBVIOUS
<1>2. b \in Battle /\ m \in BattleMember /\ FitsQuestions(b.questions, m) /\ Single(m)
      BY MembersFit DEF Open, Settled, TypeInv, TypeOK, PgTypeOK
<1>3. /\ p \in BattleMember
      /\ p.id = m.id /\ p.battle = m.battle /\ p.student = m.student
      /\ p.type = m.type /\ p.status = m.status
      /\ ~m.isFinished /\ Complete(b.questions, p) /\ b.questions # {}
      BY <1>1, <1>2, AnswerSaved
<1>4. PICK n : n = [p EXCEPT !.lastQuestionAt = TRUE]
      OBVIOUS
<1>5. /\ n \in BattleMember
      /\ n.id = m.id /\ n.battle = m.battle /\ n.student = m.student
      /\ n.type = m.type /\ n.status = m.status
      /\ n.answers = p.answers /\ n.isFinished = p.isFinished
      BY <1>3, <1>4 DEF BattleMember
<1>6. FitsQuestions(b.questions, n)
      BY <1>3, <1>5 DEF FitsQuestions, Complete, Answered
<1>7. SaveHeld(h, n)
      BY <1>1, <1>4, Zenon
<1> QED BY <1>3, <1>5, <1>6, <1>7, HeldSaves

LEMMA HeldSavesExact ==
    ASSUME Settled, NEW h \in Handlers, NEW s, s = handler[h], ExactHandler(s),
           NEW t, t = handler'[h], AnswerSave(h) \/ LeaveSave(h)
    PROVE  /\ \/ UNCHANGED pgVars
              \/ \E m, n : Writes(m, n) /\ m.battle = s.b.id /\ n.status = m.status
           /\ ExactHandler(t)' /\ s.b \in Open /\ t = Idle
<1>1. ApiTypeOK
      BY DEF Settled, TypeInv, TypeOK
<1>2. s.b \in RowsWith("ON_GOING") /\ s.m \in MembersOf(s.b.id)
      BY DEF AnswerSave, LeaveSave, At, ExactHandler
<1>3. s.b \in Open /\ s.m.battle = s.b.id
      BY <1>2 DEF RowsWith, Open, MembersOf
<1>4. CASE LeaveSave(h)
  <2>1. s.b.questions # {} /\ SaveHeld(h, FillBlanks(s.b, s.m))
        BY <1>4 DEF LeaveSave, At, ExactHandler
  <2> QED BY <1>2, <1>3, <2>1, LeaveSaves, IdleExact
<1>5. CASE AnswerSave(h)
  <2>1. CASE Return(h) /\ UNCHANGED <<pgVars, sqlVars, requests>>
        BY <1>1, <1>3, <2>1, HandlerControl, IdleExact
  <2>2. ASSUME NEW q \in Questions, NEW isCorrect \in BOOLEAN, MayProcessAnswer(s.b, s.m, q),
               SaveHeld(h, [ProcessAnswer(s.b, s.m, q, isCorrect)
                              EXCEPT !.lastQuestionAt = TRUE])
        PROVE  /\ \E m, n : Writes(m, n) /\ m.battle = s.b.id /\ n.status = m.status
               /\ t = Idle
    <3>1. PICK b, m : b = s.b /\ m = s.m
          OBVIOUS
    <3>2. /\ b \in Open /\ m \in MembersOf(b.id) /\ MayProcessAnswer(b, m, q)
          /\ SaveHeld(h, [ProcessAnswer(b, m, q, isCorrect) EXCEPT !.lastQuestionAt = TRUE])
          BY <1>2, <1>3, <2>2, <3>1
    <3>3. (\E n : Writes(m, n) /\ n.status = m.status) /\ handler'[h] = Idle
          BY <3>2, AnswerSaves, Zenon
    <3> QED BY <1>3, <3>1, <3>3
  <2> QED BY <1>3, <1>5, <2>1, <2>2, IdleExact DEF AnswerSave
<1> QED BY <1>4, <1>5

LEMMA DeletesExact ==
    ASSUME Settled, NEW h \in Handlers, NEW s, s = handler[h], ExactHandler(s),
           NEW t, t = handler'[h],
           LeaveDeleteMembers(h) \/ LeaveDeleteBattle(h) \/ LeaveDelete(h)
    PROVE  /\ \/ /\ LeaveDeleteMembers(h) /\ t.at = "leaveDeleteBattle"
                 /\ Removes(s.b, MembersOf(s.b.id))
              \/ LeaveDeleteBattle(h) /\ t = Idle /\ Deletes(s.b)
              \/ /\ LeaveDelete(h) /\ t = Idle
                 /\ Removes(s.b, FindByBattleAndStudent(s.b.id, s.student))
           /\ ExactHandler(t)'
<1>1. ApiTypeOK /\ FitTables
      BY DEF Settled, TypeInv, TypeOK
<1>2. s.b \in Open
      BY DEF LeaveDeleteMembers, LeaveDeleteBattle, LeaveDelete, At, ExactHandler
<1>3. CASE LeaveDeleteMembers(h)
  <2>1. /\ members' = {m \in members : m.battle # s.b.id}
        /\ UNCHANGED <<battles, battleSeq, memberSeq>> /\ Goto(h, "leaveDeleteBattle")
        BY <1>3 DEF LeaveDeleteMembers, DeleteByBattle
  <2>2. Removes(s.b, MembersOf(s.b.id))
        BY <1>2, <2>1 DEF Removes, MembersOf
  <2>3. t.at = "leaveDeleteBattle" /\ t.b = s.b
        BY <1>1, <2>1, HandlerControl
  <2>4. t.b \in Open' /\ MembersOf(t.b.id)' = {}
        BY <1>2, <2>1, <2>3 DEF Open, MembersOf
  <2> QED BY <1>3, <2>2, <2>3, <2>4 DEF ExactHandler, LobbyLabels
<1>4. CASE LeaveDeleteBattle(h)
  <2>1. DeleteBattle(s.b.id) /\ Return(h) /\ UNCHANGED <<battleSeq, memberSeq>>
        BY <1>4 DEF LeaveDeleteBattle
  <2>2. Deletes(s.b)
        BY <1>1, <1>2, <2>1, DeletedRow
  <2>3. t = Idle
        BY <1>1, <2>1, HandlerControl
  <2> QED BY <1>4, <2>2, <2>3, IdleExact
<1>5. CASE LeaveDelete(h)
  <2>1. /\ members' = {m \in members : ~(m.battle = s.b.id /\ m.student = s.student)}
        /\ UNCHANGED <<battles, battleSeq, memberSeq>> /\ Return(h)
        BY <1>5 DEF LeaveDelete, DeleteByBattleAndStudent
  <2>2. Removes(s.b, FindByBattleAndStudent(s.b.id, s.student))
        BY <1>2, <2>1 DEF Removes, FindByBattleAndStudent, MembersOf
  <2>3. t = Idle
        BY <1>1, <2>1, HandlerControl
  <2> QED BY <1>5, <2>2, <2>3, IdleExact
<1> QED BY <1>3, <1>4, <1>5

\* A step of a handler is a move, and leaves its copies exact.
LEMMA HandlerExact ==
    ASSUME Settled, NEW h \in Handlers, ExactHandler(handler[h]), HandlerStep(h)
    PROVE  OpenMove /\ ExactHandler(handler[h])'
<1>1. PICK s : s = handler[h]
      OBVIOUS
<1>2. PICK t : t = handler'[h]
      OBVIOUS
<1>3. ExactHandler(s)
      BY <1>1
<1>4. OpenMove /\ ExactHandler(t)'
  <2>1. CASE \/ FindWaitingBattle(h) \/ CheckExistsInBattle(h) \/ CountMembers(h)
             \/ LoadAI(h) \/ CountConfirmed(h) \/ ChangeCount(h)
        BY <1>1, <1>2, <1>3, <2>1, FindReadsExact DEF OpenMove
  <2>2. CASE \/ ConfirmFind(h) \/ ConfirmFindMember(h)
             \/ AnswerFind(h) \/ AnswerFindMember(h)
             \/ LeaveFind(h) \/ LeaveFindMember(h) \/ ChangeFind(h)
        BY <1>1, <1>2, <1>3, <2>2, OtherReadsExact DEF OpenMove
  <2>3. CASE CreateParticipant(h)
        BY <1>1, <1>2, <1>3, <2>3, ParticipantExact DEF OpenMove
  <2>4. CASE CreateCreator(h)
        BY <1>1, <1>2, <1>3, <2>4, CreatorExact DEF OpenMove
  <2>5. CASE FindOpponent(h) \/ ChangeOpponent(h)
        BY <1>1, <1>2, <1>3, <2>5, OpponentExact DEF OpenMove
  <2>6. CASE CreateNewBattle(h)
        BY <1>1, <1>2, <1>3, <2>6, CreateExact DEF OpenMove
  <2>7. CASE LowerLevel(h) \/ SetOnQueue(h) \/ ChangeSave(h)
    <3>1. \/ UNCHANGED pgVars
          \/ \E c : Moves(s.b, c) /\ c.status # "FINISHED"
          BY <1>1, <1>2, <1>3, <2>7, LobbySavesExact
    <3>2. ExactHandler(t)'
          BY <1>1, <1>2, <1>3, <2>7, LobbySavesExact
    <3> QED BY <3>1, <3>2 DEF OpenMove
  <2>8. CASE StartBattle(h)
        BY <1>1, <1>2, <1>3, <2>8, StartExact DEF OpenMove
  <2>9. CASE SaveAI(h)
        BY <1>1, <1>2, <1>3, <2>9, FillExact DEF OpenMove
  <2>10. CASE ConfirmSave(h)
         BY <1>1, <1>2, <1>3, <2>10, ConfirmExact DEF OpenMove, RowsWith, Open
  <2>11. CASE AnswerSave(h) \/ LeaveSave(h)
         BY <1>1, <1>2, <1>3, <2>11, HeldSavesExact DEF OpenMove
  <2>12. CASE LeaveDeleteMembers(h) \/ LeaveDeleteBattle(h) \/ LeaveDelete(h)
         BY <1>1, <1>2, <1>3, <2>12, DeletesExact DEF OpenMove
  <2> QED BY <2>1, <2>2, <2>3, <2>4, <2>5, <2>6, <2>7, <2>8, <2>9, <2>10, <2>11, <2>12
          DEF HandlerStep
<1> QED BY <1>2, <1>4 DEF ExactHandler

-----------------------------------------------------------------------------
(* Requests *)

\* A request finds its battle as the client saw it, and touches no table.
LEMMA ArrivalExact ==
    ASSUME Settled, Documented, NEW h \in Handlers, Request(h)
    PROVE  UNCHANGED <<pgVars, sqlVars>> /\ ExactHandler(handler[h])'
<1>1. UNCHANGED <<pgVars, sqlVars>>
      BY ArrivalMoves DEF Settled, TypeInv, TypeOK
<1>2. ASSUME NEW kind, NEW s, NEW b, NEW label, Accept(h, kind, s, b, label)
      PROVE  handler'[h].at = label /\ handler'[h].b = b
      BY <1>2 DEF Accept, Idle, Settled, TypeInv, TypeOK, ApiTypeOK
<1>3. ASSUME handler'[h].at \in {"findWaiting", "answerFind", "leaveFind", "changeFind"}
      PROVE  ExactHandler(handler[h])'
      BY <1>3 DEF ExactHandler, LobbyLabels
<1>4. ASSUME NEW s \in Humans, NEW uuid \in 1..battleSeq, ConfirmRequest(h, s, uuid)
      PROVE  ExactHandler(handler[h])'
  <2>1. PICK t : t = handler'[h]
        OBVIOUS
  <2>2. t.at = "confirmFind" /\ t.b = [NoBattle EXCEPT !.id = uuid]
        BY <1>2, <1>4, <2>1 DEF ConfirmRequest, BattleRequest
  <2>3. t.b.id = uuid
        BY <2>2 DEF NoBattle
  <2>4. PICK b \in battles : b.id = uuid /\ b.status = "ON_QUEUE"
        BY <1>4 DEF ConfirmRequest, FindByUUID
  <2>5. \A r \in battles : r.id = uuid => r = b
        BY <2>4 DEF Settled, FitTables
  <2>6. battles' = battles
        BY <1>1 DEF pgVars
  <2>7. RowsAre(t.b.id, "ON_QUEUE")'
        BY <2>3, <2>4, <2>5, <2>6 DEF RowsAre
  <2> QED BY <2>1, <2>2, <2>7 DEF ExactHandler, LobbyLabels
<1> QED BY <1>1, <1>2, <1>3, <1>4
    DEF Request, FindRequest, AnswerRequest, LeaveRequest, ChangeTypeRequest, BattleRequest

-----------------------------------------------------------------------------
(* Steps of the kicker *)

\* The row a table does not have is no row of the queue.
LEMMA NoBattleWaits ==
    /\ NoBattle \notin RowsWith("ON_QUEUE") /\ NoBattle \notin RowsWith("ON_QUEUE")'
BY DEF NoBattle, RowsWith

\* Going on with battles that are still ON_QUEUE.
LEMMA KickNextExact ==
    ASSUME NEW todo, KickNext(todo), todo \subseteq RowsWith("ON_QUEUE")'
    PROVE  ExactKicker(kicker)'
<1>1. /\ kicker'.at \in {"scan", "load"} /\ kicker'.b = NoBattle
      /\ kicker'.todo = todo
      BY DEF KickNext, KickerIdle
<1> QED BY <1>1, NoBattleWaits DEF ExactKicker

LEMMA KickReadsExact ==
    ASSUME Settled, NEW k, k = kicker, ExactKicker(k), NEW l, l = kicker',
           KickScan \/ KickLoad
    PROVE  UNCHANGED pgVars /\ ExactKicker(l)'
<1>1. UNCHANGED pgVars
      BY DEF KickScan, KickLoad
<1>2. battles' = battles /\ members' = members
      BY <1>1 DEF pgVars
<1>3. RowsWith("ON_QUEUE")' = RowsWith("ON_QUEUE")
      BY <1>2 DEF RowsWith
<1>4. CASE KickScan
  <2>1. PICK expired \in SUBSET MayBeExpiredOnQueue : KickNext(expired)
        BY <1>4 DEF KickScan
  <2>2. expired \subseteq RowsWith("ON_QUEUE")
        BY DEF MayBeExpiredOnQueue, RowsWith
  <2> QED BY <1>1, <1>3, <2>1, <2>2, KickNextExact
<1>5. CASE KickLoad
  <2>1. PICK b \in k.todo : \E kicked \in SUBSET MembersOf(b.id) :
           l = [at     |-> IF MembersOf(b.id) \ kicked = {} THEN "deleteMembers"
                           ELSE IF kicked = {} THEN "reset" ELSE "kick",
                todo   |-> k.todo \ {b},
                b      |-> b,
                kicked |-> IF MembersOf(b.id) \ kicked = {} THEN {} ELSE kicked,
                left   |-> MembersOf(b.id) \ kicked]
    <3>1. \A b : KickExpiredMembers(b, MembersOf(b.id)) \subseteq MembersOf(b.id)
          BY DEF KickExpiredMembers
    <3> QED BY <1>5, <3>1 DEF KickLoad
  <2>2. PICK kicked \in SUBSET MembersOf(b.id) :
           l = [at     |-> IF MembersOf(b.id) \ kicked = {} THEN "deleteMembers"
                           ELSE IF kicked = {} THEN "reset" ELSE "kick",
                todo   |-> k.todo \ {b},
                b      |-> b,
                kicked |-> IF MembersOf(b.id) \ kicked = {} THEN {} ELSE kicked,
                left   |-> MembersOf(b.id) \ kicked]
        BY <2>1
  <2>3. b \in RowsWith("ON_QUEUE") /\ k.todo \subseteq RowsWith("ON_QUEUE")
        BY DEF ExactKicker
  <2>4. /\ l.b = b /\ l.todo = k.todo \ {b} /\ l.at \in {"deleteMembers", "reset", "kick"}
        /\ l.at \in {"kick", "reset"} =>
              l.kicked \subseteq MembersOf(b.id) /\ l.left = MembersOf(b.id) \ l.kicked
        /\ l.at = "reset" => l.kicked = {}
        BY <2>2
  <2>5. MembersOf(b.id)' = MembersOf(b.id)
        BY <1>2 DEF MembersOf
  <2> QED BY <1>1, <1>3, <2>3, <2>4, <2>5 DEF ExactKicker
<1> QED BY <1>4, <1>5

LEMMA KickDeletesExact ==
    ASSUME Settled, NEW k, k = kicker, ExactKicker(k), NEW l, l = kicker',
           KickDeleteMembers \/ KickDeleteBattle \/ KickMember
    PROVE  /\ OpenMove /\ ExactKicker(l)'
           /\ \/ l.at = "deleteBattle" /\ Removes(k.b, MembersOf(k.b.id))
              \/ l.at \in {"scan", "load"} /\ Deletes(k.b) /\ MembersOf(k.b.id) = {}
              \/ /\ k.at = "kick" /\ l.at \in {"kick", "reset"} /\ l.b = k.b /\ l.left = k.left
                 /\ \E m \in MembersOf(k.b.id) : Removes(k.b, {m})
<1>1. k.b \in RowsWith("ON_QUEUE") /\ k.b \in Open /\ k.b \in battles
      BY DEF KickDeleteMembers, KickDeleteBattle, KickMember, ExactKicker, RowsWith, Open
<1>2. k \in KickerState
      BY DEF Settled, TypeInv, TypeOK, WorkerTypeOK
<1>3. k.todo \subseteq RowsWith("ON_QUEUE") \ {k.b}
      BY DEF ExactKicker
<1>4. CASE KickDeleteMembers
  <2>1. /\ members' = {m \in members : m.battle # k.b.id}
        /\ UNCHANGED <<battles, battleSeq, memberSeq>>
        BY <1>4 DEF KickDeleteMembers, DeleteByBattle
  <2>2. Removes(k.b, MembersOf(k.b.id))
        BY <1>1, <2>1 DEF Removes, MembersOf
  <2>3. l.at = "deleteBattle" /\ l.b = k.b /\ l.todo = k.todo
        BY <1>2, <1>4 DEF KickDeleteMembers, KickerState
  <2>4. MembersOf(l.b.id)' = {} /\ RowsWith("ON_QUEUE")' = RowsWith("ON_QUEUE")
        BY <2>1, <2>3 DEF MembersOf, RowsWith
  <2>5. ExactKicker(l)'
        BY <1>1, <1>3, <2>3, <2>4 DEF ExactKicker
  <2> QED BY <2>2, <2>3, <2>5 DEF OpenMove
<1>5. CASE KickDeleteBattle
  <2>1. DeleteBattle(k.b.id) /\ KickNext(k.todo) /\ UNCHANGED <<battleSeq, memberSeq>>
        BY <1>5 DEF KickDeleteBattle
  <2>2. Deletes(k.b)
        BY <1>1, <2>1, DeletedRow DEF Settled
  <2>3. k.todo \subseteq RowsWith("ON_QUEUE")'
        BY <1>3, <2>2 DEF Deletes, RowsWith
  <2>4. MembersOf(k.b.id) = {} /\ l.at \in {"scan", "load"}
        BY <1>5, <2>1 DEF KickDeleteBattle, ExactKicker, KickNext, KickerIdle
  <2>5. ExactKicker(kicker)'
        BY <2>1, <2>3, KickNextExact
  <2>6. ExactKicker(l)'
        BY <2>5 DEF ExactKicker
  <2> QED BY <2>2, <2>4, <2>6 DEF OpenMove
<1>6. CASE KickMember
  <2>1. PICK m \in k.kicked : DeleteMember(m) /\ KickedOne(m)
        BY <1>6 DEF KickMember
  <2>2. UNCHANGED <<battles, battleSeq, memberSeq>>
        BY <1>6 DEF KickMember
  <2>3. k.kicked \subseteq MembersOf(k.b.id) /\ k.left = MembersOf(k.b.id) \ k.kicked
        BY <1>6 DEF KickMember, ExactKicker
  <2>4. m \in members /\ m.battle = k.b.id
        BY <2>3 DEF MembersOf
  <2>5. members' = members \ {m}
        BY <2>1, <2>4 DEF DeleteMember, Settled, FitTables
  <2>6. Removes(k.b, {m})
        BY <1>1, <2>2, <2>4, <2>5 DEF Removes, MembersOf
  <2>7. /\ l.b = k.b /\ l.todo = k.todo /\ l.kicked = k.kicked \ {m} /\ l.left = k.left
        /\ l.at = IF k.kicked = {m} THEN "reset" ELSE "kick"
        BY <1>2, <2>1 DEF KickedOne, KickerState
  <2>8. MembersOf(k.b.id)' = MembersOf(k.b.id) \ {m}
        BY <2>4, <2>5 DEF MembersOf
  <2>9. RowsWith("ON_QUEUE")' = RowsWith("ON_QUEUE")
        BY <2>2 DEF RowsWith
  <2>10. ExactKicker(l)'
         BY <1>1, <1>3, <2>3, <2>7, <2>8, <2>9 DEF ExactKicker
  <2>11. m \in MembersOf(k.b.id) /\ k.at = "kick"
         BY <1>6, <2>3 DEF KickMember
  <2> QED BY <2>6, <2>7, <2>10, <2>11 DEF OpenMove
<1> QED BY <1>4, <1>5, <1>6

LEMMA KickResetExact ==
    ASSUME Settled, NEW k, k = kicker, ExactKicker(k), NEW l, l = kicker', KickReset
    PROVE  /\ OpenMove /\ ExactKicker(l)'
           /\ Moves(k.b, l.b) /\ l.b.status = "WAITING" /\ l.at = "unconfirm"
           /\ l.left = k.left
<1>1. /\ k.b \in RowsWith("ON_QUEUE") /\ k.todo \subseteq RowsWith("ON_QUEUE") \ {k.b}
      /\ k.left \subseteq MembersOf(k.b.id)
      BY DEF KickReset, ExactKicker
<1>2. k.b \in battles /\ k.b \in Open /\ k.b \in Battle /\ k \in KickerState
      BY <1>1 DEF RowsWith, Open, Settled, TypeInv, TypeOK, PgTypeOK, WorkerTypeOK
<1>3. PICK c : c = Reset(k.b)
      OBVIOUS
<1>4. /\ c \in Battle /\ c.id = k.b.id /\ c.type = k.b.type /\ c.status = "WAITING"
      /\ c.questions = k.b.questions
      BY <1>2, <1>3 DEF Reset, Battle, BattleStatus
<1>5. BattleStored(c)
      BY <1>2, <1>4 DEF BattleStored
<1>6. /\ SaveBattle(c) /\ kicker' = [kicker EXCEPT !.b = c, !.at = "unconfirm"]
      /\ UNCHANGED <<members, battleSeq, memberSeq>>
      BY <1>3, <1>5 DEF KickReset
<1>7. Turn(k.b, c)
      BY <1>1, <1>4 DEF Turn, RowsWith
<1>8. Moves(k.b, c)
      BY <1>2, <1>4, <1>6, <1>7, SavedRowMoves DEF Settled
<1>9. l.at = "unconfirm" /\ l.b = c /\ l.todo = k.todo /\ l.left = k.left
      BY <1>2, <1>6 DEF KickerState
<1>10. battles' = (battles \ {k.b}) \cup {c} /\ members' = members
       BY <1>8 DEF Moves
<1>11. /\ RowsWith("ON_QUEUE")' = RowsWith("ON_QUEUE") \ {k.b}
       /\ c \in RowsWith("WAITING")' /\ c \notin RowsWith("ON_QUEUE")
       /\ MembersOf(c.id)' = MembersOf(k.b.id)
       BY <1>4, <1>10 DEF RowsWith, MembersOf
<1>12. ExactKicker(l)'
       BY <1>1, <1>9, <1>11 DEF ExactKicker
<1> QED BY <1>4, <1>8, <1>9, <1>12 DEF OpenMove

LEMMA KickUnconfirmExact ==
    ASSUME Settled, NEW k, k = kicker, ExactKicker(k), NEW l, l = kicker', KickUnconfirm
    PROVE  /\ OpenMove /\ ExactKicker(l)'
           /\ \E m \in k.left : \E n :
                 /\ Writes(m, n) /\ n.status = "NOT_CONFIRMED" /\ m.battle = k.b.id
                 /\ \/ k.left = {m} /\ l.at \in {"scan", "load"}
                    \/ l.at = "unconfirm" /\ l.b = k.b /\ l.left = k.left \ {m}
<1>1. /\ k.b \in RowsWith("WAITING") /\ k.left \subseteq MembersOf(k.b.id)
      /\ k.todo \subseteq RowsWith("ON_QUEUE")
      BY DEF KickUnconfirm, ExactKicker
<1>2. k.b \in battles /\ k.b \in Open /\ k.b.questions = {} /\ k \in KickerState
      BY <1>1 DEF RowsWith, Open, Settled, FitTables, RowFits, TypeInv, TypeOK, WorkerTypeOK
<1>3. PICK m \in k.left :
         /\ IF MemberStored(m) THEN SaveMember(Unconfirmed(m)) ELSE UNCHANGED members
         /\ UnconfirmedOne(m)
      BY DEF KickUnconfirm
<1>4. m \in MembersOf(k.b.id)
      BY <1>1
<1>5. m \in BattleMember /\ MemberStored(m) /\ FitsQuestions({}, m)
      BY <1>2, <1>4, MembersFit
<1>6. PICK n : n = Unconfirmed(m)
      OBVIOUS
<1>7. /\ n \in BattleMember /\ n.id = m.id /\ n.battle = m.battle
      /\ n.student = m.student /\ n.type = m.type /\ n.isFinished = m.isFinished
      /\ n.answers = m.answers /\ n.lastQuestionAt = m.lastQuestionAt
      /\ n.status = "NOT_CONFIRMED"
      BY <1>5, <1>6 DEF Unconfirmed, BattleMember, MemberStatus
<1>8. FitsQuestions({}, n)
      BY <1>5, <1>7 DEF FitsQuestions, Untouched, Complete
<1>9. UNCHANGED <<battles, battleSeq, memberSeq>>
      BY DEF KickUnconfirm
<1>10. Writes(m, n)
       BY <1>2, <1>3, <1>4, <1>5, <1>6, <1>7, <1>8, <1>9, SavedInBattle
<1>11. /\ RowsWith("ON_QUEUE")' = RowsWith("ON_QUEUE")
       /\ RowsWith("WAITING")' = RowsWith("WAITING")
       BY <1>9 DEF RowsWith
<1>12. ExactKicker(l)'
  <2>1. CASE k.left = {m}
        BY <1>1, <1>3, <1>11, <2>1, KickNextExact DEF UnconfirmedOne
  <2>2. CASE k.left # {m}
    <3>1. l.at = "unconfirm" /\ l.b = k.b /\ l.todo = k.todo /\ l.left = k.left \ {m}
          BY <1>2, <1>3, <2>2 DEF UnconfirmedOne, KickerState, KickUnconfirm
    <3>2. members' = (members \ {m}) \cup {n}
          BY <1>10 DEF Writes
    <3>3. k.left \ {m} \subseteq MembersOf(k.b.id)'
          BY <1>1, <3>2 DEF MembersOf
    <3>4. k.todo \subseteq RowsWith("ON_QUEUE") \ {k.b}
          BY DEF ExactKicker
    <3> QED BY <1>1, <1>11, <3>1, <3>3, <3>4 DEF ExactKicker
  <2> QED BY <2>1, <2>2
<1>13. m.battle = k.b.id
       BY <1>4 DEF MembersOf
<1>14. \/ k.left = {m} /\ l.at \in {"scan", "load"}
       \/ l.at = "unconfirm" /\ l.b = k.b /\ l.left = k.left \ {m}
  <2>1. CASE k.left = {m}
    <3>1. KickNext(k.todo)
          BY <1>3, <2>1 DEF UnconfirmedOne
    <3>2. l.at \in {"scan", "load"}
          BY <3>1 DEF KickNext, KickerIdle
    <3> QED BY <2>1, <3>2
  <2>2. CASE k.left # {m}
        BY <1>2, <1>3, <2>2 DEF UnconfirmedOne, KickerState, KickUnconfirm
  <2> QED BY <2>1, <2>2
<1>15. OpenMove
       BY <1>2, <1>10, <1>13 DEF OpenMove
<1> QED BY <1>7, <1>10, <1>12, <1>13, <1>14, <1>15

\* A step of the kicker is a move, and leaves its copies exact.
LEMMA KickerExact ==
    ASSUME Settled, ExactKicker(kicker), KickerStep
    PROVE  OpenMove /\ ExactKicker(kicker)'
<1>1. PICK k, l : k = kicker /\ l = kicker'
      OBVIOUS
<1>2. ExactKicker(k)
      BY <1>1
<1>3. OpenMove /\ ExactKicker(l)'
  <2>1. CASE KickScan \/ KickLoad
        BY <1>1, <1>2, <2>1, KickReadsExact DEF OpenMove
  <2>2. CASE KickDeleteMembers \/ KickDeleteBattle \/ KickMember
        BY <1>1, <1>2, <2>2, KickDeletesExact
  <2>3. CASE KickReset
        BY <1>1, <1>2, <2>3, KickResetExact
  <2>4. CASE KickUnconfirm
        BY <1>1, <1>2, <2>4, KickUnconfirmExact
  <2> QED BY <2>1, <2>2, <2>3, <2>4 DEF KickerStep
<1> QED BY <1>1, <1>3 DEF ExactKicker

-----------------------------------------------------------------------------
(* Steps of the ender: up to the end of a battle *)

\* Where the ender is when it ends no battle.
Scanning(e) ==
    e.at \in {"scanExpired", "loadExpired", "dropMembers", "dropBattle", "scanIdle",
              "loadIdle", "saveIdle", "scanFinished", "loadFinished", "saveBattle"}

LEMMA WorkExact ==
    ASSUME NEW pass \in {"Expired", "Idle", "Finished"}, NEW todo, NEW idle,
           Work(pass, todo, idle), todo \subseteq RowsWith("ON_GOING")',
           pass \in {"Expired", "Idle"} => \A b \in todo : b.questions # {}
    PROVE  ExactEnder(ender)' /\ Scanning(ender')
<1>1. PICK f : f = ender'
      OBVIOUS
<1>2. CASE todo = {}
  <2>1. f = [EnderIdle EXCEPT !.at = AfterPass[pass]]
        BY <1>1, <1>2 DEF Work
  <2>2. f.at \in {"scanExpired", "scanIdle", "scanFinished"} /\ f.todo = {}
        BY <2>1 DEF EnderIdle, AfterPass
  <2>3. ExactEnder(f)' /\ Scanning(f)
        BY <2>2 DEF ExactEnder, Scanning, PassOf
  <2> QED BY <1>1, <2>3 DEF ExactEnder
<1>3. CASE todo # {}
  <2>1. f = [EnderIdle EXCEPT !.at = LoadLabel[pass], !.pass = pass,
                              !.todo = todo, !.idle = idle]
        BY <1>1, <1>3 DEF Work
  <2>2. f.at = LoadLabel[pass] /\ f.pass = pass /\ f.todo = todo
        BY <2>1 DEF EnderIdle
  <2>3. /\ f.at \in {"loadExpired", "loadIdle", "loadFinished"}
        /\ PassOf[f.at] = pass
        BY <2>2 DEF LoadLabel, PassOf
  <2>4. ExactEnder(f)' /\ Scanning(f)
        BY <2>2, <2>3 DEF ExactEnder, Scanning
  <2> QED BY <1>1, <2>4 DEF ExactEnder
<1> QED BY <1>2, <1>3

LEMMA ScansExact ==
    ASSUME Settled, ScanExpired \/ ScanIdle \/ ScanFinished
    PROVE  UNCHANGED <<pgVars, sqlVars>> /\ ExactEnder(ender)' /\ Scanning(ender')
<1>1. UNCHANGED <<pgVars, sqlVars>>
      BY DEF ScanExpired, ScanIdle, ScanFinished
<1>2. RowsWith("ON_GOING")' = FindOnGoing
      BY <1>1 DEF RowsWith, FindOnGoing, pgVars
<1>3. CASE ScanExpired
  <2>1. PICK expired \in SUBSET MayBeOnGoingExpired : EndNext("Expired", expired)
        BY <1>3 DEF ScanExpired
  <2>2. expired \subseteq FindOnGoing /\ \A b \in expired : b.questions # {}
        BY DEF MayBeOnGoingExpired
  <2> QED BY <1>1, <1>2, <2>1, <2>2, WorkExact DEF EndNext
<1>4. CASE ScanFinished
  <2>1. EndNext("Finished", FindOnGoingAllMembersFinished)
        BY <1>4 DEF ScanFinished
  <2> QED BY <1>1, <1>2, <2>1, WorkExact DEF EndNext, FindOnGoingAllMembersFinished
<1>5. CASE ScanIdle
  <2>1. PICK idle \in SUBSET {m \in members : \E b \in FindOnGoing :
                                 m.battle = b.id /\ MayBeIdle(b, m)} :
           Work("Idle", {b \in FindOnGoing : \E m \in idle : m.battle = b.id}, idle)
        BY <1>5 DEF ScanIdle
  <2>2. ASSUME NEW b \in FindOnGoing, NEW m \in idle, m.battle = b.id
        PROVE  b.questions # {}
    <3>1. PICK c \in FindOnGoing : m.battle = c.id /\ MayBeIdle(c, m)
          OBVIOUS
    <3>2. b \in battles /\ c = b /\ m \in MembersOf(b.id)
          BY <2>2, <3>1 DEF FindOnGoing, Settled, FitTables, MembersOf
    <3>3. FitsQuestions(b.questions, m)
          BY <3>2, MembersFit
    <3> QED BY <3>1, <3>2, <3>3 DEF MayBeIdle, FitsQuestions, Untouched
  <2> QED BY <1>1, <1>2, <2>1, <2>2, WorkExact
<1> QED BY <1>3, <1>4, <1>5

LEMMA DropsExact ==
    ASSUME Settled, NEW e, e = ender, ExactEnder(e), NEW f, f = ender',
           DropMembers \/ DropBattle
    PROVE  /\ OpenMove /\ ExactEnder(f)' /\ Scanning(f) /\ UNCHANGED sqlVars
           /\ \/ Removes(e.b, MembersOf(e.b.id))
              \/ Deletes(e.b) /\ MembersOf(e.b.id) = {}
<1>1. /\ e.b \in RowsWith("ON_GOING") \ e.todo /\ e.b \in Open /\ e.b \in battles
      /\ e.todo \subseteq RowsWith("ON_GOING")
      BY DEF DropMembers, DropBattle, ExactEnder, RowsWith, Open
<1>2. e \in EnderState /\ UNCHANGED sqlVars
      BY DEF Settled, TypeInv, TypeOK, WorkerTypeOK, DropMembers, DropBattle
<1>3. e.pass \in {"Expired", "Idle"} => \A b \in e.todo : b.questions # {}
      BY DEF ExactEnder
<1>4. CASE DropMembers
  <2>1. /\ members' = {m \in members : m.battle # e.b.id}
        /\ UNCHANGED <<battles, battleSeq, memberSeq>>
        BY <1>4 DEF DropMembers, DeleteByBattle
  <2>2. Removes(e.b, MembersOf(e.b.id))
        BY <1>1, <2>1 DEF Removes, MembersOf
  <2>3. f.at = "dropBattle" /\ f.b = e.b /\ f.todo = e.todo /\ f.pass = e.pass
        BY <1>2, <1>4 DEF DropMembers, EnderState
  <2>4. MembersOf(f.b.id)' = {} /\ RowsWith("ON_GOING")' = RowsWith("ON_GOING")
        BY <2>1, <2>3 DEF MembersOf, RowsWith
  <2>5. ExactEnder(f)'
        BY <1>1, <1>3, <2>3, <2>4 DEF ExactEnder, PassOf
  <2> QED BY <1>2, <2>2, <2>3, <2>5 DEF OpenMove, Scanning
<1>5. CASE DropBattle
  <2>1. /\ DeleteBattle(e.b.id) /\ EndNext(e.pass, e.todo)
        /\ UNCHANGED <<battleSeq, memberSeq>>
        BY <1>5 DEF DropBattle
  <2>2. Deletes(e.b)
        BY <1>1, <2>1, DeletedRow DEF Settled
  <2>3. e.todo \subseteq RowsWith("ON_GOING")'
        BY <1>1, <2>2 DEF Deletes, RowsWith
  <2>4. e.pass \in {"Expired", "Idle", "Finished"}
        BY <1>2 DEF EnderState
  <2>5. ExactEnder(ender)' /\ Scanning(ender')
        BY <1>3, <2>1, <2>3, <2>4, WorkExact DEF EndNext
  <2>6. MembersOf(e.b.id) = {}
        BY <1>5 DEF DropBattle, ExactEnder
  <2> QED BY <1>2, <2>2, <2>5, <2>6 DEF OpenMove, ExactEnder
<1> QED BY <1>4, <1>5


LEMMA SaveIdleExact ==
    ASSUME Settled, NEW e, e = ender, ExactEnder(e), NEW f, f = ender', SaveIdle
    PROVE  /\ OpenMove /\ ExactEnder(f)' /\ Scanning(f) /\ UNCHANGED sqlVars
           /\ \E m, n : Writes(m, n) /\ n.status = m.status
<1>1. /\ e.b \in RowsWith("ON_GOING") \ e.todo /\ e.todo \subseteq RowsWith("ON_GOING")
      /\ e.b.questions # {} /\ e.left \subseteq MembersOf(e.b.id) /\ e.pass = "Idle"
      BY DEF SaveIdle, ExactEnder, PassOf
<1>2. e.b \in battles /\ e.b \in Open /\ e.b \in Battle /\ e \in EnderState
      BY <1>1 DEF RowsWith, Open, Settled, TypeInv, TypeOK, WorkerTypeOK, PgTypeOK
<1>3. PICK m \in e.left :
         /\ IF MemberStored(m) THEN SaveMember(FillBlanks(e.b, m)) ELSE UNCHANGED members
         /\ IF LeftAfter(m) = {} THEN EndNext("Idle", e.todo)
                                 ELSE ender' = [ender EXCEPT !.left = LeftAfter(m)]
      BY DEF SaveIdle
<1>4. m \in MembersOf(e.b.id)
      BY <1>1
<1>5. m \in BattleMember /\ MemberStored(m) /\ FitsQuestions(e.b.questions, m)
      BY <1>2, <1>4, MembersFit
<1>6. PICK n : n = FillBlanks(e.b, m)
      OBVIOUS
<1>7. /\ n \in BattleMember
      /\ n.id = m.id /\ n.battle = m.battle /\ n.student = m.student
      /\ n.type = m.type /\ n.status = m.status
      /\ n.isFinished /\ FitsQuestions(e.b.questions, n)
      /\ m.isFinished => n.answers = m.answers
      BY <1>1, <1>2, <1>5, <1>6, BlanksSaved
<1>8. UNCHANGED <<battles, battleSeq, memberSeq, sqlVars>>
      BY DEF SaveIdle
<1>9. Writes(m, n)
      BY <1>2, <1>3, <1>4, <1>5, <1>6, <1>7, <1>8, SavedInBattle
<1>10. RowsWith("ON_GOING")' = RowsWith("ON_GOING")
       BY <1>8 DEF RowsWith
<1>11. \A b \in e.todo : b.questions # {}
       BY <1>1 DEF ExactEnder
<1>12. ExactEnder(f)' /\ Scanning(f)
  <2>1. CASE LeftAfter(m) = {}
    <3>1. ExactEnder(ender)' /\ Scanning(ender')
          BY <1>1, <1>3, <1>10, <1>11, <2>1, WorkExact DEF EndNext
    <3> QED BY <3>1 DEF ExactEnder
  <2>2. CASE LeftAfter(m) # {}
    <3>1. /\ f.at = "saveIdle" /\ f.b = e.b /\ f.todo = e.todo /\ f.left = e.left \ {m}
          /\ f.pass = "Idle"
          BY <1>1, <1>2, <1>3, <2>2 DEF LeftAfter, EnderState, SaveIdle
    <3>2. members' = (members \ {m}) \cup {n}
          BY <1>9 DEF Writes
    <3>3. e.left \ {m} \subseteq MembersOf(e.b.id)'
          BY <1>1, <3>2 DEF MembersOf
    <3> QED BY <1>1, <1>10, <1>11, <3>1, <3>3 DEF ExactEnder, PassOf, Scanning
  <2> QED BY <2>1, <2>2
<1>13. m.battle = e.b.id
       BY <1>4 DEF MembersOf
<1>14. OpenMove
       BY <1>2, <1>9, <1>13 DEF OpenMove
<1> QED BY <1>7, <1>8, <1>9, <1>12, <1>14

-----------------------------------------------------------------------------
(* Steps of the ender: the end of a battle *)

\* Ranking gives each member a place and keeps the rest of what ends with it.
LEMMA RankedFinal ==
    ASSUME NEW ms \in SUBSET BattleMember, NEW ranked \in RankedMembers(ms),
           \A x, y \in ms : x.id = y.id => x = y
    PROVE  /\ \A n \in ranked : \E m \in ms :
                 /\ n.id = m.id /\ n.battle = m.battle /\ n.student = m.student
                 /\ n.type = m.type /\ n.answers = m.answers
                 /\ n.isFinished = m.isFinished /\ n.place # 0
           /\ \A m \in ms : \E n \in ranked : n.id = m.id
           /\ \A x, y \in ranked : x.id = y.id => x = y
<1>1. PICK place \in Placements(ms) :
        ranked = {[m EXCEPT !.place = place[m],
                            !.points = IF TooManyWrong(m)
                                         THEN 0
                                         ELSE RewardPoints(place[m], Cardinality(ms))] :
                    m \in ms}
      BY Zenon DEF RankedMembers
<1> DEFINE points(m) == IF TooManyWrong(m) THEN 0
                        ELSE RewardPoints(place[m], Cardinality(ms))
           final(m) == [m EXCEPT !.place = place[m], !.points = points(m)]
<1>2. ranked = {final(m) : m \in ms}
      BY <1>1, Zenon
<1>3. \A m \in ms : place[m] # 0
  <2>1. place \in Bijection(ms, 1..Cardinality(ms))
        BY DEF Placements
  <2>2. \A m \in ms : place[m] \in 1..Cardinality(ms)
        BY <2>1 DEF Bijection, Injection
  <2> QED BY <2>2
<1> HIDE DEF points
<1>4. \A m \in ms :
         /\ final(m).id = m.id /\ final(m).battle = m.battle
         /\ final(m).student = m.student /\ final(m).type = m.type
         /\ final(m).answers = m.answers /\ final(m).isFinished = m.isFinished
         /\ final(m).place = place[m]
      BY DEF BattleMember
<1> HIDE DEF final
<1>5. ASSUME NEW n \in ranked
      PROVE  \E m \in ms :
                /\ n.id = m.id /\ n.battle = m.battle /\ n.student = m.student
                /\ n.type = m.type /\ n.answers = m.answers
                /\ n.isFinished = m.isFinished /\ n.place # 0
      BY <1>2, <1>3, <1>4
<1>6. \A m \in ms : \E n \in ranked : n.id = m.id
      BY <1>2, <1>4
<1>7. \A x, y \in ranked : x.id = y.id => x = y
      BY <1>2, <1>4
<1> QED BY <1>5, <1>6, <1>7

\* What the end of battle b makes of its members before it ranks them.
LEMMA FilledFinal ==
    ASSUME Settled, NEW b \in battles, b.questions # {}, NEW fillBlanks,
           fillBlanks \/ \A m \in MembersOf(b.id) : m.isFinished,
           NEW ms, ms = Filled(b, MembersOf(b.id), fillBlanks)
    PROVE  /\ ms \subseteq BattleMember
           /\ \A x, y \in ms : x.id = y.id => x = y
           /\ \A n \in ms : \E m \in MembersOf(b.id) :
                 /\ n.id = m.id /\ n.battle = m.battle /\ n.student = m.student
                 /\ n.type = m.type /\ n.isFinished /\ Complete(b.questions, n)
                 /\ m.isFinished => n.answers = m.answers
           /\ \A m \in MembersOf(b.id) : \E n \in ms : n.id = m.id
<1> DEFINE filled(m) == IF fillBlanks /\ ~m.isFinished THEN FillBlanks(b, m) ELSE m
<1>1. ms = {filled(m) : m \in MembersOf(b.id)}
      BY DEF Filled
<1>2. ASSUME NEW m \in MembersOf(b.id)
      PROVE  /\ filled(m) \in BattleMember
             /\ filled(m).id = m.id /\ filled(m).battle = m.battle
             /\ filled(m).student = m.student /\ filled(m).type = m.type
             /\ filled(m).isFinished /\ Complete(b.questions, filled(m))
             /\ m.isFinished => filled(m).answers = m.answers
  <2>1. b \in Battle /\ m \in BattleMember /\ FitsQuestions(b.questions, m)
        BY MembersFit DEF Settled, TypeInv, TypeOK, PgTypeOK
  <2>2. CASE fillBlanks /\ ~m.isFinished
    <3>1. PICK n : n = FillBlanks(b, m)
          OBVIOUS
    <3>2. /\ n \in BattleMember
          /\ n.id = m.id /\ n.battle = m.battle /\ n.student = m.student
          /\ n.type = m.type /\ n.isFinished /\ FitsQuestions(b.questions, n)
          /\ m.isFinished => n.answers = m.answers
          BY <2>1, <3>1, BlanksSaved
    <3>3. filled(m) = n
          BY <2>2, <3>1
    <3> QED BY <3>2, <3>3 DEF FitsQuestions
  <2>3. CASE ~(fillBlanks /\ ~m.isFinished)
    <3>1. filled(m) = m
          BY <2>3
    <3>2. m.isFinished
          BY <2>3
    <3> QED BY <2>1, <3>1, <3>2 DEF FitsQuestions
  <2> QED BY <2>2, <2>3
<1> HIDE DEF filled
<1>3. \A x, y \in MembersOf(b.id) : x.id = y.id => x = y
      BY DEF Settled, FitTables, MembersOf
<1>4. ms \subseteq BattleMember
      BY <1>1, <1>2
<1>5. \A x, y \in ms : x.id = y.id => x = y
      BY <1>1, <1>2, <1>3
<1>6. ASSUME NEW n \in ms
      PROVE  \E m \in MembersOf(b.id) :
                 /\ n.id = m.id /\ n.battle = m.battle /\ n.student = m.student
                 /\ n.type = m.type /\ n.isFinished /\ Complete(b.questions, n)
                 /\ m.isFinished => n.answers = m.answers
      BY <1>1, <1>2
<1>7. \A m \in MembersOf(b.id) : \E n \in ms : n.id = m.id
      BY <1>1, <1>2
<1> QED BY <1>4, <1>5, <1>6, <1>7

LEMMA ExecuteExact ==
    ASSUME Settled, NEW e, e = ender, ExactEnder(e), NEW f, f = ender',
           NEW b \in e.todo, b.questions # {}, NEW fillBlanks,
           fillBlanks \/ \A m \in MembersOf(b.id) : m.isFinished,
           Execute(b, MembersOf(b.id), fillBlanks), UNCHANGED pgVars
    PROVE  ExactEnder(f)' /\ Scanning(f)
<1>1. /\ e.todo \subseteq RowsWith("ON_GOING")
      /\ b \in RowsWith("ON_GOING") /\ b \in battles /\ b \in Battle
      BY DEF ExactEnder, RowsWith, Settled, TypeInv, TypeOK, PgTypeOK
<1>2. PICK ms : ms = Filled(b, MembersOf(b.id), fillBlanks)
      OBVIOUS
<1>3. /\ ms \subseteq BattleMember
      /\ \A x, y \in ms : x.id = y.id => x = y
      /\ \A n \in ms : \E m \in MembersOf(b.id) :
            /\ n.id = m.id /\ n.battle = m.battle /\ n.student = m.student
            /\ n.type = m.type /\ n.isFinished /\ Complete(b.questions, n)
            /\ m.isFinished => n.answers = m.answers
      /\ \A m \in MembersOf(b.id) : \E n \in ms : n.id = m.id
      BY <1>1, <1>2, FilledFinal
<1>4. PICK ranked \in RankedMembers(ms) :
         ender' = [ender EXCEPT !.at = "saveBattle", !.todo = @ \ {b},
                                !.b = Finished(b), !.ms = ranked, !.left = ranked]
      BY <1>2 DEF Execute
<1>5. /\ f.at = "saveBattle" /\ f.todo = e.todo \ {b} /\ f.b = Finished(b)
      /\ f.ms = ranked /\ f.left = ranked /\ f.pass = e.pass
      BY <1>4 DEF EnderState, Settled, TypeInv, TypeOK, WorkerTypeOK
<1>6. /\ \A n \in ranked : \E m \in ms :
            /\ n.id = m.id /\ n.battle = m.battle /\ n.student = m.student
            /\ n.type = m.type /\ n.answers = m.answers
            /\ n.isFinished = m.isFinished /\ n.place # 0
      /\ \A m \in ms : \E n \in ranked : n.id = m.id
      /\ \A x, y \in ranked : x.id = y.id => x = y
      BY <1>3, RankedFinal
<1>7. PICK c : c = Finished(b)
      OBVIOUS
<1>8. c.id = b.id /\ c.questions = b.questions
      BY <1>1, <1>7 DEF Finished, Battle
<1>9. \A x, y : /\ Complete(b.questions, y) /\ x.answers = y.answers
                /\ x.isFinished = y.isFinished
                => Complete(b.questions, x)
      BY DEF Complete, Answered
<1>10. ASSUME NEW n \in ranked
       PROVE  \E m \in MembersOf(b.id) : FinalOf(m, n, b.questions)
       BY <1>3, <1>6, <1>9 DEF FinalOf
<1>11. FinalMembers(ranked, c)
  <2>1. \A m \in MembersOf(b.id) : \E n \in ranked : n.id = m.id
        BY <1>3, <1>6
  <2> QED BY <1>6, <1>8, <1>10, <2>1 DEF FinalMembers
<1>12. battles' = battles /\ members' = members
       BY DEF pgVars
<1>13. FinalMembers(f.ms, f.b)'
       BY <1>5, <1>7, <1>11, <1>12 DEF FinalMembers, MembersOf
<1>14. RowsWith("ON_GOING")' = RowsWith("ON_GOING")
       BY <1>12 DEF RowsWith
<1>15. f.pass \in {"Expired", "Idle"} => \A d \in f.todo : d.questions # {}
       BY <1>5 DEF ExactEnder
<1>16. f.b.questions # {} /\ \E r \in RowsWith("ON_GOING")' \ f.todo : f.b = Finished(r)
       BY <1>1, <1>5, <1>7, <1>8, <1>14
<1> QED BY <1>1, <1>5, <1>13, <1>14, <1>15, <1>16 DEF ExactEnder, Scanning, PassOf

LEMMA LoadsExact ==
    ASSUME Settled, NEW e, e = ender, ExactEnder(e), NEW f, f = ender',
           LoadExpired \/ LoadIdle \/ LoadFinished
    PROVE  UNCHANGED <<pgVars, sqlVars>> /\ ExactEnder(f)' /\ Scanning(f)
<1>1. UNCHANGED <<pgVars, sqlVars>>
      BY DEF LoadExpired, LoadIdle, LoadFinished
<1>2. RowsWith("ON_GOING")' = RowsWith("ON_GOING") /\ members' = members
      BY <1>1 DEF RowsWith, pgVars
<1>3. /\ e.todo \subseteq RowsWith("ON_GOING") /\ e \in EnderState
      /\ e.pass \in {"Expired", "Idle"} => \A b \in e.todo : b.questions # {}
      BY DEF ExactEnder, Settled, TypeInv, TypeOK, WorkerTypeOK
<1>4. CASE LoadExpired
  <2>1. PICK b \in e.todo :
           IF ShouldDeleteAIBattle(b, MembersOf(b.id))
             THEN ender' = [ender EXCEPT !.at = "dropMembers", !.todo = @ \ {b}, !.b = b]
             ELSE Execute(b, MembersOf(b.id), TRUE)
        BY <1>4 DEF LoadExpired
  <2>2. b.questions # {}
    <3>1. e.at = "loadExpired"
          BY <1>4 DEF LoadExpired
    <3>2. e.pass = "Expired"
          BY <3>1 DEF ExactEnder, PassOf
    <3> QED BY <1>3, <3>2
  <2>3. CASE Execute(b, MembersOf(b.id), TRUE)
        BY <1>1, <2>2, <2>3, ExecuteExact
  <2>4. CASE ender' = [ender EXCEPT !.at = "dropMembers", !.todo = @ \ {b}, !.b = b]
    <3>1. f.at = "dropMembers" /\ f.todo = e.todo \ {b} /\ f.b = b /\ f.pass = e.pass
          BY <1>3, <2>4 DEF EnderState
    <3> QED BY <1>1, <1>2, <1>3, <3>1 DEF ExactEnder, Scanning, PassOf
  <2> QED BY <2>1, <2>3, <2>4
<1>5. CASE LoadIdle
  <2>1. PICK b \in e.todo :
           IF IdleMembers(MembersOf(b.id)) = {}
             THEN EndNext("Idle", e.todo \ {b})
             ELSE ender' = [ender EXCEPT !.at = "saveIdle", !.todo = @ \ {b},
                                         !.b = b, !.left = IdleMembers(MembersOf(b.id))]
        BY <1>5 DEF LoadIdle
  <2>2. e.pass = "Idle" /\ \A d \in e.todo : d.questions # {}
    <3>1. e.at = "loadIdle"
          BY <1>5 DEF LoadIdle
    <3>2. e.pass = "Idle"
          BY <3>1 DEF ExactEnder, PassOf
    <3> QED BY <1>3, <3>2
  <2>3. CASE EndNext("Idle", e.todo \ {b})
    <3>1. ExactEnder(ender)' /\ Scanning(ender')
          BY <1>2, <1>3, <2>2, <2>3, WorkExact DEF EndNext, ExactEnder
    <3> QED BY <1>1, <3>1 DEF ExactEnder
  <2>4. CASE ender' = [ender EXCEPT !.at = "saveIdle", !.todo = @ \ {b},
                                    !.b = b, !.left = IdleMembers(MembersOf(b.id))]
    <3>1. /\ f.at = "saveIdle" /\ f.todo = e.todo \ {b} /\ f.b = b /\ f.pass = "Idle"
          /\ f.left = IdleMembers(MembersOf(b.id))
          BY <1>3, <2>2, <2>4 DEF EnderState
    <3>2. f.left \subseteq MembersOf(b.id)'
          BY <1>2, <3>1 DEF IdleMembers, MembersOf
    <3> QED BY <1>1, <1>2, <1>3, <2>2, <3>1, <3>2 DEF ExactEnder, Scanning, PassOf
  <2> QED BY <2>1, <2>3, <2>4
<1>6. CASE LoadFinished
  <2>1. PICK b \in e.todo :
           IF AllMembersFinished(MembersOf(b.id))
             THEN Execute(b, MembersOf(b.id), FALSE)
             ELSE EndNext("Finished", e.todo \ {b})
        BY <1>6 DEF LoadFinished
  <2>2. CASE AllMembersFinished(MembersOf(b.id)) /\ Execute(b, MembersOf(b.id), FALSE)
    <3>1. PICK m \in MembersOf(b.id) : m.isFinished
          BY <2>2 DEF AllMembersFinished
    <3>2. b.questions # {}
          BY <1>3, <3>1, MembersFit DEF FitsQuestions, Untouched, RowsWith
    <3> QED BY <1>1, <2>2, <3>2, ExecuteExact DEF AllMembersFinished
  <2>3. CASE EndNext("Finished", e.todo \ {b})
    <3>1. ExactEnder(ender)' /\ Scanning(ender')
          BY <1>2, <1>3, <2>3, WorkExact DEF EndNext
    <3> QED BY <1>1, <3>1 DEF ExactEnder
  <2> QED BY <2>1, <2>2, <2>3
<1> QED BY <1>4, <1>5, <1>6

-----------------------------------------------------------------------------
(* Steps of the ender: the writes *)

\* A step within battle id, which is being ended: the other battles keep their
\* rows, their members and their results.
LEMMA EndingResults ==
    ASSUME FitResults, NEW id, BeingEnded(id)', \A j : BeingEnded(j) => j = id,
           (\A x \in sqlBattles : \E r \in battles : r.id = x /\ r.status = "FINISHED")',
           (\A x \in sqlMembers : x.battle \in sqlBattles)',
           \A r \in battles' : r.id # id => r \in battles,
           \A m \in members' : m.battle # id => m \in members,
           \A x \in sqlMembers' : x.battle # id => x \in sqlMembers
    PROVE  FitResults'
<1>1. FinishedBattlesAreRanked'
  <2> SUFFICES ASSUME NEW r \in battles', r.status = "FINISHED", ~BeingEnded(r.id)',
                      NEW m \in MembersOf(r.id)'
               PROVE  m.isFinished /\ m.place # 0
      BY DEF FinishedBattlesAreRanked
  <2>1. r.id # id
        OBVIOUS
  <2>2. r \in battles /\ m \in MembersOf(r.id)
        BY <2>1 DEF MembersOf
  <2>3. ~BeingEnded(r.id)
        BY <2>1
  <2> QED BY <2>2, <2>3 DEF FitResults, FinishedBattlesAreRanked
<1>2. StoredResultsAgree'
  <2> SUFFICES ASSUME NEW m \in members', ~BeingEnded(m.battle)', NEW x \in sqlMembers',
                      x.battle = m.battle, x.student = m.student
               PROVE  x.place = m.place /\ x.points = m.points /\ x.answers = m.answers
      BY DEF StoredResultsAgree
  <2>1. m.battle # id
        OBVIOUS
  <2>2. m \in members /\ x \in sqlMembers /\ ~BeingEnded(m.battle)
        BY <2>1
  <2> QED BY <2>2 DEF FitResults, StoredResultsAgree
<1> QED BY <1>1, <1>2 DEF FitResults

\* A step after which battle id, FINISHED with the results ms, is being ended no more.
LEMMA EndedResults ==
    ASSUME FitResults, NEW id, \A j : BeingEnded(j) => j = id,
           (\A x \in sqlBattles : \E r \in battles : r.id = x /\ r.status = "FINISHED")',
           (\A x \in sqlMembers : x.battle \in sqlBattles)',
           battles' = battles, members' = members,
           \A m \in MembersOf(id) : m.isFinished /\ m.place # 0,
           \A m \in MembersOf(id) : \A x \in sqlMembers' :
              x.battle = id /\ x.student = m.student =>
                 x.place = m.place /\ x.points = m.points /\ x.answers = m.answers,
           \A x \in sqlMembers' : x.battle # id => x \in sqlMembers
    PROVE  FitResults'
<1>1. FinishedBattlesAreRanked'
  <2> SUFFICES ASSUME NEW r \in battles, r.status = "FINISHED", NEW m \in MembersOf(r.id)
               PROVE  m.isFinished /\ m.place # 0
      BY DEF FinishedBattlesAreRanked, MembersOf
  <2>1. CASE r.id = id
        BY <2>1
  <2>2. CASE r.id # id
        BY <2>2 DEF FitResults, FinishedBattlesAreRanked
  <2> QED BY <2>1, <2>2
<1>2. StoredResultsAgree'
  <2> SUFFICES ASSUME NEW m \in members, NEW x \in sqlMembers',
                      x.battle = m.battle, x.student = m.student
               PROVE  x.place = m.place /\ x.points = m.points /\ x.answers = m.answers
      BY DEF StoredResultsAgree
  <2>1. CASE m.battle = id
        BY <2>1 DEF MembersOf
  <2>2. CASE m.battle # id
        BY <2>2 DEF FitResults, StoredResultsAgree
  <2> QED BY <2>1, <2>2
<1> QED BY <1>1, <1>2 DEF FitResults

LEMMA SavePgBattleExact ==
    ASSUME Settled, FitResults, NEW e, e = ender, ExactEnder(e), NEW f, f = ender',
           SavePgBattle
    PROVE  /\ \E b, c : Moves(b, c) /\ c.status = "FINISHED"
           /\ UNCHANGED sqlVars /\ ExactEnder(f)' /\ FitResults'
<1>1. /\ e.at = "saveBattle" /\ e.b.questions # {} /\ e.left = e.ms
      /\ FinalMembers(e.ms, e.b) /\ e.todo \subseteq RowsWith("ON_GOING")
      BY DEF SavePgBattle, ExactEnder
<1>2. PICK r \in RowsWith("ON_GOING") \ e.todo : e.b = Finished(r)
      BY <1>1 DEF ExactEnder
<1>3. r \in battles /\ r \in Open /\ r.status = "ON_GOING" /\ r \in Battle /\ e \in EnderState
      BY <1>2 DEF RowsWith, Open, Settled, TypeInv, TypeOK, PgTypeOK, WorkerTypeOK
<1>4. PICK c : c = e.b
      OBVIOUS
<1>5. /\ c \in Battle /\ c.id = r.id /\ c.type = r.type /\ c.status = "FINISHED"
      /\ c.questions = r.questions
      BY <1>2, <1>3, <1>4 DEF Finished, Battle, BattleStatus
<1>6. BattleStored(c)
      BY <1>3, <1>5 DEF BattleStored
<1>7. /\ SaveBattle(c) /\ UNCHANGED <<members, battleSeq, memberSeq, sqlVars>>
      /\ ender' = [ender EXCEPT !.at = IF e.ms = {} THEN "sqlBattle" ELSE "saveMembers"]
      BY <1>4, <1>6 DEF SavePgBattle
<1>8. Turn(r, c)
      BY <1>1, <1>3, <1>4, <1>5 DEF Turn
<1>9. Moves(r, c)
      BY <1>3, <1>5, <1>7, <1>8, SavedRowMoves DEF Settled
<1>10. battles' = (battles \ {r}) \cup {c} /\ members' = members
       BY <1>9 DEF Moves
<1>11. sqlBattles' = sqlBattles /\ sqlMembers' = sqlMembers
       BY <1>7 DEF sqlVars
<1>12. /\ f.at = IF e.ms = {} THEN "sqlBattle" ELSE "saveMembers"
       /\ f.b = c /\ f.ms = e.ms /\ f.left = e.ms /\ f.todo = e.todo /\ f.pass = e.pass
       BY <1>1, <1>3, <1>4, <1>7 DEF EnderState
<1>13. c.id \notin sqlBattles
  <2>1. \A d \in battles : d.id = c.id => d = r
        BY <1>3, <1>5 DEF Settled, FitTables
  <2> QED BY <1>3, <2>1 DEF FitResults
<1>14. /\ RowsWith("ON_GOING")' = RowsWith("ON_GOING") \ {r} /\ c \in RowsWith("FINISHED")'
       /\ MembersOf(c.id)' = MembersOf(c.id)
       BY <1>3, <1>5, <1>10 DEF RowsWith, MembersOf
<1>15. ExactEnder(f)'
  <2>1. FinalMembers(f.ms, f.b)'
        BY <1>1, <1>4, <1>10, <1>12 DEF FinalMembers, MembersOf
  <2>2. f.ms = {} => MembersOf(c.id)' = {}
        BY <1>1, <1>4, <1>12, <1>14 DEF FinalMembers
  <2>3. f.todo \subseteq RowsWith("ON_GOING")'
        BY <1>1, <1>2, <1>12, <1>14
  <2>4. f.pass \in {"Expired", "Idle"} => \A b \in f.todo : b.questions # {}
        BY <1>12 DEF ExactEnder
  <2>5. f.b.id \notin sqlBattles'
        BY <1>11, <1>12, <1>13
  <2> QED BY <1>12, <1>14, <2>1, <2>2, <2>3, <2>4, <2>5 DEF ExactEnder, PassOf
<1>16. FitResults'
  <2>1. BeingEnded(c.id)' /\ \A j : ~BeingEnded(j)
        BY <1>1, <1>12 DEF BeingEnded
  <2>2. (\A x \in sqlBattles : \E d \in battles : d.id = x /\ d.status = "FINISHED")'
        BY <1>3, <1>10, <1>11 DEF FitResults
  <2>3. (\A x \in sqlMembers : x.battle \in sqlBattles)'
        BY <1>11 DEF FitResults
  <2>4. \A d \in battles' : d.id # c.id => d \in battles
        BY <1>10
  <2> QED BY <1>10, <1>11, <2>1, <2>2, <2>3, <2>4, EndingResults
<1> QED BY <1>5, <1>7, <1>9, <1>15, <1>16

LEMMA SavePgMemberExact ==
    ASSUME Settled, FitResults, NEW e, e = ender, ExactEnder(e), NEW f, f = ender',
           SavePgMember
    PROVE  /\ \E m, n : Writes(m, n) /\ m.battle = e.b.id /\ e.b \in RowsWith("FINISHED")
           /\ UNCHANGED sqlVars /\ ExactEnder(f)' /\ FitResults'
<1>1. /\ e.at = "saveMembers" /\ e.todo \subseteq RowsWith("ON_GOING")
      /\ FinalMembers(e.ms, e.b) /\ e.b \in RowsWith("FINISHED")
      /\ e.left \subseteq e.ms /\ e.ms \ e.left \subseteq members /\ e.b.id \notin sqlBattles
      BY DEF SavePgMember, ExactEnder
<1>2. /\ e \in EnderState /\ e.b \in battles /\ e.b.status = "FINISHED"
      /\ e.b.questions # {} /\ e.ms \subseteq BattleMember
      BY <1>1, WorkerLocals DEF RowsWith, Settled, TypeInv, TypeOK, WorkerTypeOK, FitTables,
                                RowFits
<1>3. PICK n \in e.left :
         IF MemberStored(n) THEN SaveMember(n) /\ EndedOne(n, "sqlBattle")
                            ELSE GiveUp /\ UNCHANGED members
      BY DEF SavePgMember
<1>4. n \in e.ms /\ n \in BattleMember
      BY <1>1, <1>2
<1>5. PICK m \in MembersOf(e.b.id) : FinalOf(m, n, e.b.questions)
      BY <1>1, <1>4 DEF FinalMembers
<1>6. /\ m \in members /\ m.battle = e.b.id /\ n.id = m.id /\ n.battle = m.battle
      /\ n.student = m.student /\ n.type = m.type /\ n.isFinished /\ n.place # 0
      /\ Complete(e.b.questions, n)
      /\ m.isFinished => n.answers = m.answers
      BY <1>5 DEF MembersOf, FinalOf
<1>7. MemberStored(n)
      BY <1>6 DEF MemberStored
<1>8. /\ SaveMember(n) /\ EndedOne(n, "sqlBattle")
      /\ UNCHANGED <<battles, battleSeq, memberSeq, sqlVars>>
      BY <1>3, <1>7 DEF SavePgMember
<1>9. \A r \in battles : r.id = m.battle => FitsQuestions(r.questions, n)
  <2>1. \A r \in battles : r.id = m.battle => r = e.b
        BY <1>2, <1>6 DEF Settled, FitTables
  <2>2. FitsQuestions(e.b.questions, n)
        BY <1>2, <1>6 DEF FitsQuestions
  <2> QED BY <2>1, <2>2
<1>10. Writes(m, n)
       BY <1>4, <1>6, <1>8, <1>9, SavedMemberWrites DEF Settled
<1>11. members' = (members \ {m}) \cup {n}
       BY <1>10 DEF Writes
<1>12. \A x, y \in members : x.id = y.id => x = y
       BY DEF Settled, FitTables
<1>13. \A x, y \in e.ms : x.id = y.id => x = y
       BY <1>1 DEF FinalMembers
<1>14. battles' = battles /\ sqlBattles' = sqlBattles /\ sqlMembers' = sqlMembers
       BY <1>8 DEF sqlVars
<1>15. FinalMembers(e.ms, e.b)'
  <2>1. ASSUME NEW x \in e.ms
        PROVE  \E y \in MembersOf(e.b.id)' : FinalOf(y, x, e.b.questions)
    <3>1. PICK y \in MembersOf(e.b.id) : FinalOf(y, x, e.b.questions)
          BY <1>1 DEF FinalMembers
    <3>2. CASE y = m
      <4>1. x = n
            BY <1>4, <1>6, <1>13, <3>1, <3>2 DEF FinalOf
      <4>2. n \in MembersOf(e.b.id)' /\ FinalOf(n, n, e.b.questions)
            BY <1>6, <1>11 DEF MembersOf, FinalOf
      <4> QED BY <4>1, <4>2
    <3>3. CASE y # m
          BY <1>11, <3>1, <3>3 DEF MembersOf
    <3> QED BY <3>2, <3>3
  <2>2. ASSUME NEW y \in MembersOf(e.b.id)'
        PROVE  \E x \in e.ms : x.id = y.id
    <3>1. y = n \/ y \in MembersOf(e.b.id)
          BY <1>11 DEF MembersOf
    <3> QED BY <1>1, <1>4, <3>1 DEF FinalMembers
  <2> QED BY <1>13, <2>1, <2>2 DEF FinalMembers
<1>16. e.ms \ (e.left \ {n}) \subseteq members'
  <2>1. ASSUME NEW x \in e.ms \ e.left
        PROVE  x \in members'
    <3>1. x \in members /\ x # n
          BY <1>1
    <3>2. x # m
          BY <1>4, <1>6, <1>13, <3>1
    <3> QED BY <1>11, <3>1, <3>2
  <2> QED BY <1>11, <2>1
<1>17. RowsWith("ON_GOING")' = RowsWith("ON_GOING") /\ RowsWith("FINISHED")' = RowsWith("FINISHED")
       BY <1>14 DEF RowsWith
<1>18. e.pass \in {"Expired", "Idle"} => \A b \in e.todo : b.questions # {}
       BY DEF ExactEnder
<1>19. /\ f.at \in {"saveMembers", "sqlBattle"} /\ f.b = e.b /\ f.ms = e.ms
       /\ f.todo = e.todo /\ f.pass = e.pass
       /\ f.at = "saveMembers" => f.left = e.left \ {n}
       /\ f.at = "sqlBattle" => f.left = e.ms /\ e.left \ {n} = {}
       BY <1>1, <1>2, <1>8 DEF EndedOne, LeftAfter, EnderState
<1>20. f.at = "sqlBattle" =>
          MembersOf(e.b.id)' = e.ms /\ \A x \in e.ms : x.isFinished /\ x.place # 0
  <2> SUFFICES ASSUME f.at = "sqlBattle"
               PROVE  MembersOf(e.b.id)' = e.ms /\ \A x \in e.ms : x.isFinished /\ x.place # 0
      OBVIOUS
  <2>1. e.ms \subseteq members'
        BY <1>16, <1>19
  <2>2. \A x \in e.ms : x.battle = e.b.id /\ x.isFinished /\ x.place # 0
        BY <1>1 DEF FinalMembers, FinalOf, MembersOf
  <2>3. \A x, y \in members' : x.id = y.id => x = y
        BY <1>6, <1>11, <1>12
  <2>4. ASSUME NEW y \in MembersOf(e.b.id)'
        PROVE  y \in e.ms
    <3>1. PICK x \in e.ms : x.id = y.id
          BY <1>15 DEF FinalMembers
    <3> QED BY <2>1, <2>3, <3>1 DEF MembersOf
  <2> QED BY <2>1, <2>2, <2>4 DEF MembersOf
<1>21. ExactEnder(f)'
  <2>1. FinalMembers(f.ms, f.b)'
        BY <1>15, <1>19 DEF FinalMembers
  <2>2. f.at = "sqlBattle" =>
           MembersOf(f.b.id)' = f.ms /\ \A x \in f.ms : x.isFinished /\ x.place # 0
        BY <1>19, <1>20 DEF MembersOf
  <2>3. f.at = "saveMembers" => f.left \subseteq f.ms /\ f.ms \ f.left \subseteq members'
        BY <1>1, <1>16, <1>19
  <2>4. f.b \in RowsWith("FINISHED")' /\ f.b.id \notin sqlBattles'
        BY <1>1, <1>14, <1>17, <1>19
  <2>5. f.todo \subseteq RowsWith("ON_GOING")'
        BY <1>1, <1>17, <1>19
  <2> QED BY <1>18, <1>19, <2>1, <2>2, <2>3, <2>4, <2>5 DEF ExactEnder, PassOf
<1>22. FitResults'
  <2>1. BeingEnded(e.b.id)' /\ \A j : BeingEnded(j) => j = e.b.id
        BY <1>19 DEF BeingEnded
  <2>2. \A y \in members' : y.battle # e.b.id => y \in members
        BY <1>6, <1>11
  <2>3. (\A x \in sqlBattles : \E d \in battles : d.id = x /\ d.status = "FINISHED")'
        BY <1>14 DEF FitResults
  <2>4. (\A x \in sqlMembers : x.battle \in sqlBattles)'
        BY <1>14 DEF FitResults
  <2> QED BY <1>14, <2>1, <2>2, <2>3, <2>4, EndingResults
<1> QED BY <1>1, <1>6, <1>8, <1>10, <1>21, <1>22

LEMMA SaveSqlBattleExact ==
    ASSUME Settled, FitResults, NEW e, e = ender, ExactEnder(e), NEW f, f = ender',
           SaveSqlBattle
    PROVE  UNCHANGED <<pgVars, sqlMembers>> /\ ExactEnder(f)' /\ FitResults'
<1>1. /\ e.at = "sqlBattle" /\ e.todo \subseteq RowsWith("ON_GOING")
      /\ e.b \in RowsWith("FINISHED") /\ e.b.id \notin sqlBattles
      /\ MembersOf(e.b.id) = e.ms /\ e.left = e.ms
      /\ \A m \in e.ms : m.isFinished /\ m.place # 0
      BY DEF SaveSqlBattle, ExactEnder
<1>2. /\ e \in EnderState /\ e.b \in battles /\ e.b.status = "FINISHED"
      /\ e.pass \in {"Expired", "Idle", "Finished"}
      BY <1>1, WorkerLocals DEF RowsWith, Settled, TypeInv, TypeOK, WorkerTypeOK
<1>3. /\ sqlBattles' = sqlBattles \cup {e.b.id} /\ sqlMembers' = sqlMembers
      /\ UNCHANGED pgVars
      BY DEF SaveSqlBattle, SqlSaveBattle
<1>4. battles' = battles /\ members' = members
      BY <1>3 DEF pgVars
<1>5. \A x \in sqlMembers : x.battle # e.b.id
      BY <1>1 DEF FitResults
<1>6. RowsWith("ON_GOING")' = RowsWith("ON_GOING") /\ RowsWith("FINISHED")' = RowsWith("FINISHED")
      BY <1>4 DEF RowsWith
<1>7. /\ (\A x \in sqlBattles : \E d \in battles : d.id = x /\ d.status = "FINISHED")'
      /\ (\A x \in sqlMembers : x.battle \in sqlBattles)'
  <2>1. \A x \in sqlBattles' : \E d \in battles : d.id = x /\ d.status = "FINISHED"
        BY <1>2, <1>3 DEF FitResults
  <2>2. \A x \in sqlMembers : x.battle \in sqlBattles'
        BY <1>3 DEF FitResults
  <2> QED BY <1>3, <1>4, <2>1, <2>2
<1>8. \A j : BeingEnded(j) => j = e.b.id
      BY DEF BeingEnded
<1>9. e.pass \in {"Expired", "Idle"} => \A b \in e.todo : b.questions # {}
      BY DEF ExactEnder
<1>10. CASE e.ms = {}
  <2>1. EndNext(e.pass, e.todo)
        BY <1>10 DEF SaveSqlBattle, GiveUp
  <2>2. ExactEnder(ender)' /\ Scanning(ender')
        BY <1>1, <1>2, <1>6, <1>9, <2>1, WorkExact DEF EndNext
  <2>3. ExactEnder(f)'
        BY <2>2 DEF ExactEnder
  <2>4. FitResults'
        BY <1>1, <1>3, <1>4, <1>7, <1>8, <1>10, EndedResults
  <2> QED BY <1>3, <2>3, <2>4
<1>11. CASE e.ms # {}
  <2>1. ender' = [ender EXCEPT !.at = "sqlMembers"]
        BY <1>11 DEF SaveSqlBattle
  <2>2. /\ f.at = "sqlMembers" /\ f.b = e.b /\ f.ms = e.ms /\ f.left = e.ms
        /\ f.todo = e.todo /\ f.pass = e.pass
        BY <1>1, <1>2, <2>1 DEF EnderState
  <2>3. MembersOf(f.b.id)' = f.ms /\ \A m \in f.ms : m.isFinished /\ m.place # 0
        BY <1>1, <1>4, <2>2 DEF MembersOf
  <2>4. StoredOf(f.b, f.ms \ f.left)'
        BY <1>3, <1>5, <2>2 DEF StoredOf
  <2>5. ExactEnder(f)'
        BY <1>1, <1>3, <1>6, <1>9, <2>2, <2>3, <2>4 DEF ExactEnder, PassOf
  <2>6. BeingEnded(e.b.id)'
        BY <2>2 DEF BeingEnded
  <2>7. FitResults'
        BY <1>3, <1>4, <1>7, <1>8, <2>6, EndingResults
  <2> QED BY <1>3, <2>5, <2>7
<1> QED BY <1>10, <1>11

LEMMA SaveSqlMemberExact ==
    ASSUME Settled, FitResults, NEW e, e = ender, ExactEnder(e), NEW f, f = ender',
           SaveSqlMember
    PROVE  /\ UNCHANGED pgVars /\ ExactEnder(f)' /\ FitResults'
           /\ e.b \in RowsWith("FINISHED")
           /\ \E m \in MembersOf(e.b.id) :
                 sqlMembers' = {x \in sqlMembers :
                                   ~(x.battle = e.b.id /\ x.student = m.student)}
                               \cup {SqlRow(e.b, m)}
<1>1. /\ e.at = "sqlMembers" /\ e.todo \subseteq RowsWith("ON_GOING")
      /\ e.b \in RowsWith("FINISHED") /\ e.b.id \in sqlBattles
      /\ MembersOf(e.b.id) = e.ms /\ e.left \subseteq e.ms
      /\ StoredOf(e.b, e.ms \ e.left)
      /\ \A m \in e.ms : m.isFinished /\ m.place # 0
      BY DEF SaveSqlMember, ExactEnder
<1>2. e \in EnderState
      BY DEF Settled, TypeInv, TypeOK, WorkerTypeOK
<1>3. PICK m \in e.left : SqlUpdateMember(e.b, m) /\ EndedOne(m, "sqlStats")
      BY DEF SaveSqlMember
<1>4. UNCHANGED pgVars /\ sqlBattles' = sqlBattles
      BY DEF SaveSqlMember
<1>5. battles' = battles /\ members' = members
      BY <1>4 DEF pgVars
<1>6. sqlMembers' = {x \in sqlMembers : ~(x.battle = e.b.id /\ x.student = m.student)}
                    \cup {SqlRow(e.b, m)}
      BY <1>1, <1>3 DEF SqlUpdateMember
<1>7. SqlRow(e.b, m).battle = e.b.id
      BY DEF SqlRow
<1>8. StoredOf(e.b, e.ms \ (e.left \ {m}))'
      BY <1>1, <1>6 DEF StoredOf
<1>9. RowsWith("ON_GOING")' = RowsWith("ON_GOING") /\ RowsWith("FINISHED")' = RowsWith("FINISHED")
      BY <1>5 DEF RowsWith
<1>10. /\ f.at \in {"sqlMembers", "sqlStats"} /\ f.b = e.b /\ f.ms = e.ms
       /\ f.todo = e.todo /\ f.pass = e.pass
       /\ f.at = "sqlMembers" => f.left = e.left \ {m}
       /\ f.at = "sqlStats" => f.left = e.ms /\ e.left \ {m} = {}
       BY <1>1, <1>2, <1>3 DEF EndedOne, LeftAfter, EnderState
<1>11. ExactEnder(f)'
  <2>1. MembersOf(f.b.id)' = f.ms /\ \A n \in f.ms : n.isFinished /\ n.place # 0
        BY <1>1, <1>5, <1>10 DEF MembersOf
  <2>2. f.at = "sqlMembers" => StoredOf(f.b, f.ms \ f.left)'
        BY <1>8, <1>10 DEF StoredOf
  <2>3. f.at = "sqlStats" => StoredOf(f.b, f.ms)'
        BY <1>8, <1>10 DEF StoredOf
  <2>4. f.left \subseteq f.ms
        BY <1>1, <1>10
  <2>5. f.pass \in {"Expired", "Idle"} => \A b \in f.todo : b.questions # {}
        BY <1>10 DEF ExactEnder
  <2> QED BY <1>1, <1>4, <1>9, <1>10, <2>1, <2>2, <2>3, <2>4, <2>5 DEF ExactEnder, PassOf
<1>12. FitResults'
  <2>1. BeingEnded(e.b.id)' /\ \A j : BeingEnded(j) => j = e.b.id
        BY <1>10 DEF BeingEnded
  <2>2. (\A x \in sqlBattles : \E d \in battles : d.id = x /\ d.status = "FINISHED")'
        BY <1>4, <1>5 DEF FitResults
  <2>3. \A x \in sqlMembers' : x.battle # e.b.id => x \in sqlMembers
        BY <1>6, <1>7
  <2>4. (\A x \in sqlMembers : x.battle \in sqlBattles)'
        BY <1>1, <1>4, <2>3 DEF FitResults
  <2> QED BY <1>5, <2>1, <2>2, <2>3, <2>4, EndingResults
<1>13. m \in MembersOf(e.b.id)
       BY <1>1
<1> QED BY <1>1, <1>4, <1>6, <1>11, <1>12, <1>13

LEMMA UpsertStatsExact ==
    ASSUME Settled, FitResults, NEW e, e = ender, ExactEnder(e), NEW f, f = ender',
           UpsertStats
    PROVE  UNCHANGED <<pgVars, sqlMembers>> /\ ExactEnder(f)' /\ FitResults'
<1>1. /\ e.at = "sqlStats" /\ e.todo \subseteq RowsWith("ON_GOING")
      /\ e.b \in RowsWith("FINISHED") /\ e.b.id \in sqlBattles
      /\ MembersOf(e.b.id) = e.ms /\ e.left \subseteq e.ms /\ StoredOf(e.b, e.ms)
      /\ \A m \in e.ms : m.isFinished /\ m.place # 0
      BY DEF UpsertStats, ExactEnder
<1>2. e \in EnderState /\ e.pass \in {"Expired", "Idle", "Finished"}
      BY WorkerLocals DEF Settled, TypeInv, TypeOK, WorkerTypeOK
<1>3. PICK m \in e.left :
         IF LeftAfter(m) = {} THEN GiveUp ELSE ender' = [ender EXCEPT !.left = LeftAfter(m)]
      BY DEF UpsertStats
<1>4. UNCHANGED pgVars /\ sqlBattles' = sqlBattles /\ sqlMembers' = sqlMembers
      BY DEF UpsertStats
<1>5. battles' = battles /\ members' = members
      BY <1>4 DEF pgVars
<1>6. RowsWith("ON_GOING")' = RowsWith("ON_GOING") /\ RowsWith("FINISHED")' = RowsWith("FINISHED")
      BY <1>5 DEF RowsWith
<1>7. e.pass \in {"Expired", "Idle"} => \A b \in e.todo : b.questions # {}
      BY DEF ExactEnder
<1>8. /\ (\A x \in sqlBattles : \E d \in battles : d.id = x /\ d.status = "FINISHED")'
      /\ (\A x \in sqlMembers : x.battle \in sqlBattles)'
      BY <1>4, <1>5 DEF FitResults
<1>9. \A j : BeingEnded(j) => j = e.b.id
      BY DEF BeingEnded
<1>10. CASE LeftAfter(m) = {}
  <2>1. EndNext(e.pass, e.todo)
        BY <1>3, <1>10 DEF GiveUp
  <2>2. ExactEnder(ender)' /\ Scanning(ender')
        BY <1>1, <1>2, <1>6, <1>7, <2>1, WorkExact DEF EndNext
  <2>3. ExactEnder(f)'
        BY <2>2 DEF ExactEnder
  <2>4. ASSUME NEW n \in MembersOf(e.b.id), NEW x \in sqlMembers,
               x.battle = e.b.id, x.student = n.student
        PROVE  x.place = n.place /\ x.points = n.points /\ x.answers = n.answers
    <3>1. PICK o \in e.ms : x = SqlRow(e.b, o)
          BY <1>1, <2>4 DEF StoredOf
    <3>2. /\ x.student = o.student /\ x.place = o.place /\ x.points = o.points
          /\ x.answers = o.answers
          BY <3>1 DEF SqlRow
    <3>3. o = n
          BY <1>1, <2>4, <3>2 DEF Settled, UniqueMembership, MembersOf
    <3> QED BY <3>2, <3>3
  <2>5. FitResults'
        BY <1>1, <1>4, <1>5, <1>8, <1>9, <2>4, EndedResults
  <2> QED BY <1>4, <2>3, <2>5
<1>11. CASE LeftAfter(m) # {}
  <2>1. /\ f.at = "sqlStats" /\ f.b = e.b /\ f.ms = e.ms /\ f.left = e.left \ {m}
        /\ f.todo = e.todo /\ f.pass = e.pass
        BY <1>1, <1>2, <1>3, <1>11 DEF LeftAfter, EnderState
  <2>2. MembersOf(f.b.id)' = f.ms /\ StoredOf(f.b, f.ms)'
        BY <1>1, <1>4, <1>5, <2>1 DEF MembersOf, StoredOf
  <2>3. ExactEnder(f)'
        BY <1>1, <1>4, <1>6, <1>7, <2>1, <2>2 DEF ExactEnder, PassOf
  <2>4. BeingEnded(e.b.id)'
        BY <2>1 DEF BeingEnded
  <2>5. FitResults'
        BY <1>4, <1>5, <1>8, <1>9, <2>4, EndingResults
  <2> QED BY <1>4, <2>3, <2>5
<1> QED BY <1>10, <1>11

\* While no battle is being ended, a move leaves the results what they were.
LEMMA ScanningResults ==
    ASSUME Settled, FitResults, OpenMove, UNCHANGED sqlVars,
           Scanning(ender), Scanning(ender')
    PROVE  FitResults'
<1>1. FinishedKept
      BY OpenMoveKeeps DEF Settled
<1>2. (\A id : ~BeingEnded(id)) /\ (\A id : ~BeingEnded(id)')
      BY DEF Scanning, BeingEnded
<1> QED BY <1>1, <1>2, KeptResults

\* A step of the ender is a move, finishes a battle, or writes a result; it leaves
\* its copies exact.
LEMMA EnderExact ==
    ASSUME Settled, FitResults, ExactEnder(ender), EnderStep
    PROVE  /\ OpenMove \/ (\E b, c : Moves(b, c)) \/ (\E m, n : Writes(m, n))
           /\ ExactEnder(ender)' /\ FitResults'
<1>1. PICK e, f : e = ender /\ f = ender'
      OBVIOUS
<1>2. ExactEnder(e)
      BY <1>1
<1>3. ASSUME ExactEnder(f)'
      PROVE  ExactEnder(ender)'
      BY <1>1, <1>3 DEF ExactEnder
<1>4. ASSUME OpenMove, UNCHANGED sqlVars, Scanning(ender), Scanning(f), ExactEnder(f)'
      PROVE  /\ OpenMove \/ (\E b, c : Moves(b, c)) \/ (\E m, n : Writes(m, n))
             /\ ExactEnder(ender)' /\ FitResults'
      BY <1>1, <1>3, <1>4, ScanningResults
<1>5. CASE ScanExpired \/ ScanIdle \/ ScanFinished
  <2>1. Scanning(ender)
        BY <1>5 DEF ScanExpired, ScanIdle, ScanFinished, PassBegins, Scanning
  <2>2. UNCHANGED <<pgVars, sqlVars>> /\ ExactEnder(ender)' /\ Scanning(ender')
        BY <1>5, ScansExact
  <2>3. ExactEnder(f)' /\ OpenMove
        BY <1>1, <2>2 DEF ExactEnder, OpenMove
  <2> QED BY <1>1, <1>4, <2>1, <2>2, <2>3
<1>6. CASE LoadExpired \/ LoadIdle \/ LoadFinished
  <2>1. Scanning(ender)
        BY <1>6 DEF LoadExpired, LoadIdle, LoadFinished, Scanning
  <2>2. UNCHANGED <<pgVars, sqlVars>> /\ ExactEnder(f)' /\ Scanning(f)
        BY <1>1, <1>2, <1>6, LoadsExact
  <2> QED BY <1>4, <2>1, <2>2 DEF OpenMove
<1>7. CASE DropMembers \/ DropBattle
  <2>1. Scanning(ender)
        BY <1>7 DEF DropMembers, DropBattle, Scanning
  <2>2. OpenMove /\ ExactEnder(f)' /\ Scanning(f) /\ UNCHANGED sqlVars
        BY <1>1, <1>2, <1>7, DropsExact
  <2> QED BY <1>4, <2>1, <2>2
<1>8. CASE SaveIdle
  <2>1. Scanning(ender)
        BY <1>8 DEF SaveIdle, Scanning
  <2>2. OpenMove /\ ExactEnder(f)' /\ Scanning(f) /\ UNCHANGED sqlVars
        BY <1>1, <1>2, <1>8, SaveIdleExact
  <2> QED BY <1>4, <2>1, <2>2
<1>9. CASE SavePgBattle
      BY <1>1, <1>2, <1>3, <1>9, SavePgBattleExact
<1>10. CASE SavePgMember
      BY <1>1, <1>2, <1>3, <1>10, SavePgMemberExact
<1>11. CASE SaveSqlBattle
      BY <1>1, <1>2, <1>3, <1>11, SaveSqlBattleExact DEF OpenMove
<1>12. CASE SaveSqlMember
      BY <1>1, <1>2, <1>3, <1>12, SaveSqlMemberExact DEF OpenMove
<1>13. CASE UpsertStats
      BY <1>1, <1>2, <1>3, <1>13, UpsertStatsExact DEF OpenMove
<1> QED BY <1>5, <1>6, <1>7, <1>8, <1>9, <1>10, <1>11, <1>12, <1>13 DEF EnderStep

-----------------------------------------------------------------------------
(* Every step *)

LEMMA IdleCopiesExact ==
    /\ ExactKicker(KickerIdle)' /\ ExactEnder(EnderIdle)'
    /\ Scanning(EnderIdle)
    /\ \A s : s.at = "idle" => ExactHandler(s)'
<1>1. ExactKicker(KickerIdle)'
      BY NoBattleWaits DEF ExactKicker, KickerIdle
<1>2. ExactEnder(EnderIdle)' /\ Scanning(EnderIdle)
      BY DEF ExactEnder, EnderIdle, Scanning, PassOf
<1>3. \A s : s.at = "idle" => ExactHandler(s)'
      BY DEF ExactHandler, LobbyLabels
<1> QED BY <1>1, <1>2, <1>3

\* A step is one of the moves of the tables.
SomeMove == OpenMove \/ (\E b, c : Moves(b, c)) \/ (\E m, n : Writes(m, n))

LEMMA ApiStepExact ==
    ASSUME Documented, Exclusive, Settled, Alone, SerialInv,
           NEW h \in Handlers, Arrive(h) \/ Handle(h)
    PROVE  OpenMove /\ FitResults' /\ ExactCopies'
<1>1. /\ \A g \in Handlers \ {h} : At(g, "idle") /\ handler'[g] = handler[g]
      /\ kicker = KickerIdle /\ ender = EnderIdle
  <2>1. CASE Arrive(h)
    <3>1. Quiet
          BY <2>1 DEF Arrive, MayBegin
    <3> QED BY <2>1, <3>1, ArrivalMoves DEF Arrive, Quiet, Settled, TypeInv, TypeOK
  <2>2. CASE Handle(h)
    <3>1. ~At(h, "idle") /\ \A g \in Handlers \ {h} : handler'[g] = handler[g]
          BY <2>2, HandlerMoves DEF Handle, Settled
    <3> QED BY <3>1 DEF Alone
  <2> QED BY <2>1, <2>2
<1>2. kicker' = KickerIdle /\ ender' = EnderIdle
      BY <1>1 DEF Arrive, Handle, workerVars
<1>3. OpenMove /\ ExactHandler(handler[h])' /\ UNCHANGED sqlVars
  <2>1. CASE Arrive(h)
        BY <2>1, ArrivalExact DEF Arrive, OpenMove
  <2>2. CASE Handle(h)
    <3>1. ExactHandler(handler[h])
          BY DEF SerialInv, ExactCopies
    <3> QED BY <2>2, <3>1, HandlerExact, HandlerTypes DEF Handle, HandlerOK, Settled
  <2> QED BY <2>1, <2>2
<1>4. \A g \in Handlers : ExactHandler(handler[g])'
  <2>1. ASSUME NEW g \in Handlers, g # h
        PROVE  ExactHandler(handler[g])'
    <3>1. PICK s : s = handler'[g]
          OBVIOUS
    <3>2. s.at = "idle"
          BY <1>1, <2>1, <3>1 DEF At
    <3>3. ExactHandler(s)'
          BY <3>2, IdleCopiesExact
    <3> QED BY <3>1, <3>3 DEF ExactHandler
  <2> QED BY <1>3, <2>1
<1>5. ExactKicker(kicker)' /\ ExactEnder(ender)'
      BY <1>2, IdleCopiesExact DEF ExactKicker, ExactEnder
<1>6. FitResults'
  <2>1. Scanning(ender) /\ Scanning(ender')
        BY <1>1, <1>2, IdleCopiesExact
  <2> QED BY <1>3, <2>1, ScanningResults DEF SerialInv
<1> QED BY <1>3, <1>4, <1>5, <1>6 DEF ExactCopies

LEMMA HandlersIdleExact ==
    ASSUME \A h \in Handlers : At(h, "idle"), handler' = handler
    PROVE  \A h \in Handlers : ExactHandler(handler[h])'
<1> SUFFICES ASSUME NEW h \in Handlers
             PROVE  ExactHandler(handler[h])'
    OBVIOUS
<1>1. PICK s : s = handler'[h]
      OBVIOUS
<1>2. s.at = "idle"
      BY <1>1 DEF At
<1>3. ExactHandler(s)'
      BY <1>2, IdleCopiesExact
<1> QED BY <1>1, <1>3 DEF ExactHandler

LEMMA KickStepExact ==
    ASSUME Exclusive, Settled, Alone, SerialInv, Kick
    PROVE  OpenMove /\ FitResults' /\ ExactCopies'
<1>1. (\A h \in Handlers : At(h, "idle")) /\ ender = EnderIdle
      BY DEF Kick, MayBegin, Alone, Quiet, KickerIdle
<1>2. ender' = ender /\ UNCHANGED sqlVars /\ handler' = handler
      BY KickerTypes DEF Kick, KickerOK, apiVars, Settled
<1>3. OpenMove /\ ExactKicker(kicker)'
      BY KickerExact DEF Kick, SerialInv, ExactCopies
<1>4. FitResults'
  <2>1. Scanning(ender) /\ Scanning(ender')
        BY <1>1, <1>2, IdleCopiesExact
  <2> QED BY <1>2, <1>3, <2>1, ScanningResults DEF SerialInv
<1>5. ExactEnder(ender)'
      BY <1>1, <1>2, IdleCopiesExact DEF ExactEnder
<1> QED BY <1>1, <1>2, <1>3, <1>4, <1>5, HandlersIdleExact DEF ExactCopies

LEMMA EndStepExact ==
    ASSUME Exclusive, Settled, Alone, SerialInv, End
    PROVE  SomeMove /\ FitResults' /\ ExactCopies'
<1>1. (\A h \in Handlers : At(h, "idle")) /\ kicker = KickerIdle
      BY DEF End, MayBegin, Alone, Quiet, EnderIdle
<1>2. kicker' = kicker /\ handler' = handler
      BY EnderTypes DEF End, EnderOK, apiVars, Settled
<1>3. SomeMove /\ ExactEnder(ender)' /\ FitResults'
      BY EnderExact DEF End, SerialInv, ExactCopies, SomeMove
<1>4. ExactKicker(kicker)'
      BY <1>1, <1>2, IdleCopiesExact DEF ExactKicker
<1> QED BY <1>1, <1>2, <1>3, <1>4, HandlersIdleExact DEF ExactCopies

LEMMA SameCopiesExact ==
    ASSUME SerialInv, UNCHANGED vars
    PROVE  FitResults' /\ ExactCopies'
<1>1. /\ battles' = battles /\ members' = members /\ sqlBattles' = sqlBattles
      /\ sqlMembers' = sqlMembers /\ handler' = handler /\ kicker' = kicker
      /\ ender' = ender
      BY DEF vars, pgVars, sqlVars, apiVars, workerVars
<1>2. FitResults'
      BY <1>1 DEF SerialInv, FitResults, FinishedBattlesAreRanked, StoredResultsAgree,
                  BeingEnded, MembersOf
<1>3. \A status : RowsWith(status)' = RowsWith(status)
      BY <1>1 DEF RowsWith
<1>4. Open' = Open /\ (\A id : MembersOf(id)' = MembersOf(id))
      BY <1>1 DEF Open, MembersOf
<1>5. \A s : ExactHandler(s) => ExactHandler(s)'
      BY <1>1, <1>3, <1>4 DEF ExactHandler, RowsAre
<1>6. \A k : ExactKicker(k) => ExactKicker(k)'
      BY <1>3, <1>4 DEF ExactKicker
<1>7. \A e : ExactEnder(e) => ExactEnder(e)'
  <2>1. \A ms, b : FinalMembers(ms, b) => FinalMembers(ms, b)'
        BY <1>4 DEF FinalMembers
  <2>2. \A b, ms : StoredOf(b, ms) => StoredOf(b, ms)'
        BY <1>1 DEF StoredOf
  <2> QED BY <1>1, <1>3, <1>4, <2>1, <2>2 DEF ExactEnder
<1>8. ExactCopies'
      BY <1>1, <1>5, <1>6, <1>7 DEF SerialInv, ExactCopies
<1> QED BY <1>2, <1>8

LEMMA SerialStep ==
    ASSUME OneAtATime, Settled, Alone, SerialInv, [Next]_vars
    PROVE  SomeMove /\ SerialInv'
<1>1. SomeMove /\ FitResults' /\ ExactCopies'
  <2>1. ASSUME NEW h \in Handlers, Arrive(h) \/ Handle(h)
        PROVE  SomeMove /\ FitResults' /\ ExactCopies'
        BY <2>1, ApiStepExact DEF OneAtATime, SomeMove
  <2>2. CASE Kick
        BY <2>2, KickStepExact DEF OneAtATime, SomeMove
  <2>3. CASE End
        BY <2>3, EndStepExact DEF OneAtATime
  <2>4. CASE Fault
        BY <2>4 DEF OneAtATime, Fault
  <2>5. CASE UNCHANGED vars
        BY <2>5, SameCopiesExact DEF vars, SomeMove, OpenMove
  <2> QED BY <2>1, <2>2, <2>3, <2>4, <2>5 DEF Next
<1>2. FitTables'
      BY <1>1, MoveFits, MovesFits, MemberMovesFit DEF SomeMove, Settled
<1> QED BY <1>1, <1>2 DEF SerialInv

LEMMA SerialInit ==
    ASSUME Init
    PROVE  SerialInv
<1>1. /\ battles = {} /\ members = {} /\ sqlBattles = {} /\ sqlMembers = {}
      /\ handler = [h \in Handlers |-> Idle] /\ kicker = KickerIdle /\ ender = EnderIdle
      BY DEF Init, PgInit, SqlInit, ApiInit, WorkerInit
<1>2. FitTables
      BY <1>1 DEF FitTables
<1>3. FitResults
      BY <1>1 DEF FitResults, FinishedBattlesAreRanked, StoredResultsAgree
<1>4. \A h \in Handlers : ExactHandler(handler[h])
      BY <1>1, IdleExact
<1>5. ExactKicker(kicker)
      BY <1>1, NoBattleWaits DEF ExactKicker, KickerIdle
<1>6. ExactEnder(ender)
      BY <1>1 DEF ExactEnder, EnderIdle, PassOf
<1> QED BY <1>2, <1>3, <1>4, <1>5, <1>6 DEF SerialInv, ExactCopies

-----------------------------------------------------------------------------
(* What holds when requests and ticks do not overlap *)

\* When requests and ticks do not overlap and nothing fails, what a handler or a loop
\* of the worker works with are the rows themselves, from the first call to the last
\* (find.go, confirm.go, leave.go, change_type.go, main.go, end_battle.go), and the
\* tables agree with each other and with MySQL whenever no battle is being ended.
THEOREM CopiesAreExact == OneAtATime /\ Spec => []SerialInv
<1>1. Init => SerialInv
      BY SerialInit
<1>2. OneAtATime /\ Settled /\ Alone /\ SerialInv /\ [Next]_vars => SerialInv'
      BY SerialStep
<1>3. OneAtATime => OneAtATime' /\ Exclusive
      BY DEF OneAtATime
<1>4. /\ TypeInv /\ SoundCopies /\ SingleCopies /\ UniqueMembership /\ NoOrphans
      /\ SerialInv
      => Settled
      BY DEF Settled, SerialInv
<1> QED BY TypeInvariant, CopiesAreSound, CopiesAreSingle, MembershipIsUnique,
           MembersHaveBattles, OneProcessAtWork, <1>1, <1>2, <1>3, <1>4, PTL DEF Spec

\* Once the worker is through with a battle, all its members are finished and have
\* their places (end_battle.go:52-57, result.go).
THEOREM EndedBattlesAreRanked == OneAtATime /\ Spec => []FinishedBattlesAreRanked
<1>1. SerialInv => FinishedBattlesAreRanked
      BY DEF SerialInv, FitResults
<1> QED BY CopiesAreExact, <1>1, PTL

\* Once the worker is through with a battle, what MySQL has of a member is what
\* PostgreSQL has: its place, points and answers (end_battle.go:58-71).
THEOREM ResultsAgree == OneAtATime /\ Spec => []StoredResultsAgree
<1>1. SerialInv => StoredResultsAgree
      BY DEF SerialInv, FitResults
<1> QED BY CopiesAreExact, <1>1, PTL

\* MySQL holds a battle only once PostgreSQL has it FINISHED, for every battle type
\* and with confirms (ADR.md:32).
THEOREM StoredMeansFinished == OneAtATime /\ Spec => []SqlOnlyWhenFinished
<1>1. SerialInv => SqlOnlyWhenFinished
      BY DEF SerialInv, FitResults, FitTables, SqlOnlyWhenFinished
<1> QED BY CopiesAreExact, <1>1, PTL

\* A member of a started battle is finished exactly when it has an answer, its own or
\* a blank, to every question, for every battle type (answer.go:97, answer.go:115).
THEOREM FinishedMeansComplete == OneAtATime /\ Spec => []FinishedIffComplete
<1>1. SerialInv => FinishedIffComplete
      BY DEF SerialInv, FitTables, RowFits, FitsQuestions, Complete, FinishedIffComplete
<1> QED BY CopiesAreExact, <1>1, PTL

\* A battle is counted once for each member also with confirms: when nothing overlaps,
\* no confirm brings a FINISHED battle back for a second end (confirm.go:72,
\* end_battle.go:58-80).
THEOREM CountsAreSingle == OneAtATime /\ Spec => []EachBattleCountedOnce
<1>1. SoundCopies /\ UniqueMembership /\ SerialInv => CountsFit
  <2> SUFFICES ASSUME SoundCopies, UniqueMembership, SerialInv
               PROVE  CountsFit
      OBVIOUS
  <2>1. ASSUME NEW id \in sqlBattles
        PROVE  id <= battleSeq
    <3>1. PICK r \in battles : r.id = id
          BY <2>1 DEF SerialInv, FitResults
    <3> QED BY <3>1 DEF SoundCopies, Sound
  <2>2. ender.at = "sqlBattle" => ender.b.id \notin sqlBattles
        BY DEF SerialInv, ExactCopies, ExactEnder
  <2>3. ASSUME ender.at \in {"sqlMembers", "sqlStats"}, NEW m \in ender.ms, NEW n \in ender.ms,
               m.student = n.student
        PROVE  m = n
    <3>1. ender.ms = MembersOf(ender.b.id)
          BY <2>3 DEF SerialInv, ExactCopies, ExactEnder
    <3> QED BY <2>3, <3>1 DEF MembersOf, UniqueMembership
  <2> QED BY <2>1, <2>2, <2>3 DEF CountsFit
<1>2. TypeInv /\ CountsFit /\ Init => CountedOnce
      BY OnceInit
<1>3. /\ TypeInv /\ TypeInv' /\ CountsFit /\ CountsFit'
      /\ CountedEnder /\ CountedOnce /\ [Next]_vars
      => CountedOnce'
      BY OnceStep
<1>4. TypeInv /\ CountsFit /\ CountedOnce => EachBattleCountedOnce
      BY OnceMeansCounted
<1> QED BY TypeInvariant, CopiesAreSound, MembershipIsUnique, CopiesAreExact,
           ResultsComeFirst, <1>1, <1>2, <1>3, <1>4, PTL DEF Spec

\* The step of QuestionsFrozen.
FrozenStep ==
    \A b \in battles : \A c \in battles' :
        b.id = c.id /\ b.status = "ON_GOING" /\ b.questions # {}
          => c.questions = b.questions

LEMMA MovesFreeze ==
    ASSUME TypeInv, SoundCopies, FitTables, SomeMove
    PROVE  FrozenStep
<1>1. \A r, s \in battles : r.id = s.id => r = s
      BY DEF FitTables
<1>2. ASSUME battles' \subseteq battles
      PROVE  FrozenStep
      BY <1>1, <1>2 DEF FrozenStep
<1>3. ASSUME NEW c, Opens(c)
      PROVE  FrozenStep
  <2>1. \A r \in battles : r.id # c.id
        BY <1>3 DEF Opens, SoundCopies, Sound, Battle, TypeInv, TypeOK, PgTypeOK
  <2>2. battles' = battles \cup {c}
        BY <1>3 DEF Opens
  <2> QED BY <1>1, <2>1, <2>2 DEF FrozenStep
<1>4. ASSUME NEW b, NEW c, Moves(b, c)
      PROVE  FrozenStep
  <2>1. /\ battles' = (battles \ {b}) \cup {c} /\ c.id = b.id /\ b \in battles
        /\ c.questions = b.questions \/ b.questions = {}
        BY <1>4 DEF Moves, Turn, Open
  <2>2. ASSUME NEW r \in battles, NEW d \in battles', r.id = d.id, r.questions # {}
        PROVE  d.questions = r.questions
    <3>1. CASE d = c
      <4>1. r = b
            BY <1>1, <2>1, <2>2, <3>1
      <4> QED BY <2>1, <2>2, <3>1, <4>1
    <3>2. CASE d # c
      <4>1. d \in battles
            BY <2>1, <3>2
      <4> QED BY <1>1, <2>2, <4>1
    <3> QED BY <3>1, <3>2
  <2> QED BY <2>2 DEF FrozenStep
<1> QED BY <1>2, <1>3, <1>4
    DEF SomeMove, OpenMove, Enters, Writes, Removes, Deletes, pgVars

\* No step overwrites the questions of a battle that has started: each handler saves
\* the row it read (answer.go, leave.go, main.go; ADR.md:102).
THEOREM QuestionsStay == OneAtATime /\ Spec => QuestionsFrozen
<1>1. OneAtATime /\ Settled /\ Alone /\ SerialInv /\ [Next]_vars => [FrozenStep]_vars
      BY SerialStep, MovesFreeze DEF Settled
<1>3. OneAtATime => OneAtATime' /\ Exclusive
      BY DEF OneAtATime
<1>4. /\ TypeInv /\ SoundCopies /\ SingleCopies /\ UniqueMembership /\ NoOrphans
      /\ SerialInv
      => Settled
      BY DEF Settled, SerialInv
<1> QED BY TypeInvariant, CopiesAreSound, CopiesAreSingle, MembershipIsUnique,
           MembersHaveBattles, OneProcessAtWork, CopiesAreExact, <1>1, <1>3, <1>4,
           PTL DEF Spec, QuestionsFrozen, FrozenStep

\* A member that has finished stays finished, with its answers, whatever requests and
\* worker passes follow (answer.go:97, main.go:205, end_battle.go:52).
THEOREM FinishedStayFinished == OneAtATime /\ Spec => FinishedMembersStay
<1>1. OneAtATime /\ Settled /\ Alone /\ SerialInv /\ [Next]_vars => [FinishedStay]_vars
      BY SerialStep, MovesStay DEF SomeMove, Settled
<1>3. OneAtATime => OneAtATime' /\ Exclusive
      BY DEF OneAtATime
<1>4. /\ TypeInv /\ SoundCopies /\ SingleCopies /\ UniqueMembership /\ NoOrphans
      /\ SerialInv
      => Settled
      BY DEF Settled, SerialInv
<1> QED BY TypeInvariant, CopiesAreSound, CopiesAreSingle, MembershipIsUnique,
           MembersHaveBattles, OneProcessAtWork, CopiesAreExact, <1>1, <1>3, <1>4,
           PTL DEF Spec, FinishedMembersStay, FinishedStay

-----------------------------------------------------------------------------
(* The places in a battle: what the moves leave of them *)

LEMMA MembersCounted ==
    ASSUME IsFiniteSet(members), NEW id
    PROVE  /\ IsFiniteSet(MembersOf(id)) /\ CountByBattle(id) \in Nat
           /\ IsFiniteSet(ConfirmedOf(id)) /\ Cardinality(ConfirmedOf(id)) \in Nat
           /\ Cardinality(ConfirmedOf(id)) <= CountByBattle(id)
           /\ Cardinality(ConfirmedOf(id)) = CountByBattle(id) =>
                 ConfirmedOf(id) = MembersOf(id)
           /\ CountConfirmedByBattle(id) = Cardinality(ConfirmedOf(id))
<1>1. IsFiniteSet(MembersOf(id))
      BY FS_Subset DEF MembersOf
<1>2. ConfirmedOf(id) \subseteq MembersOf(id)
      BY DEF ConfirmedOf
<1>3. /\ Cardinality(ConfirmedOf(id)) <= Cardinality(MembersOf(id))
      /\ Cardinality(ConfirmedOf(id)) = Cardinality(MembersOf(id)) =>
            ConfirmedOf(id) = MembersOf(id)
      BY <1>1, <1>2, FS_Subset
<1>4. /\ IsFiniteSet(ConfirmedOf(id)) /\ Cardinality(ConfirmedOf(id)) \in Nat
      /\ Cardinality(MembersOf(id)) \in Nat
      BY <1>1, <1>2, FS_Subset, FS_CardinalityType
<1> QED BY <1>1, <1>3, <1>4 DEF CountByBattle, CountConfirmedByBattle, ConfirmedOf

LEMMA PlacesOf ==
    ASSUME NEW b, b.type \in BattleType
    PROVE  /\ Places(b) \in {2, 4}
           /\ b.type = "AI" => Places(b) = 2
BY DEF Places, BattleMemberCount, BattleType

\* The members of id are who they were.
SameMembers(id) == MembersOf(id)' = MembersOf(id)

LEMMA SameRoom ==
    ASSUME NEW r, SameMembers(r.id), HasRoom(r)
    PROVE  HasRoom(r)'
<1>1. CountByBattle(r.id)' = CountByBattle(r.id) /\ ConfirmedOf(r.id)' = ConfirmedOf(r.id)
      BY DEF SameMembers, CountByBattle, ConfirmedOf
<1>2. MembersOf(r.id)' = MembersOf(r.id)
      BY DEF SameMembers
<1> QED BY <1>1, <1>2 DEF HasRoom, Places

\* Only battle id changes.
Elsewhere(id) ==
    \A r \in battles' : r.id # id => r \in battles /\ SameMembers(r.id)

LEMMA MovesElsewhere ==
    ASSUME FitTables, NoOrphans
    PROVE  /\ \A b, c : Moves(b, c) => Elsewhere(b.id) /\ SameMembers(b.id)
           /\ \A m : Enters(m) => Elsewhere(m.battle)
           /\ \A m, n : Writes(m, n) => Elsewhere(m.battle)
           /\ \A b, gone : Removes(b, gone) => Elsewhere(b.id)
           /\ \A b : Deletes(b) => Elsewhere(b.id)
           /\ \A c : Opens(c) => Elsewhere(c.id)
<1>1. ASSUME NEW b, NEW c, Moves(b, c)
      PROVE  Elsewhere(b.id) /\ SameMembers(b.id)
      BY <1>1 DEF Moves, Elsewhere, SameMembers, MembersOf
<1>2. ASSUME NEW m, Enters(m)
      PROVE  Elsewhere(m.battle)
      BY <1>2 DEF Enters, Elsewhere, SameMembers, MembersOf
<1>3. ASSUME NEW m, NEW n, Writes(m, n)
      PROVE  Elsewhere(m.battle)
      BY <1>3 DEF Writes, Elsewhere, SameMembers, MembersOf
<1>4. ASSUME NEW b, NEW gone, Removes(b, gone)
      PROVE  Elsewhere(b.id)
      BY <1>4 DEF Removes, Elsewhere, SameMembers, MembersOf
<1>5. ASSUME NEW b, Deletes(b)
      PROVE  Elsewhere(b.id)
      BY <1>5 DEF Deletes, Elsewhere, SameMembers, MembersOf
<1>6. ASSUME NEW c, Opens(c)
      PROVE  Elsewhere(c.id)
      BY <1>6 DEF Opens, Elsewhere, SameMembers, MembersOf
<1> QED BY <1>1, <1>2, <1>3, <1>4, <1>5, <1>6

LEMMA EntersCounts ==
    ASSUME FitTables, TypeInv, NEW m, Enters(m), NEW id, id = m.battle
    PROVE  /\ CountByBattle(id)' = CountByBattle(id) + 1
           /\ m.status # "CONFIRMED" => ConfirmedOf(id)' = ConfirmedOf(id)
           /\ m.status = "CONFIRMED" => ConfirmedOf(id)' = ConfirmedOf(id) \cup {m}
<1>1. members' = members \cup {m} /\ m.id = memberSeq + 1
      BY DEF Enters
<1>2. m \notin members
  <2>1. \A n \in members : n.id \in Nat /\ n.id <= memberSeq /\ memberSeq \in Nat
        BY DEF FitTables, TypeInv, TypeOK, PgTypeOK, BattleMember
  <2> QED BY <1>1, <2>1
<1>3. MembersOf(id)' = MembersOf(id) \cup {m} /\ m \notin MembersOf(id)
      BY <1>1, <1>2 DEF MembersOf
<1>4. Cardinality(MembersOf(id) \cup {m}) = Cardinality(MembersOf(id)) + 1
      BY <1>3, MembersCounted, FS_AddElement DEF TypeInv
<1> QED BY <1>3, <1>4 DEF CountByBattle, ConfirmedOf

LEMMA WritesCounts ==
    ASSUME FitTables, TypeInv, NEW m, NEW n, Writes(m, n), NEW id, id = m.battle
    PROVE  /\ CountByBattle(id)' = CountByBattle(id)
           /\ MembersOf(id)' = (MembersOf(id) \ {m}) \cup {n} /\ m \in MembersOf(id)
           /\ n.status # "CONFIRMED" => ConfirmedOf(id)' = ConfirmedOf(id) \ {m}
           /\ n.status = m.status =>
                 /\ Cardinality(ConfirmedOf(id))' = Cardinality(ConfirmedOf(id))
                 /\ ConfirmedOf(id) = {} => ConfirmedOf(id)' = {}
                 /\ ConfirmedOf(id) = MembersOf(id) => ConfirmedOf(id)' = MembersOf(id)'
<1>1. /\ members' = (members \ {m}) \cup {n} /\ m \in members
      /\ n.id = m.id /\ n.battle = m.battle
      BY DEF Writes
<1>2. n = m \/ n \notin members
      BY <1>1 DEF FitTables
<1>3. /\ MembersOf(id)' = (MembersOf(id) \ {m}) \cup {n}
      /\ m \in MembersOf(id) /\ (n = m \/ n \notin MembersOf(id))
      BY <1>1, <1>2 DEF MembersOf
<1>4. ASSUME NEW S, IsFiniteSet(S), m \in S, n = m \/ n \notin S
      PROVE  Cardinality((S \ {m}) \cup {n}) = Cardinality(S)
  <2>1. /\ IsFiniteSet(S \ {m}) /\ Cardinality(S \ {m}) = Cardinality(S) - 1
        /\ Cardinality(S) \in Nat
        BY <1>4, FS_RemoveElement, FS_CardinalityType
  <2>2. n \notin S \ {m}
        BY <1>4
  <2>3. Cardinality((S \ {m}) \cup {n}) = Cardinality(S \ {m}) + 1
        BY <2>1, <2>2, FS_AddElement
  <2> QED BY <2>1, <2>3
<1>5. CountByBattle(id)' = CountByBattle(id)
      BY <1>3, <1>4, MembersCounted DEF CountByBattle, TypeInv
<1>6. n.status # "CONFIRMED" => ConfirmedOf(id)' = ConfirmedOf(id) \ {m}
      BY <1>3 DEF ConfirmedOf
<1>7. ASSUME n.status = m.status
      PROVE  /\ Cardinality(ConfirmedOf(id))' = Cardinality(ConfirmedOf(id))
             /\ ConfirmedOf(id) = {} => ConfirmedOf(id)' = {}
             /\ ConfirmedOf(id) = MembersOf(id) => ConfirmedOf(id)' = MembersOf(id)'
  <2>1. CASE m.status = "CONFIRMED"
    <3>1. /\ ConfirmedOf(id)' = (ConfirmedOf(id) \ {m}) \cup {n} /\ m \in ConfirmedOf(id)
          /\ n = m \/ n \notin ConfirmedOf(id)
          BY <1>3, <1>7, <2>1 DEF ConfirmedOf
    <3>2. Cardinality((ConfirmedOf(id) \ {m}) \cup {n}) = Cardinality(ConfirmedOf(id))
          BY <1>4, <3>1, MembersCounted DEF TypeInv
    <3> QED BY <1>3, <3>1, <3>2
  <2>2. CASE m.status # "CONFIRMED"
    <3>1. ConfirmedOf(id)' = ConfirmedOf(id) /\ m \notin ConfirmedOf(id)
          BY <1>3, <1>7, <2>2 DEF ConfirmedOf
    <3> QED BY <1>3, <3>1
  <2> QED BY <2>1, <2>2
<1> QED BY <1>3, <1>5, <1>6, <1>7

LEMMA RemovesCounts ==
    ASSUME TypeInv, NEW b, NEW gone, Removes(b, gone), NEW id, id = b.id
    PROVE  /\ CountByBattle(id)' <= CountByBattle(id) /\ CountByBattle(id)' \in Nat
           /\ ConfirmedOf(id)' \subseteq ConfirmedOf(id)
           /\ Cardinality(ConfirmedOf(id))' <= Cardinality(ConfirmedOf(id))
           /\ Cardinality(ConfirmedOf(id))' \in Nat
           /\ MembersOf(id)' = MembersOf(id) \ gone
           /\ ConfirmedOf(id) = MembersOf(id) => ConfirmedOf(id)' = MembersOf(id)'
<1>1. MembersOf(id)' = MembersOf(id) \ gone
      BY DEF Removes, MembersOf
<1>2. MembersOf(id)' \subseteq MembersOf(id) /\ ConfirmedOf(id)' \subseteq ConfirmedOf(id)
      BY <1>1 DEF ConfirmedOf
<1>3. IsFiniteSet(MembersOf(id)) /\ IsFiniteSet(ConfirmedOf(id))
      BY MembersCounted DEF TypeInv
<1>4. /\ Cardinality(MembersOf(id)') <= Cardinality(MembersOf(id))
      /\ Cardinality(MembersOf(id)') \in Nat
      BY <1>2, <1>3, FS_Subset, FS_CardinalityType
<1>5. /\ Cardinality(ConfirmedOf(id)') <= Cardinality(ConfirmedOf(id))
      /\ Cardinality(ConfirmedOf(id)') \in Nat
      BY <1>2, <1>3, FS_Subset, FS_CardinalityType
<1>6. ConfirmedOf(id) = MembersOf(id) => ConfirmedOf(id)' = MembersOf(id)'
      BY <1>1 DEF ConfirmedOf
<1> QED BY <1>1, <1>2, <1>4, <1>5, <1>6 DEF CountByBattle

\* A battle that opens has room, and so has one whose member rows are written with
\* the status they had, or deleted.
LEMMA QuietRooms ==
    ASSUME Settled, NEW ids, RoomsBut(ids)
    PROVE  /\ UNCHANGED pgVars => RoomsBut(ids)'
           /\ \A c : Opens(c) => RoomsBut(ids)'
           /\ \A m, n : Writes(m, n) /\ n.status = m.status => RoomsBut(ids)'
           /\ \A b, gone : Removes(b, gone) => RoomsBut(ids)'
           /\ \A b : Deletes(b) => RoomsBut(ids)'
<1>0. FitTables /\ NoOrphans /\ TypeInv /\ IsFiniteSet(members)
      BY DEF Settled, TypeInv
<1>1. ASSUME NEW id, Elsewhere(id), \A r \in battles' : r.id = id => r.id \in ids \/ HasRoom(r)'
      PROVE  RoomsBut(ids)'
  <2>1. ASSUME NEW r \in battles', r.id # id
        PROVE  r.id \in ids \/ HasRoom(r)'
        BY <1>1, <2>1, SameRoom DEF RoomsBut, Elsewhere
  <2> QED BY <1>1, <2>1 DEF RoomsBut
<1>2. CASE UNCHANGED pgVars
  <2>1. Elsewhere(0) /\ \A r \in battles' : SameMembers(r.id) /\ r \in battles
        BY <1>2 DEF pgVars, Elsewhere, SameMembers, MembersOf
  <2> QED BY <2>1, SameRoom DEF RoomsBut
<1>3. ASSUME NEW c, Opens(c)
      PROVE  RoomsBut(ids)'
  <2>1. /\ battles' = battles \cup {c} /\ members' = members /\ c \in Battle
        /\ c.id = battleSeq + 1
        /\ c.status = IF c.type = "AI" THEN "ON_GOING" ELSE "WAITING"
        BY <1>3 DEF Opens
  <2>2. \A r \in battles : r.id # c.id
        BY <2>1 DEF Settled, SoundCopies, Sound, Battle, TypeInv, TypeOK, PgTypeOK
  <2>3. MembersOf(c.id)' = {}
        BY <1>0, <2>1, <2>2 DEF MembersOf, NoOrphans
  <2>4. CountByBattle(c.id)' = 0 /\ ConfirmedOf(c.id)' = {}
        BY <2>3, FS_EmptySet DEF CountByBattle, ConfirmedOf
  <2>5. Places(c) \in {2, 4}
        BY <2>1, PlacesOf DEF Battle
  <2>6. HasRoom(c)'
        BY <2>1, <2>4, <2>5 DEF HasRoom, Places
  <2>7. \A r \in battles' : r.id = c.id => r = c
        BY <2>1, <2>2
  <2> QED BY <1>0, <1>1, <1>3, <2>6, <2>7, MovesElsewhere
<1>4. ASSUME NEW m, NEW n, Writes(m, n), n.status = m.status
      PROVE  RoomsBut(ids)'
  <2>1. battles' = battles
        BY <1>4 DEF Writes
  <2>2. PICK id : id = m.battle
        OBVIOUS
  <2>3. /\ CountByBattle(id)' = CountByBattle(id)
        /\ Cardinality(ConfirmedOf(id))' = Cardinality(ConfirmedOf(id))
        /\ ConfirmedOf(id) = {} => ConfirmedOf(id)' = {}
        /\ ConfirmedOf(id) = MembersOf(id) => ConfirmedOf(id)' = MembersOf(id)'
        BY <1>0, <1>4, <2>2, WritesCounts
  <2>4. ASSUME NEW r \in battles', r.id = id, r.id \notin ids
        PROVE  HasRoom(r)'
    <3>1. HasRoom(r)
          BY <2>1, <2>4 DEF RoomsBut
    <3> QED BY <2>3, <2>4, <3>1 DEF HasRoom, Places
  <2> QED BY <1>0, <1>1, <1>4, <2>2, <2>4, MovesElsewhere
<1>5. ASSUME NEW b, NEW gone, Removes(b, gone)
      PROVE  RoomsBut(ids)'
  <2>1. battles' = battles
        BY <1>5 DEF Removes
  <2>2. PICK id : id = b.id
        OBVIOUS
  <2>3. /\ CountByBattle(id)' <= CountByBattle(id) /\ CountByBattle(id)' \in Nat
        /\ ConfirmedOf(id)' \subseteq ConfirmedOf(id)
        /\ Cardinality(ConfirmedOf(id))' <= Cardinality(ConfirmedOf(id))
        /\ Cardinality(ConfirmedOf(id))' \in Nat
        /\ ConfirmedOf(id) = MembersOf(id) => ConfirmedOf(id)' = MembersOf(id)'
        BY <1>0, <1>5, <2>2, RemovesCounts
  <2>4. CountByBattle(id) \in Nat /\ Cardinality(ConfirmedOf(id)) \in Nat
        BY <1>0, MembersCounted
  <2>5. ASSUME NEW r \in battles', r.id = id, r.id \notin ids
        PROVE  HasRoom(r)'
    <3>1. HasRoom(r) /\ Places(r) \in {2, 4}
          BY <1>0, <2>1, <2>5, PlacesOf DEF RoomsBut, TypeInv, TypeOK, PgTypeOK, Battle
    <3> QED BY <2>3, <2>4, <2>5, <3>1 DEF HasRoom, Places
  <2> QED BY <1>0, <1>1, <1>5, <2>2, <2>5, MovesElsewhere
<1>6. ASSUME NEW b, Deletes(b)
      PROVE  RoomsBut(ids)'
  <2>1. battles' = battles \ {b} /\ b \in battles
        BY <1>6 DEF Deletes, Open
  <2>2. \A r \in battles' : r.id # b.id
        BY <1>0, <2>1 DEF FitTables
  <2> QED BY <1>0, <1>1, <1>6, <2>2, MovesElsewhere
<1> QED BY <1>2, <1>3, <1>4, <1>5, <1>6

\* A move of one battle leaves the others what room they had.
LEMMA RoomMoved ==
    ASSUME Settled, NEW id, RoomsBut({id}),
           \/ \E b, c : Moves(b, c) /\ b.id = id
           \/ \E m : Enters(m) /\ m.battle = id
           \/ \E m, n : Writes(m, n) /\ m.battle = id
    PROVE  /\ RoomsBut({id})'
           /\ (\A r \in battles' : r.id = id => HasRoom(r)') => RoomsBut({})'
<1>1. Elsewhere(id)
      BY MovesElsewhere DEF Settled
<1>2. ASSUME NEW r \in battles', r.id # id
      PROVE  HasRoom(r)'
      BY <1>1, <1>2, SameRoom DEF RoomsBut, Elsewhere
<1> QED BY <1>2 DEF RoomsBut

-----------------------------------------------------------------------------
(* The places in a battle: steps of a handler *)

\* All the members of battle b go, or none; or one of a lobby.
Vacates(b, gone) ==
    /\ Removes(b, gone)
    /\ \/ gone = MembersOf(b.id) \/ gone = {}
       \/ b.status \in {"WAITING", "ON_QUEUE"} /\ \E m : gone = {m}

\* A move that keeps the promises of BattleLifecycle: nobody enters a full battle, no
\* battle starts before it is full, and one that has started loses all its members or
\* none.
RoomyMove ==
    \/ UNCHANGED pgVars
    \/ \E c : Opens(c)
    \/ \E b, c : Moves(b, c) /\ (b.questions # c.questions => CountByBattle(b.id) = Places(b))
    \/ \E m : Enters(m) /\ \A r \in battles : r.id = m.battle => CountByBattle(r.id) < Places(r)
    \/ \E m, n : Writes(m, n)
    \/ \E b, gone : Vacates(b, gone)
    \/ \E b : Deletes(b) /\ MembersOf(b.id) = {}

\* What a step of a handler that is now at t leaves.
Roomy(t) == RoomsBut(HeldByHandler(t))' /\ HandlerHasRoom(t)'

LEMMA IdleRoomy ==
    ASSUME NEW t, t.at \notin LobbyFullLabels \cup AllConfirmedLabels, RoomsBut({})'
    PROVE  /\ RoomsBut(HeldByHandler(t))'
           /\ t = Idle => HandlerHasRoom(t)'
<1>1. HeldByHandler(t) = {}
      BY DEF HeldByHandler
<1>2. HeldByHandler(t)' = {}
      BY <1>1 DEF HeldByHandler
<1>3. t = Idle => HandlerHasRoom(t)'
      BY DEF HandlerHasRoom, Idle, LobbyFullLabels
<1> QED BY <1>2, <1>3 DEF RoomsBut, HeldByHandler

\* A handler that reads: whether the lobby is full, or all confirmed.
LEMMA ReadsRoomy ==
    ASSUME Settled, NEW h \in Handlers, NEW s, s = handler[h], ExactHandler(s),
           HandlerHasRoom(s), RoomsBut(HeldByHandler(s)), NEW t, t = handler'[h],
           \/ FindWaitingBattle(h) \/ CheckExistsInBattle(h) \/ CountMembers(h)
           \/ LoadAI(h) \/ CountConfirmed(h) \/ ChangeCount(h)
    PROVE  RoomyMove /\ Roomy(t)
<1>1. UNCHANGED pgVars
      BY FindReadsExact
<1>2. battles' = battles /\ members' = members
      BY <1>1 DEF pgVars
<1>3. /\ ApiTypeOK /\ IsFiniteSet(members)
      /\ \A b \in battles : b \in Battle /\ Places(b) \in {2, 4}
      BY PlacesOf DEF Settled, TypeInv, TypeOK, PgTypeOK, Battle
<1>4. \A id : /\ CountByBattle(id)' = CountByBattle(id) /\ ConfirmedOf(id)' = ConfirmedOf(id)
              /\ MembersOf(id)' = MembersOf(id)
      BY <1>2 DEF CountByBattle, ConfirmedOf, MembersOf
<1>5. ASSUME RoomsBut(HeldByHandler(t)), HandlerHasRoom(t)
      PROVE  Roomy(t)
  <2>1. \A r : HasRoom(r) => HasRoom(r)'
        BY <1>4 DEF HasRoom, Places
  <2>2. RoomsBut(HeldByHandler(t))'
        BY <1>2, <1>5, <2>1 DEF RoomsBut, HeldByHandler
  <2>3. HandlerHasRoom(t)'
        BY <1>2, <1>4, <1>5 DEF HandlerHasRoom, Places, ExistsInBattle, FindByBattleAndStudent
  <2> QED BY <2>2, <2>3 DEF Roomy
<1>6. ASSUME NEW u, u.at \notin LobbyFullLabels \cup AllConfirmedLabels
      PROVE  HeldByHandler(u) = {}
      BY <1>6 DEF HeldByHandler
<1>7. CASE FindWaitingBattle(h)
  <2>1. s.at = "findWaiting" /\ t.at \in {"existsInBattle", "createBattle"}
        BY <1>3, <1>7, HandlerControl DEF FindWaitingBattle, At
  <2>2. HeldByHandler(s) = {} /\ HeldByHandler(t) = {}
        BY <1>6, <2>1 DEF LobbyFullLabels, AllConfirmedLabels
  <2>3. HandlerHasRoom(t)
        BY <2>1 DEF HandlerHasRoom, LobbyFullLabels
  <2> QED BY <1>1, <1>5, <2>2, <2>3 DEF RoomyMove
<1>8. CASE CheckExistsInBattle(h)
  <2>1. s.at = "existsInBattle" /\ (t = Idle \/ t.at = "createParticipant")
        BY <1>3, <1>8, HandlerControl DEF CheckExistsInBattle, At
  <2>2. t.at \in {"idle", "createParticipant"}
        BY <2>1 DEF Idle
  <2>3. HeldByHandler(s) = {} /\ HeldByHandler(t) = {}
        BY <1>6, <2>1, <2>2 DEF LobbyFullLabels, AllConfirmedLabels
  <2>4. HandlerHasRoom(t)
        BY <2>2 DEF HandlerHasRoom, LobbyFullLabels
  <2> QED BY <1>1, <1>5, <2>3, <2>4 DEF RoomyMove
<1>9. CASE CountMembers(h)
  <2>1. s.at = "countMembers" /\ s.b \in RowsWith("WAITING") /\ s.b \in battles
        BY <1>9 DEF CountMembers, At, ExactHandler, LobbyLabels, RowsWith
  <2>2. HeldByHandler(s) = {s.b.id}
        BY <2>1 DEF HeldByHandler, LobbyFullLabels
  <2>3. CountByBattle(s.b.id) <= Places(s.b) /\ ConfirmedOf(s.b.id) = {}
        BY <2>1 DEF HandlerHasRoom, LobbyFullLabels
  <2>4. CASE CountByBattle(s.b.id) >= Places(s.b)
    <3>1. Goto(h, "setOnQueue")
          BY <1>9, <2>4 DEF CountMembers, Places
    <3>2. t.at = "setOnQueue" /\ t.b = s.b
          BY <1>3, <3>1, HandlerControl
    <3>3. HeldByHandler(t) = {s.b.id} /\ HandlerHasRoom(t)
          BY <2>3, <3>2 DEF HeldByHandler, HandlerHasRoom, LobbyFullLabels
    <3> QED BY <1>1, <1>5, <2>2, <3>3 DEF RoomyMove
  <2>5. CASE ~(CountByBattle(s.b.id) >= Places(s.b))
    <3>1. t = Idle
          BY <1>3, <1>9, <2>5, HandlerControl DEF CountMembers, Places
    <3>2. HeldByHandler(t) = {} /\ HandlerHasRoom(t)
          BY <3>1 DEF HeldByHandler, HandlerHasRoom, Idle, LobbyFullLabels, AllConfirmedLabels
    <3>3. CountByBattle(s.b.id) \in Nat
          BY <1>3, MembersCounted
    <3>4. HasRoom(s.b)
          BY <1>3, <2>1, <2>3, <2>5, <3>3 DEF HasRoom, RowsWith
    <3>5. \A r \in battles : r.id = s.b.id => r = s.b
          BY <2>1 DEF Settled, FitTables
    <3> QED BY <1>1, <1>5, <2>2, <3>2, <3>4, <3>5 DEF RoomyMove, RoomsBut
  <2> QED BY <2>4, <2>5
<1>10. CASE LoadAI(h)
  <2>1. s.at = "loadAI" /\ (t = Idle \/ t.at = "saveAI")
        BY <1>3, <1>10, HandlerControl DEF LoadAI, At
  <2>2. t.at \in {"idle", "saveAI"}
        BY <2>1 DEF Idle
  <2>3. HeldByHandler(s) = {} /\ HeldByHandler(t) = {}
        BY <1>6, <2>1, <2>2 DEF LobbyFullLabels, AllConfirmedLabels
  <2>4. HandlerHasRoom(t)
        BY <2>2 DEF HandlerHasRoom, LobbyFullLabels
  <2> QED BY <1>1, <1>5, <2>3, <2>4 DEF RoomyMove
<1>11. CASE CountConfirmed(h)
  <2>1. s.at = "countConfirmed" /\ s.b \in RowsWith("ON_QUEUE") /\ s.b \in battles
        BY <1>11 DEF CountConfirmed, At, ExactHandler, RowsWith
  <2>2. HeldByHandler(s) = {s.b.id} /\ s.b.type # "AI"
        BY <2>1 DEF HeldByHandler, AllConfirmedLabels, RowsWith, Settled, SoundCopies,
                    Sound, RowIsTimed
  <2>3. CountByBattle(s.b.id) <= Places(s.b)
        BY <2>1 DEF HandlerHasRoom
  <2>4. /\ CountByBattle(s.b.id) \in Nat /\ Cardinality(ConfirmedOf(s.b.id)) \in Nat
        /\ Cardinality(ConfirmedOf(s.b.id)) <= CountByBattle(s.b.id)
        /\ Cardinality(ConfirmedOf(s.b.id)) = CountByBattle(s.b.id) =>
              ConfirmedOf(s.b.id) = MembersOf(s.b.id)
        /\ CountConfirmedByBattle(s.b.id) = Cardinality(ConfirmedOf(s.b.id))
        /\ Places(s.b) \in {2, 4}
        BY <1>3, <2>1, MembersCounted
  <2>5. CASE CountConfirmedByBattle(s.b.id) >= Places(s.b)
    <3>1. Goto(h, "startBattle")
          BY <1>11, <2>5 DEF CountConfirmed, Places
    <3>2. t.at = "startBattle" /\ t.b = s.b
          BY <1>3, <3>1, HandlerControl
    <3>3. CountByBattle(s.b.id) = Places(s.b) /\ ConfirmedOf(s.b.id) = MembersOf(s.b.id)
          BY <2>3, <2>4, <2>5
    <3>4. HeldByHandler(t) = {s.b.id} /\ HandlerHasRoom(t)
          BY <3>2, <3>3 DEF HeldByHandler, HandlerHasRoom, LobbyFullLabels, AllConfirmedLabels
    <3> QED BY <1>1, <1>5, <2>2, <3>4 DEF RoomyMove
  <2>6. CASE ~(CountConfirmedByBattle(s.b.id) >= Places(s.b))
    <3>1. t = Idle
          BY <1>3, <1>11, <2>6, HandlerControl DEF CountConfirmed, Places
    <3>2. HeldByHandler(t) = {} /\ HandlerHasRoom(t)
          BY <3>1 DEF HeldByHandler, HandlerHasRoom, Idle, LobbyFullLabels, AllConfirmedLabels
    <3>3. HasRoom(s.b)
          BY <2>1, <2>3, <2>4, <2>6 DEF HasRoom, RowsWith
    <3>4. \A r \in battles : r.id = s.b.id => r = s.b
          BY <2>1 DEF Settled, FitTables
    <3> QED BY <1>1, <1>5, <2>2, <3>2, <3>3, <3>4 DEF RoomyMove, RoomsBut
  <2> QED BY <2>5, <2>6
<1>12. CASE ChangeCount(h)
  <2>1. s.at = "changeCount"
        BY <1>12 DEF ChangeCount, At
  <2>2. HeldByHandler(s) = {}
        BY <1>6, <2>1 DEF LobbyFullLabels, AllConfirmedLabels
  <2>3. CASE CountByBattle(s.b.id) < 2
    <3>1. Goto(h, "changeSave")
          BY <1>12, <2>3 DEF ChangeCount, BattleMemberCount
    <3>2. t.at = "changeSave" /\ t.b = s.b
          BY <1>3, <3>1, HandlerControl
    <3>3. HeldByHandler(t) = {} /\ HandlerHasRoom(t)
          BY <2>3, <3>2 DEF HeldByHandler, HandlerHasRoom, LobbyFullLabels, AllConfirmedLabels
    <3> QED BY <1>1, <1>5, <2>2, <3>3 DEF RoomyMove
  <2>4. CASE ~(CountByBattle(s.b.id) < 2)
    <3>1. t = Idle
          BY <1>3, <1>12, <2>4, HandlerControl DEF ChangeCount, BattleMemberCount
    <3>2. HeldByHandler(t) = {} /\ HandlerHasRoom(t)
          BY <3>1 DEF HeldByHandler, HandlerHasRoom, Idle, LobbyFullLabels, AllConfirmedLabels
    <3> QED BY <1>1, <1>5, <2>2, <3>2 DEF RoomyMove
  <2> QED BY <2>3, <2>4
<1> QED BY <1>7, <1>8, <1>9, <1>10, <1>11, <1>12

LEMMA OtherReadsRoomy ==
    ASSUME Settled, NEW h \in Handlers, NEW s, s = handler[h], ExactHandler(s),
           HandlerHasRoom(s), RoomsBut(HeldByHandler(s)), NEW t, t = handler'[h],
           \/ ConfirmFind(h) \/ ConfirmFindMember(h)
           \/ AnswerFind(h) \/ AnswerFindMember(h)
           \/ LeaveFind(h) \/ LeaveFindMember(h) \/ ChangeFind(h)
    PROVE  RoomyMove /\ Roomy(t)
<1>1. UNCHANGED pgVars
      BY OtherReadsExact
<1>2. battles' = battles /\ members' = members
      BY <1>1 DEF pgVars
<1>3. ApiTypeOK /\ battles \subseteq Battle
      BY DEF Settled, TypeInv, TypeOK, PgTypeOK
<1>4. RoomsBut({})
  <2>1. s.at \in {"confirmFind", "confirmFindMember", "answerFind", "answerFindMember",
                  "leaveFind", "leaveFindMember", "changeFind"}
        BY DEF ConfirmFind, ConfirmFindMember, AnswerFind, AnswerFindMember, LeaveFind,
               LeaveFindMember, ChangeFind, FindBattle, FindMember, At
  <2>2. HeldByHandler(s) = {}
        BY <2>1 DEF HeldByHandler, LobbyFullLabels, AllConfirmedLabels
  <2> QED BY <2>2
<1>5. RoomsBut({})'
      BY <1>1, <1>4, QuietRooms
<1>6. ASSUME t.at \notin LobbyFullLabels \cup AllConfirmedLabels, HandlerHasRoom(t)'
      PROVE  Roomy(t)
      BY <1>5, <1>6, IdleRoomy DEF Roomy
<1>7. t = Idle => Roomy(t)
      BY <1>5, IdleRoomy DEF Roomy, Idle, LobbyFullLabels, AllConfirmedLabels
<1>8. ASSUME t.at \in {"confirmFindMember", "confirmSave", "answerFindMember", "answerSave",
                       "leaveDeleteMembers", "leaveSave", "changeCount"}
      PROVE  Roomy(t)
      BY <1>6, <1>8 DEF HandlerHasRoom, LobbyFullLabels, AllConfirmedLabels
<1>9. Roomy(t)
  <2>1. CASE ConfirmFind(h)
    <3> DEFINE next == [b \in battles |-> "confirmFindMember"]
    <3>1. FindBattle(h, "confirmFind", next)
          BY <2>1 DEF ConfirmFind
    <3>2. t = Idle \/ \E b \in battles : t.at = next[b]
          BY <1>3, <3>1, FoundBattle
    <3> QED BY <1>7, <1>8, <3>2
  <2>2. CASE AnswerFind(h)
    <3> DEFINE next == [b \in battles |-> AfterAnswerFind(b)]
    <3>1. FindBattle(h, "answerFind", next)
          BY <2>2 DEF AnswerFind
    <3>2. t = Idle \/ \E b \in battles : t.at = next[b] /\ next[b] # "idle"
          BY <1>3, <3>1, FoundBattle
    <3>3. \A b \in battles : next[b] # "idle" => next[b] = "answerFindMember"
          BY DEF AfterAnswerFind
    <3> QED BY <1>7, <1>8, <3>2, <3>3
  <2>3. CASE ChangeFind(h)
    <3> DEFINE next == [b \in battles |-> AfterChangeFind(b)]
    <3>1. FindBattle(h, "changeFind", next)
          BY <2>3 DEF ChangeFind
    <3>2. t = Idle \/ \E b \in battles : t.at = next[b] /\ next[b] # "idle"
          BY <1>3, <3>1, FoundBattle
    <3>3. \A b \in battles : next[b] # "idle" => next[b] = "changeCount"
          BY DEF AfterChangeFind
    <3> QED BY <1>7, <1>8, <3>2, <3>3
  <2>4. CASE LeaveFind(h)
    <3> DEFINE next == [b \in battles |-> AfterLeaveFind(b)]
    <3>1. FindBattle(h, "leaveFind", next)
          BY <2>4 DEF LeaveFind
    <3>2. t = Idle \/ \E b \in battles : t.at = next[b] /\ next[b] # "idle" /\ t.b = b
          BY <1>3, <3>1, FoundBattle
    <3>3. ASSUME NEW b \in battles, t.at = AfterLeaveFind(b), t.b = b, t.at # "idle"
          PROVE  Roomy(t)
      <4>1. b.status \in {"WAITING", "ON_QUEUE", "ON_GOING", "FINISHED"}
            BY <1>3 DEF Battle, BattleStatus
      <4>2. CASE b.type = "AI"
            BY <1>8, <3>3, <4>1, <4>2 DEF AfterLeaveFind
      <4>3. CASE b.type # "AI" /\ b.status = "ON_GOING"
        <5>1. t.at = "leaveFindMember" /\ t.b.type # "AI"
              BY <3>3, <4>3 DEF AfterLeaveFind
        <5> QED BY <1>6, <5>1 DEF HandlerHasRoom, LobbyFullLabels, AllConfirmedLabels
      <4>4. CASE b.type # "AI" /\ b.status \in {"WAITING", "ON_QUEUE"}
        <5>1. t.at = "leaveDelete" /\ t.b.status \in {"WAITING", "ON_QUEUE"}
              BY <3>3, <4>4 DEF AfterLeaveFind
        <5> QED BY <1>6, <5>1 DEF HandlerHasRoom, LobbyFullLabels, AllConfirmedLabels
      <4>5. CASE b.type # "AI" /\ b.status = "FINISHED"
            BY <3>3, <4>5 DEF AfterLeaveFind
      <4> QED BY <4>1, <4>2, <4>3, <4>4, <4>5
    <3> QED BY <1>7, <3>2, <3>3
  <2>5. CASE ConfirmFindMember(h)
    <3> DEFINE next == [m \in members |-> "confirmSave"]
    <3>1. FindMember(h, "confirmFindMember", next, "idle")
          BY <2>5 DEF ConfirmFindMember
    <3>2. t = Idle \/ \E m \in MembersOf(s.b.id) : t.at = next[m]
          BY <1>3, <3>1, FoundMember
    <3> QED BY <1>7, <1>8, <3>2 DEF MembersOf
  <2>6. CASE AnswerFindMember(h)
    <3> DEFINE next == [m \in members |-> "answerSave"]
    <3>1. FindMember(h, "answerFindMember", next, "idle")
          BY <2>6 DEF AnswerFindMember
    <3>2. t = Idle \/ \E m \in MembersOf(s.b.id) : t.at = next[m]
          BY <1>3, <3>1, FoundMember
    <3> QED BY <1>7, <1>8, <3>2 DEF MembersOf
  <2>7. CASE LeaveFindMember(h)
    <3> DEFINE next == [m \in members |-> AfterLeaveFindMember(m)]
    <3>1. FindMember(h, "leaveFindMember", next, "leaveDelete") /\ s.at = "leaveFindMember"
          BY <2>7 DEF LeaveFindMember, FindMember, At
    <3>2. \/ \E m \in MembersOf(s.b.id) : t.at = next[m]
          \/ /\ ~ExistsInBattle(s.b.id, s.student)
             /\ t.at = "leaveDelete" /\ t.b = s.b /\ t.student = s.student
          BY <1>3, <3>1, FoundMember
    <3>3. s.b \in battles /\ s.b.status = "ON_GOING" /\ s.b.type # "AI"
          BY <3>1 DEF ExactHandler, HandlerHasRoom, RowsWith
    <3>4. \A m \in MembersOf(s.b.id) : m.status = "CONFIRMED"
      <4>1. ConfirmedOf(s.b.id) = MembersOf(s.b.id)
            BY <1>4, <3>3 DEF RoomsBut, HasRoom
      <4> QED BY <4>1 DEF ConfirmedOf
    <3>5. \A m \in MembersOf(s.b.id) : next[m] = "leaveSave"
          BY <3>4 DEF AfterLeaveFindMember, MembersOf
    <3>6. CASE /\ ~ExistsInBattle(s.b.id, s.student)
               /\ t.at = "leaveDelete" /\ t.b = s.b /\ t.student = s.student
      <4>1. ExistsInBattle(t.b.id, t.student)' = ExistsInBattle(s.b.id, s.student)
            BY <1>2, <3>6 DEF ExistsInBattle, FindByBattleAndStudent, MembersOf
      <4>2. HandlerHasRoom(t)'
            BY <3>6, <4>1 DEF HandlerHasRoom, LobbyFullLabels
      <4> QED BY <1>6, <3>6, <4>2 DEF LobbyFullLabels, AllConfirmedLabels
    <3> QED BY <1>8, <3>2, <3>5, <3>6
  <2> QED BY <2>1, <2>2, <2>3, <2>4, <2>5, <2>6, <2>7
<1> QED BY <1>1, <1>9 DEF RoomyMove

\* A handler that writes member rows of a battle that has started, or deletes.
LEMMA WritesRoomy ==
    ASSUME Settled, NEW h \in Handlers, NEW s, s = handler[h], ExactHandler(s),
           HandlerHasRoom(s), RoomsBut(HeldByHandler(s)), NEW t, t = handler'[h],
           \/ CreateNewBattle(h) \/ SaveAI(h) \/ AnswerSave(h) \/ LeaveSave(h)
           \/ LeaveDeleteMembers(h) \/ LeaveDeleteBattle(h) \/ LeaveDelete(h)
    PROVE  RoomyMove /\ Roomy(t)
<1>1. RoomsBut({}) /\ ApiTypeOK
  <2>1. s.at \in {"createBattle", "saveAI", "answerSave", "leaveSave", "leaveDeleteMembers",
                  "leaveDeleteBattle", "leaveDelete"}
        BY DEF CreateNewBattle, SaveAI, AnswerSave, LeaveSave, LeaveDeleteMembers,
               LeaveDeleteBattle, LeaveDelete, At
  <2>2. HeldByHandler(s) = {}
        BY <2>1 DEF HeldByHandler, LobbyFullLabels, AllConfirmedLabels
  <2> QED BY <2>2 DEF Settled, TypeInv, TypeOK
<1>2. ASSUME RoomsBut({})', t = Idle \/ t.at \in {"createCreator", "saveAI", "leaveDeleteBattle"}
      PROVE  Roomy(t)
  <2>1. t.at \in {"idle", "createCreator", "saveAI", "leaveDeleteBattle"}
        BY <1>2 DEF Idle
  <2>2. HandlerHasRoom(t)'
        BY <2>1 DEF HandlerHasRoom, LobbyFullLabels
  <2> QED BY <1>2, <2>1, <2>2, IdleRoomy DEF Roomy, LobbyFullLabels, AllConfirmedLabels
<1>3. CASE CreateNewBattle(h)
  <2>1. (\E c : Opens(c)) /\ t.at = "createCreator"
        BY <1>3, CreateExact
  <2> QED BY <1>1, <1>2, <2>1, QuietRooms DEF RoomyMove
<1>4. CASE SaveAI(h)
  <2>1. \E m, n : Writes(m, n) /\ n.status = m.status
        BY <1>4, FillExact
  <2>2. t = Idle \/ t.at = "saveAI"
        BY <1>1, <1>4, HandlerControl DEF SaveAI
  <2> QED BY <1>1, <1>2, <2>1, <2>2, QuietRooms DEF RoomyMove
<1>5. CASE AnswerSave(h) \/ LeaveSave(h)
  <2>1. /\ UNCHANGED pgVars \/ \E m, n : Writes(m, n) /\ n.status = m.status
        /\ t = Idle
        BY <1>5, HeldSavesExact
  <2> QED BY <1>1, <1>2, <2>1, QuietRooms DEF RoomyMove
<1>6. CASE LeaveDeleteMembers(h) \/ LeaveDeleteBattle(h) \/ LeaveDelete(h)
  <2>1. \/ /\ LeaveDeleteMembers(h) /\ t.at = "leaveDeleteBattle"
           /\ Removes(s.b, MembersOf(s.b.id))
        \/ LeaveDeleteBattle(h) /\ t = Idle /\ Deletes(s.b)
        \/ /\ LeaveDelete(h) /\ t = Idle
           /\ Removes(s.b, FindByBattleAndStudent(s.b.id, s.student))
        BY <1>6, DeletesExact
  <2>2. LeaveDeleteBattle(h) => MembersOf(s.b.id) = {}
        BY DEF LeaveDeleteBattle, At, ExactHandler
  <2>3. ASSUME LeaveDelete(h), Removes(s.b, FindByBattleAndStudent(s.b.id, s.student))
        PROVE  RoomyMove
    <3>1. s.at = "leaveDelete"
          BY <2>3 DEF LeaveDelete, At
    <3>2. \/ s.b.status \in {"WAITING", "ON_QUEUE"}
          \/ FindByBattleAndStudent(s.b.id, s.student) = {}
          BY <3>1 DEF HandlerHasRoom, ExistsInBattle
    <3>3. PICK gone : gone = FindByBattleAndStudent(s.b.id, s.student)
          OBVIOUS
    <3>4. gone = {} \/ \E m : gone = {m}
      <4>1. \A m, n \in gone : m = n
            BY <3>3 DEF FindByBattleAndStudent, MembersOf, Settled, UniqueMembership
      <4> QED BY <4>1
    <3>5. Removes(s.b, gone)
          BY <2>3, <3>3
    <3>6. gone = {} \/ (s.b.status \in {"WAITING", "ON_QUEUE"} /\ \E m : gone = {m})
          BY <3>2, <3>3, <3>4
    <3>7. Vacates(s.b, gone)
          BY <3>5, <3>6 DEF Vacates
    <3> QED BY <3>7 DEF RoomyMove
  <2>4. RoomyMove
        BY <2>1, <2>2, <2>3 DEF RoomyMove, Vacates
  <2>5. RoomsBut({})' /\ (t = Idle \/ t.at = "leaveDeleteBattle")
        BY <1>1, <2>1, QuietRooms
  <2> QED BY <1>2, <2>4, <2>5
<1> QED BY <1>3, <1>4, <1>5, <1>6

\* Nobody enters a full battle: a lobby a handler found WAITING has a place, and an AI
\* battle has one player.
LEMMA EntersRoomy ==
    ASSUME Settled, NEW h \in Handlers, NEW s, s = handler[h], ExactHandler(s),
           HandlerHasRoom(s), RoomsBut(HeldByHandler(s)), NEW t, t = handler'[h],
           \/ CreateParticipant(h) \/ CreateCreator(h) \/ FindOpponent(h) \/ ChangeOpponent(h)
    PROVE  RoomyMove /\ Roomy(t)
<1>0. /\ FitTables /\ TypeInv /\ IsFiniteSet(members) /\ UniqueMembership
      /\ battles \subseteq Battle /\ \A b \in battles : RowIsTimed(b)
      BY DEF Settled, TypeInv, TypeOK, PgTypeOK, SoundCopies, Sound
<1>1. RoomsBut({})
  <2>1. s.at \in {"createParticipant", "createCreator", "findOpponent", "changeOpponent"}
        BY DEF CreateParticipant, CreateCreator, FindOpponent, ChangeOpponent, At
  <2>2. HeldByHandler(s) = {}
        BY <2>1 DEF HeldByHandler, LobbyFullLabels, AllConfirmedLabels
  <2> QED BY <2>2
<1>2. PICK id : id = s.b.id
      OBVIOUS
<1>3. CASE UNCHANGED pgVars /\ t = Idle
  <2>1. RoomsBut({})'
        BY <1>1, <1>3, QuietRooms
  <2> QED BY <1>3, <2>1, IdleRoomy
          DEF RoomyMove, Roomy, Idle, LobbyFullLabels, AllConfirmedLabels
<1>4. ASSUME NEW m, Enters(m), m.battle = id
      PROVE  /\ CountByBattle(id)' = CountByBattle(id) + 1 /\ CountByBattle(id) \in Nat
             /\ m.status # "CONFIRMED" => ConfirmedOf(id)' = ConfirmedOf(id)
             /\ ConfirmedOf(id) = {} => Cardinality(ConfirmedOf(id))' \in {0, 1}
             /\ battles' = battles /\ RoomsBut({id})'
             /\ (\A r \in battles' : r.id = id => HasRoom(r)') => RoomsBut({})'
  <2>1. /\ CountByBattle(id)' = CountByBattle(id) + 1
        /\ m.status # "CONFIRMED" => ConfirmedOf(id)' = ConfirmedOf(id)
        /\ m.status = "CONFIRMED" => ConfirmedOf(id)' = ConfirmedOf(id) \cup {m}
        BY <1>0, <1>4, EntersCounts
  <2>2. CountByBattle(id) \in Nat
        BY <1>0, MembersCounted
  <2>3. Cardinality({}) = 0 /\ Cardinality({m}) = 1
        BY FS_EmptySet, FS_Singleton
  <2>4. ConfirmedOf(id) = {} => Cardinality(ConfirmedOf(id))' \in {0, 1}
        BY <2>1, <2>3
  <2>5. RoomsBut({id})
        BY <1>1 DEF RoomsBut
  <2>6. /\ RoomsBut({id})'
        /\ (\A r \in battles' : r.id = id => HasRoom(r)') => RoomsBut({})'
        BY <1>4, <2>5, RoomMoved
  <2> QED BY <1>4, <2>1, <2>2, <2>4, <2>6 DEF Enters
<1>5. ASSUME NEW m, Enters(m), m.battle = id,
             \A r \in battles : r.id = id => CountByBattle(id) < Places(r)
      PROVE  RoomyMove
  <2>1. \A r \in battles : r.id = m.battle => CountByBattle(r.id) < Places(r)
        BY <1>5
  <2> QED BY <1>5, <2>1 DEF RoomyMove
<1>6. CASE CreateParticipant(h) /\ ~(UNCHANGED pgVars /\ t = Idle)
  <2>1. PICK m : /\ Enters(m) /\ m.battle = id /\ m.status = "NOT_CONFIRMED"
                 /\ t.at = "saveLevel" /\ t.b = s.b
        BY <1>2, <1>6, ParticipantExact
  <2>2. s.b \in battles /\ s.b.status = "WAITING"
        BY <1>6 DEF CreateParticipant, At, ExactHandler, LobbyLabels, RowsWith
  <2>3. CountByBattle(id) < Places(s.b) /\ ConfirmedOf(id) = {} /\ Places(s.b) \in {2, 4}
        BY <1>0, <1>1, <1>2, <2>2, PlacesOf DEF RoomsBut, HasRoom, Battle
  <2>4. \A r \in battles : r.id = id => r = s.b
        BY <1>0, <1>2, <2>2 DEF FitTables
  <2>5. RoomyMove
        BY <1>5, <2>1, <2>3, <2>4
  <2>6. CountByBattle(id)' <= Places(s.b) /\ ConfirmedOf(id)' = {} /\ RoomsBut({id})'
    <3>1. /\ CountByBattle(id)' = CountByBattle(id) + 1 /\ CountByBattle(id) \in Nat
          /\ ConfirmedOf(id)' = ConfirmedOf(id) /\ RoomsBut({id})'
          BY <1>4, <2>1
    <3>2. PICK n : n = CountByBattle(id)
          OBVIOUS
    <3> QED BY <2>3, <3>1, <3>2
  <2>7. HandlerHasRoom(t)'
        BY <1>2, <2>1, <2>6 DEF HandlerHasRoom, LobbyFullLabels, Places
  <2>8. HeldByHandler(t)' = {id}
        BY <1>2, <2>1 DEF HeldByHandler, LobbyFullLabels
  <2> QED BY <2>5, <2>6, <2>7, <2>8 DEF Roomy, RoomsBut, HeldByHandler
<1>7. CASE CreateCreator(h) /\ ~(UNCHANGED pgVars /\ t = Idle)
  <2>1. PICK m : /\ Enters(m) /\ m.battle = id /\ (m.status = "CONFIRMED" => s.b.type = "AI")
                 /\ t = Idle \/ (t.at = "findOpponent" /\ t.b = s.b /\ s.b.type = "AI")
        BY <1>2, <1>7, CreatorExact
  <2>2. /\ s.b \in battles /\ s.b.status # "FINISHED" /\ s.b.questions = {}
        /\ MembersOf(id) = {}
        BY <1>2, <1>7 DEF CreateCreator, At, ExactHandler, Open
  <2>3. /\ CountByBattle(id) = 0 /\ ConfirmedOf(id) = {} /\ Places(s.b) \in {2, 4}
        /\ s.b.status \in {"WAITING", "ON_QUEUE", "ON_GOING"}
        BY <1>0, <2>2, FS_EmptySet, PlacesOf
           DEF CountByBattle, ConfirmedOf, Battle, BattleStatus
  <2>4. \A r \in battles : r.id = id => r = s.b
        BY <1>0, <1>2, <2>2 DEF FitTables
  <2>5. RoomyMove
        BY <1>5, <2>1, <2>3, <2>4
  <2>6. CountByBattle(id)' = 1 /\ Cardinality(ConfirmedOf(id))' \in {0, 1} /\ battles' = battles
        BY <1>4, <2>1, <2>3
  <2>7. HasRoom(s.b)'
    <3>1. CASE s.b.type = "AI"
      <4>1. s.b.status = "ON_GOING"
            BY <1>0, <2>2, <3>1 DEF RowIsTimed
      <4> QED BY <1>2, <2>3, <2>6, <3>1, <4>1 DEF HasRoom, Places
    <3>2. CASE s.b.type # "AI"
      <4>1. ConfirmedOf(id)' = {} /\ s.b.status # "ON_GOING"
            BY <1>0, <1>4, <2>1, <2>2, <2>3, <3>2 DEF RowIsTimed
      <4> QED BY <1>2, <2>3, <2>6, <4>1 DEF HasRoom, Places
    <3> QED BY <3>1, <3>2
  <2>8. RoomsBut({})'
        BY <1>4, <2>1, <2>4, <2>6, <2>7
  <2>9. CASE t = Idle
        BY <2>5, <2>8, <2>9, IdleRoomy
           DEF Roomy, Idle, LobbyFullLabels, AllConfirmedLabels
  <2>10. CASE t.at = "findOpponent" /\ t.b = s.b
    <3>1. HandlerHasRoom(t)'
          BY <1>2, <2>6, <2>10 DEF HandlerHasRoom, LobbyFullLabels
    <3> QED BY <2>5, <2>8, <2>10, <3>1, IdleRoomy
            DEF Roomy, LobbyFullLabels, AllConfirmedLabels
  <2> QED BY <2>1, <2>9, <2>10
<1>8. CASE FindOpponent(h) /\ ~(UNCHANGED pgVars /\ t = Idle)
  <2>1. PICK m : /\ Enters(m) /\ m.battle = id
                 /\ \/ t.at = "startBattle" /\ t.b = s.b
                    \/ ChangeOpponent(h)
        BY <1>2, <1>8, OpponentExact
  <2>2. /\ s.at = "findOpponent" /\ s.b \in battles /\ s.b.type = "AI"
        /\ CountByBattle(id) = 1
        BY <1>2, <1>8 DEF FindOpponent, At, ExactHandler, HandlerHasRoom, Open
  <2>3. Places(s.b) = 2 /\ t.at = "startBattle" /\ t.b = s.b
        BY <2>1, <2>2 DEF Places, BattleMemberCount, ChangeOpponent, At
  <2>4. \A r \in battles : r.id = id => r = s.b
        BY <1>0, <1>2, <2>2 DEF FitTables
  <2>5. RoomyMove
        BY <1>5, <2>1, <2>2, <2>3, <2>4
  <2>6. CountByBattle(id)' = 2 /\ RoomsBut({id})'
        BY <1>4, <2>1, <2>2
  <2>7. HandlerHasRoom(t)'
        BY <1>2, <2>2, <2>3, <2>6 DEF HandlerHasRoom, LobbyFullLabels, Places
  <2>8. HeldByHandler(t)' = {id}
        BY <1>2, <2>3 DEF HeldByHandler, AllConfirmedLabels
  <2> QED BY <2>5, <2>6, <2>7, <2>8 DEF Roomy, RoomsBut, HeldByHandler
<1>9. CASE ChangeOpponent(h) /\ ~(UNCHANGED pgVars /\ t = Idle)
  <2>1. PICK m : Enters(m) /\ m.battle = id /\ (FindOpponent(h) \/ t = Idle)
        BY <1>2, <1>9, OpponentExact
  <2>2. /\ s.at = "changeOpponent" /\ RowsAre(id, "ON_QUEUE")
        /\ CountByBattle(id) < 2 /\ ConfirmedOf(id) = {}
        BY <1>2, <1>9 DEF ChangeOpponent, At, ExactHandler, HandlerHasRoom
  <2>3. t = Idle
        BY <2>1, <2>2 DEF FindOpponent, At
  <2>4. \A r \in battles : Places(r) \in {2, 4}
        BY <1>0, PlacesOf DEF Battle
  <2>5. RoomyMove
    <3>1. CountByBattle(id) \in Nat
          BY <1>4, <2>1
    <3> QED BY <1>5, <2>1, <2>2, <2>4, <3>1
  <2>6. /\ CountByBattle(id)' <= 2 /\ Cardinality(ConfirmedOf(id))' \in {0, 1}
        /\ CountByBattle(id)' \in Nat /\ battles' = battles
        BY <1>4, <2>1, <2>2
  <2>7. \A r \in battles' : r.id = id => HasRoom(r)'
        BY <2>2, <2>4, <2>6 DEF RowsAre, HasRoom, Places
  <2>8. RoomsBut({})'
        BY <1>4, <2>1, <2>7
  <2> QED BY <2>3, <2>5, <2>8, IdleRoomy
          DEF Roomy, Idle, LobbyFullLabels, AllConfirmedLabels
<1> QED BY <1>3, <1>6, <1>7, <1>8, <1>9

\* A lobby closes when it is full, or for the opponent of an AI battle; a battle
\* starts when it is full and all have confirmed.
LEMMA MovesRoomy ==
    ASSUME Settled, QuestionsFound,
           NEW h \in Handlers, NEW s, s = handler[h], ExactHandler(s),
           HandlerHasRoom(s), RoomsBut(HeldByHandler(s)), NEW t, t = handler'[h],
           LowerLevel(h) \/ SetOnQueue(h) \/ ChangeSave(h) \/ StartBattle(h)
    PROVE  RoomyMove /\ Roomy(t)
<1>0. /\ FitTables /\ TypeInv /\ IsFiniteSet(members) /\ battles \subseteq Battle
      /\ \A b \in battles : RowIsTimed(b)
      BY DEF Settled, TypeInv, TypeOK, PgTypeOK, SoundCopies, Sound
<1>1. PICK id : id = s.b.id
      OBVIOUS
<1>2. RoomsBut({id})
  <2>1. HeldByHandler(s) \subseteq {id}
        BY <1>1 DEF HeldByHandler
  <2> QED BY <2>1 DEF RoomsBut
<1>3. ASSUME NEW c, Moves(s.b, c)
      PROVE  /\ CountByBattle(id)' = CountByBattle(id) /\ ConfirmedOf(id)' = ConfirmedOf(id)
             /\ MembersOf(id)' = MembersOf(id) /\ RoomsBut({id})'
             /\ HasRoom(c)' => RoomsBut({})'
             /\ Places(c) = Places(s.b) /\ Places(c) \in {2, 4}
             /\ c.questions = s.b.questions => RoomyMove
             /\ CountByBattle(id) = Places(s.b) => RoomyMove
  <2>1. MembersOf(id)' = MembersOf(id)
        BY <1>3 DEF Moves, MembersOf
  <2>2. /\ RoomsBut({id})'
        /\ (\A r \in battles' : r.id = id => HasRoom(r)') => RoomsBut({})'
        BY <1>1, <1>2, <1>3, RoomMoved
  <2>3. \A r \in battles' : r.id = id => r = c
        BY <1>0, <1>1, <1>3 DEF Moves, Open, FitTables
  <2>4. Places(c) = Places(s.b) /\ Places(c) \in {2, 4}
        BY <1>3, PlacesOf DEF Moves, Places, Battle
  <2>5. (s.b.questions # c.questions => CountByBattle(s.b.id) = Places(s.b)) => RoomyMove
        BY <1>3 DEF RoomyMove
  <2> QED BY <1>1, <2>1, <2>2, <2>3, <2>4, <2>5 DEF CountByBattle, ConfirmedOf
<1>4. CountByBattle(id) \in Nat
      BY <1>0, MembersCounted
<1>5. ASSUME RoomsBut({})', t = Idle
      PROVE  Roomy(t)
      BY <1>5, IdleRoomy DEF Roomy, Idle, LobbyFullLabels, AllConfirmedLabels
<1>6. CASE LowerLevel(h)
  <2>1. s.at = "saveLevel" /\ s.b.status = "WAITING"
        BY <1>6 DEF LowerLevel, At, ExactHandler, LobbyLabels, RowsWith
  <2>2. CountByBattle(id) <= Places(s.b) /\ ConfirmedOf(id) = {}
        BY <1>1, <2>1 DEF HandlerHasRoom, LobbyFullLabels
  <2>3. /\ t.at = "countMembers"
        /\ \/ UNCHANGED pgVars /\ t.b = s.b
           \/ Moves(s.b, t.b) /\ t.b.status = "WAITING"
    <3>1. ~SetOnQueue(h) /\ ~ChangeSave(h)
          BY <2>1 DEF SetOnQueue, ChangeSave, At
    <3>2. \/ UNCHANGED pgVars /\ t.at = "countMembers" /\ t.b = s.b
          \/ t.at = "countMembers" /\ Moves(s.b, t.b) /\ t.b.status = "WAITING"
          \/ SetOnQueue(h) \/ ChangeSave(h)
          BY <1>6, LobbySavesExact, Zenon
    <3> QED BY <3>1, <3>2
  <2>4. ASSUME t.b.id = id, Places(t.b) = Places(s.b), RoomsBut({id})',
               CountByBattle(id)' = CountByBattle(id), ConfirmedOf(id)' = ConfirmedOf(id)
        PROVE  Roomy(t)
    <3>1. HandlerHasRoom(t)'
          BY <2>2, <2>3, <2>4 DEF HandlerHasRoom, LobbyFullLabels, Places
    <3>2. HeldByHandler(t)' = {id}
          BY <2>3, <2>4 DEF HeldByHandler, LobbyFullLabels
    <3> QED BY <2>4, <3>1, <3>2 DEF Roomy, RoomsBut, HeldByHandler
  <2>5. CASE UNCHANGED pgVars /\ t.b = s.b
    <3>1. CountByBattle(id)' = CountByBattle(id) /\ ConfirmedOf(id)' = ConfirmedOf(id)
          BY <2>5 DEF pgVars, CountByBattle, ConfirmedOf, MembersOf
    <3>2. RoomsBut({id})'
          BY <1>2, <2>5, QuietRooms
    <3> QED BY <1>1, <2>4, <2>5, <3>1, <3>2 DEF RoomyMove
  <2>6. CASE Moves(s.b, t.b) /\ t.b.status = "WAITING"
    <3>1. PICK c : c = t.b
          OBVIOUS
    <3>2. /\ CountByBattle(id)' = CountByBattle(id) /\ ConfirmedOf(id)' = ConfirmedOf(id)
          /\ RoomsBut({id})' /\ Places(c) = Places(s.b)
          /\ c.questions = s.b.questions => RoomyMove
          BY <1>3, <2>6, <3>1
    <3>3. c.questions = s.b.questions /\ c.id = id
          BY <1>1, <2>1, <2>6, <3>1 DEF Moves, Turn
    <3> QED BY <2>4, <3>1, <3>2, <3>3
  <2> QED BY <2>3, <2>5, <2>6
<1>7. CASE SetOnQueue(h)
  <2>1. s.at = "setOnQueue" /\ s.b.status = "WAITING"
        BY <1>7 DEF SetOnQueue, At, ExactHandler, LobbyLabels, RowsWith
  <2>2. CountByBattle(id) <= Places(s.b) /\ ConfirmedOf(id) = {}
        BY <1>1, <2>1 DEF HandlerHasRoom, LobbyFullLabels
  <2>3. t = Idle /\ \E c : Moves(s.b, c) /\ c.status = "ON_QUEUE"
        BY <1>7, <2>1, LobbySavesExact DEF LowerLevel, ChangeSave, At
  <2>4. PICK c : Moves(s.b, c) /\ c.status = "ON_QUEUE"
        BY <2>3
  <2>5. /\ CountByBattle(id)' = CountByBattle(id) /\ ConfirmedOf(id)' = ConfirmedOf(id)
        /\ HasRoom(c)' => RoomsBut({})'
        /\ Places(c) = Places(s.b) /\ Places(c) \in {2, 4}
        /\ c.questions = s.b.questions => RoomyMove
        BY <1>3, <2>4
  <2>6. c.questions = s.b.questions /\ c.id = id
        BY <1>1, <2>1, <2>4 DEF Moves, Turn
  <2>7. HasRoom(c)'
        BY <2>2, <2>4, <2>5, <2>6, FS_EmptySet DEF HasRoom, Places
  <2> QED BY <1>5, <2>3, <2>5, <2>6, <2>7
<1>8. CASE ChangeSave(h)
  <2>1. s.at = "changeSave" /\ s.b.status = "WAITING" /\ s.b \in battles
        BY <1>8 DEF ChangeSave, At, ExactHandler, LobbyLabels, RowsWith
  <2>2. CountByBattle(id) < 2
        BY <1>1, <2>1 DEF HandlerHasRoom
  <2>3. ConfirmedOf(id) = {}
    <3>1. HeldByHandler(s) = {}
          BY <2>1 DEF HeldByHandler, LobbyFullLabels, AllConfirmedLabels
    <3> QED BY <1>1, <2>1, <3>1 DEF RoomsBut, HasRoom
  <2>4. /\ t.at = "changeOpponent" /\ t.b.id = id
        /\ \E c : Moves(s.b, c) /\ c.status = "ON_QUEUE"
    <3>1. ~SetOnQueue(h) /\ ~LowerLevel(h)
          BY <2>1 DEF SetOnQueue, LowerLevel, At
    <3>2. /\ t.at = "changeOpponent" /\ t.b.id = s.b.id
          /\ \E c : Moves(s.b, c) /\ c.status = "ON_QUEUE"
          BY <1>8, <3>1, LobbySavesExact
    <3> QED BY <1>1, <3>2
  <2>5. PICK c : Moves(s.b, c) /\ c.status = "ON_QUEUE"
        BY <2>4
  <2>6. /\ CountByBattle(id)' = CountByBattle(id) /\ ConfirmedOf(id)' = ConfirmedOf(id)
        /\ HasRoom(c)' => RoomsBut({})'
        /\ Places(c) = Places(s.b) /\ Places(c) \in {2, 4}
        /\ c.questions = s.b.questions => RoomyMove
        BY <1>3, <2>5
  <2>7. c.questions = s.b.questions /\ c.id = id
        BY <1>1, <2>1, <2>5 DEF Moves, Turn
  <2>8. HasRoom(c)'
    <3>1. CountByBattle(id)' <= Places(c)
          BY <1>4, <2>2, <2>6
    <3>2. Cardinality(ConfirmedOf(id))' = 0
          BY <2>3, <2>6, FS_EmptySet
    <3> QED BY <2>5, <2>6, <2>7, <3>1, <3>2 DEF HasRoom, Places
  <2>9. HandlerHasRoom(t)'
        BY <2>2, <2>3, <2>4, <2>6 DEF HandlerHasRoom, LobbyFullLabels
  <2> QED BY <2>4, <2>6, <2>7, <2>8, <2>9, IdleRoomy
          DEF Roomy, LobbyFullLabels, AllConfirmedLabels
<1>9. CASE StartBattle(h)
  <2>1. s.at = "startBattle"
        BY <1>9 DEF StartBattle, At
  <2>2. /\ CountByBattle(id) = Places(s.b)
        /\ s.b.type # "AI" => ConfirmedOf(id) = MembersOf(id)
        BY <1>1, <2>1 DEF HandlerHasRoom
  <2>3. (\E c : Moves(s.b, c) /\ c.status = "ON_GOING") /\ t.at = "loadAI"
        BY <1>9, StartExact DEF QuestionsFound
  <2>4. PICK c : Moves(s.b, c) /\ c.status = "ON_GOING"
        BY <2>3
  <2>5. /\ CountByBattle(id)' = CountByBattle(id) /\ ConfirmedOf(id)' = ConfirmedOf(id)
        /\ MembersOf(id)' = MembersOf(id)
        /\ HasRoom(c)' => RoomsBut({})'
        /\ Places(c) = Places(s.b) /\ Places(c) \in {2, 4} /\ RoomyMove
        BY <1>3, <2>2, <2>4
  <2>6. c.type = s.b.type /\ c.id = id
        BY <1>1, <2>4 DEF Moves
  <2>7. HasRoom(c)'
        BY <2>2, <2>4, <2>5, <2>6 DEF HasRoom, Places
  <2>8. HandlerHasRoom(t)'
        BY <2>3 DEF HandlerHasRoom, LobbyFullLabels
  <2> QED BY <2>3, <2>5, <2>7, <2>8, IdleRoomy
          DEF Roomy, LobbyFullLabels, AllConfirmedLabels
<1> QED BY <1>6, <1>7, <1>8, <1>9

LEMMA ConfirmRoomy ==
    ASSUME Settled, NEW h \in Handlers, NEW s, s = handler[h], ExactHandler(s),
           HandlerHasRoom(s), RoomsBut(HeldByHandler(s)), NEW t, t = handler'[h],
           ConfirmSave(h)
    PROVE  RoomyMove /\ Roomy(t)
<1>1. s.at = "confirmSave" /\ s.b \in battles /\ s.b.status = "ON_QUEUE"
      BY DEF ConfirmSave, At, ExactHandler, RowsWith
<1>2. PICK id : id = s.b.id
      OBVIOUS
<1>3. HeldByHandler(s) = {}
      BY <1>1 DEF HeldByHandler, LobbyFullLabels, AllConfirmedLabels
<1>4. CountByBattle(id) <= Places(s.b)
      BY <1>1, <1>2, <1>3 DEF RoomsBut, HasRoom
<1>5. PICK m, n : Writes(m, n) /\ m.battle = id
      BY <1>2, ConfirmExact
<1>6. t.at = "countConfirmed" /\ t.b = s.b
      BY ConfirmExact
<1>7. CountByBattle(id)' = CountByBattle(id)
      BY <1>5, WritesCounts DEF Settled
<1>8. RoomsBut({id})'
  <2>1. RoomsBut({id})
        BY <1>3 DEF RoomsBut
  <2> QED BY <1>5, <2>1, RoomMoved
<1>9. HandlerHasRoom(t)'
      BY <1>2, <1>4, <1>6, <1>7 DEF HandlerHasRoom, LobbyFullLabels, Places
<1>10. HeldByHandler(t)' = {id}
       BY <1>2, <1>6 DEF HeldByHandler, AllConfirmedLabels
<1>11. RoomyMove
       BY <1>5 DEF RoomyMove
<1> QED BY <1>8, <1>9, <1>10, <1>11 DEF Roomy, RoomsBut, HeldByHandler

\* A step of a handler keeps the places.
LEMMA HandlerRoomy ==
    ASSUME Settled, QuestionsFound,
           NEW h \in Handlers, NEW s, s = handler[h], ExactHandler(s),
           HandlerHasRoom(s), RoomsBut(HeldByHandler(s)), NEW t, t = handler'[h],
           HandlerStep(h)
    PROVE  RoomyMove /\ Roomy(t)
<1>1. CASE \/ FindWaitingBattle(h) \/ CheckExistsInBattle(h) \/ CountMembers(h)
           \/ LoadAI(h) \/ CountConfirmed(h) \/ ChangeCount(h)
      BY <1>1, ReadsRoomy
<1>2. CASE \/ ConfirmFind(h) \/ ConfirmFindMember(h)
           \/ AnswerFind(h) \/ AnswerFindMember(h)
           \/ LeaveFind(h) \/ LeaveFindMember(h) \/ ChangeFind(h)
      BY <1>2, OtherReadsRoomy
<1>3. CASE \/ CreateNewBattle(h) \/ SaveAI(h) \/ AnswerSave(h) \/ LeaveSave(h)
           \/ LeaveDeleteMembers(h) \/ LeaveDeleteBattle(h) \/ LeaveDelete(h)
      BY <1>3, WritesRoomy
<1>4. CASE \/ CreateParticipant(h) \/ CreateCreator(h) \/ FindOpponent(h) \/ ChangeOpponent(h)
      BY <1>4, EntersRoomy
<1>5. CASE LowerLevel(h) \/ SetOnQueue(h) \/ ChangeSave(h) \/ StartBattle(h)
      BY <1>5, MovesRoomy
<1>6. CASE ConfirmSave(h)
      BY <1>6, ConfirmRoomy
<1> QED BY <1>1, <1>2, <1>3, <1>4, <1>5, <1>6 DEF HandlerStep

\* A request that arrives holds no lobby.
LEMMA ArrivalRoomy ==
    ASSUME Settled, Documented, NEW h \in Handlers, RoomsBut({}),
           NEW t, t = handler'[h], Request(h)
    PROVE  UNCHANGED pgVars /\ Roomy(t)
<1>1. UNCHANGED pgVars
      BY ArrivalExact
<1>2. ASSUME NEW kind, NEW s, NEW b, NEW label, Accept(h, kind, s, b, label)
      PROVE  t.at = label
      BY <1>2 DEF Accept, Idle, Settled, TypeInv, TypeOK, ApiTypeOK
<1>3. t.at \in {"findWaiting", "confirmFind", "answerFind", "leaveFind", "changeFind"}
      BY <1>2 DEF Request, FindRequest, ConfirmRequest, AnswerRequest, LeaveRequest,
                  ChangeTypeRequest, BattleRequest
<1>4. RoomsBut({})'
      BY <1>1, QuietRooms
<1>5. RoomsBut(HeldByHandler(t))'
      BY <1>3, <1>4, IdleRoomy DEF LobbyFullLabels, AllConfirmedLabels
<1>6. HandlerHasRoom(t)'
      BY <1>3 DEF HandlerHasRoom, LobbyFullLabels
<1> QED BY <1>1, <1>5, <1>6 DEF Roomy

-----------------------------------------------------------------------------
(* The places in a battle: steps of the two loops *)

LEMMA KickReadsRoomy ==
    ASSUME Settled, NEW k, k = kicker, ExactKicker(k), RoomsBut({}),
           NEW l, l = kicker', KickScan \/ KickLoad
    PROVE  UNCHANGED pgVars /\ RoomsBut(HeldByKicker(l))' /\ KickerHasRoom(l)'
<1>1. UNCHANGED pgVars /\ RoomsBut({})'
      BY KickReadsExact, QuietRooms
<1>2. ASSUME l.at # "unconfirm"
      PROVE  RoomsBut(HeldByKicker(l))'
      BY <1>1, <1>2 DEF HeldByKicker, RoomsBut
<1>3. CASE KickScan
  <2>1. l.at \in {"scan", "load"}
    <3>1. \A todo : KickNext(todo) => l.at \in {"scan", "load"}
          BY DEF KickNext, KickerIdle
    <3> QED BY <1>3, <3>1 DEF KickScan
  <2> QED BY <1>1, <1>2, <2>1 DEF KickerHasRoom
<1>4. CASE KickLoad
  <2>1. PICK b \in k.todo :
           /\ l.b = b /\ l.left = MembersOf(b.id) \ KickExpiredMembers(b, MembersOf(b.id))
           /\ l.at \in {"deleteMembers", "reset", "kick"}
        BY <1>4 DEF KickLoad
  <2>2. b \in battles /\ b.status = "ON_QUEUE"
        BY DEF ExactKicker, RowsWith
  <2>3. b.type # "AI" /\ HasRoom(b)
        BY <2>2 DEF Settled, SoundCopies, Sound, RowIsTimed, RoomsBut
  <2>4. \A m \in MembersOf(b.id) : m.status \in {"NOT_CONFIRMED", "CONFIRMED"}
        BY DEF MembersOf, Settled, TypeInv, TypeOK, PgTypeOK, BattleMember, MemberStatus
  <2>5. l.left = ConfirmedOf(b.id)
        BY <2>1, <2>3, <2>4 DEF KickExpiredMembers, ConfirmedOf
  <2>6. KickerHasRoom(l)'
    <3>1. Cardinality(l.left) < Places(l.b)
          BY <2>1, <2>2, <2>3, <2>5 DEF HasRoom
    <3> QED BY <2>1, <3>1 DEF KickerHasRoom, Places
  <2> QED BY <1>1, <1>2, <2>1, <2>6
<1> QED BY <1>3, <1>4

\* The kicker leaves no lobby open that is full or has confirmed members.
LEMMA KickerRoomy ==
    ASSUME Settled, NEW k, k = kicker, ExactKicker(k), KickerHasRoom(k),
           RoomsBut(HeldByKicker(k)), NEW l, l = kicker', KickerStep
    PROVE  RoomyMove /\ RoomsBut(HeldByKicker(l))' /\ KickerHasRoom(l)'
<1>0. FitTables /\ TypeInv /\ IsFiniteSet(members)
      BY DEF Settled, TypeInv
<1>1. k.at # "unconfirm" => RoomsBut({})
      BY DEF HeldByKicker
<1>2. ASSUME l.at # "unconfirm", RoomsBut({})'
      PROVE  RoomsBut(HeldByKicker(l))'
      BY <1>2 DEF HeldByKicker, RoomsBut
<1>3. CASE KickScan \/ KickLoad
  <2>1. k.at # "unconfirm"
        BY <1>3 DEF KickScan, KickLoad
  <2> QED BY <1>1, <1>3, <2>1, KickReadsRoomy DEF RoomyMove
<1>4. CASE KickDeleteMembers \/ KickDeleteBattle \/ KickMember
  <2>1. k.at \in {"deleteMembers", "deleteBattle", "kick"}
        BY <1>4 DEF KickDeleteMembers, KickDeleteBattle, KickMember
  <2>2. RoomsBut({})
        BY <1>1, <2>1
  <2>3. k.b.status = "ON_QUEUE"
        BY <2>1 DEF ExactKicker, RowsWith
  <2>4. CASE l.at = "deleteBattle" /\ Removes(k.b, MembersOf(k.b.id))
    <3>1. Vacates(k.b, MembersOf(k.b.id))
          BY <2>4 DEF Vacates
    <3>2. RoomsBut({})'
          BY <2>2, <2>4, QuietRooms
    <3> QED BY <1>2, <2>4, <3>1, <3>2 DEF RoomyMove, KickerHasRoom
  <2>5. CASE l.at \in {"scan", "load"} /\ Deletes(k.b) /\ MembersOf(k.b.id) = {}
    <3>1. RoomsBut({})'
          BY <2>2, <2>5, QuietRooms
    <3> QED BY <1>2, <2>5, <3>1 DEF RoomyMove, KickerHasRoom
  <2>6. CASE /\ k.at = "kick" /\ l.at \in {"kick", "reset"} /\ l.b = k.b /\ l.left = k.left
             /\ \E m \in MembersOf(k.b.id) : Removes(k.b, {m})
    <3>1. PICK m : Removes(k.b, {m})
          BY <2>6
    <3>2. Vacates(k.b, {m})
          BY <2>3, <3>1 DEF Vacates
    <3>3. RoomsBut({})'
          BY <2>2, <3>1, QuietRooms
    <3>4. KickerHasRoom(l)'
          BY <2>6 DEF KickerHasRoom, Places
    <3> QED BY <1>2, <2>6, <3>2, <3>3, <3>4 DEF RoomyMove
  <2> QED BY <1>4, <2>4, <2>5, <2>6, KickDeletesExact
<1>5. PICK id : id = k.b.id
      OBVIOUS
<1>6. CASE KickReset
  <2>1. k.at = "reset" /\ k.b.status = "ON_QUEUE"
        BY <1>6 DEF KickReset, ExactKicker, RowsWith
  <2>2. /\ Moves(k.b, l.b) /\ l.b.status = "WAITING" /\ l.at = "unconfirm" /\ l.left = k.left
        BY <1>6, KickResetExact
  <2>3. k.left = MembersOf(id) /\ CountByBattle(id) < Places(k.b)
        BY <1>5, <2>1 DEF ExactKicker, KickerHasRoom, CountByBattle
  <2>4. PICK c : c = l.b
        OBVIOUS
  <2>5. c.id = id /\ c.type = k.b.type /\ c.questions = k.b.questions
        BY <1>5, <2>1, <2>2, <2>4 DEF Moves, Turn
  <2>6. RoomyMove
        BY <2>2, <2>4, <2>5 DEF RoomyMove
  <2>7. MembersOf(id)' = MembersOf(id)
        BY <2>2 DEF Moves, MembersOf
  <2>8. CountByBattle(id)' = CountByBattle(id) /\ ConfirmedOf(id)' \subseteq k.left
        BY <2>3, <2>7 DEF CountByBattle, ConfirmedOf
  <2>9. RoomsBut({id})'
    <3>1. RoomsBut({id})
          BY <1>1, <2>1 DEF RoomsBut
    <3> QED BY <1>5, <2>2, <3>1, RoomMoved
  <2>10. KickerHasRoom(l)'
    <3>1. Places(c) = Places(k.b)
          BY <2>5 DEF Places
    <3>2. CountByBattle(id)' < Places(c) /\ ConfirmedOf(id)' \subseteq l.left
          BY <2>2, <2>3, <2>8, <3>1
    <3> QED BY <2>2, <2>4, <2>5, <3>2 DEF KickerHasRoom, Places
  <2>11. HeldByKicker(l)' = {id}
        BY <2>2, <2>4, <2>5 DEF HeldByKicker
  <2> QED BY <2>6, <2>9, <2>10, <2>11 DEF RoomsBut, HeldByKicker
<1>7. CASE KickUnconfirm
  <2>1. k.at = "unconfirm" /\ k.b \in battles /\ k.b.status = "WAITING"
        BY <1>7 DEF KickUnconfirm, ExactKicker, RowsWith
  <2>2. CountByBattle(id) < Places(k.b) /\ ConfirmedOf(id) \subseteq k.left
        BY <1>5, <2>1 DEF KickerHasRoom
  <2>3. PICK m, n :
           /\ Writes(m, n) /\ n.status = "NOT_CONFIRMED" /\ m.battle = id
           /\ \/ k.left = {m} /\ l.at \in {"scan", "load"}
              \/ l.at = "unconfirm" /\ l.b = k.b /\ l.left = k.left \ {m}
        BY <1>5, <1>7, KickUnconfirmExact
  <2>4. RoomyMove /\ battles' = battles
        BY <2>3 DEF RoomyMove, Writes
  <2>5. /\ CountByBattle(id)' = CountByBattle(id)
        /\ ConfirmedOf(id)' = ConfirmedOf(id) \ {m}
        BY <1>0, <2>3, WritesCounts
  <2>6. /\ RoomsBut({id})'
        /\ (\A r \in battles' : r.id = id => HasRoom(r)') => RoomsBut({})'
    <3>1. RoomsBut({id})
          BY <1>5, <2>1 DEF HeldByKicker
    <3> QED BY <2>3, <3>1, RoomMoved
  <2>7. CASE k.left = {m} /\ l.at \in {"scan", "load"}
    <3>1. ConfirmedOf(id)' = {}
          BY <2>2, <2>5, <2>7
    <3>2. PICK r : r = k.b
          OBVIOUS
    <3>3. CountByBattle(r.id)' < Places(r) /\ ConfirmedOf(r.id)' = {} /\ r.status = "WAITING"
          BY <1>5, <2>1, <2>2, <2>5, <3>1, <3>2
    <3>4. CountByBattle(r.id)' \in Nat /\ Places(r) \in {2, 4}
      <4>1. CountByBattle(id) \in Nat
            BY <1>0, MembersCounted
      <4> QED BY <1>0, <1>5, <2>1, <2>5, <3>2, <4>1, PlacesOf
              DEF TypeInv, TypeOK, PgTypeOK, Battle
    <3>5. HasRoom(r)'
          BY <3>3, <3>4 DEF HasRoom, Places
    <3>6. \A x \in battles' : x.id = id => x = r
          BY <1>0, <1>5, <2>1, <2>4, <3>2 DEF FitTables
    <3> QED BY <1>2, <2>4, <2>6, <2>7, <3>5, <3>6 DEF KickerHasRoom
  <2>8. CASE l.at = "unconfirm" /\ l.b = k.b /\ l.left = k.left \ {m}
    <3>1. HeldByKicker(l)' = {id}
          BY <1>5, <2>8 DEF HeldByKicker
    <3>2. KickerHasRoom(l)'
          BY <1>5, <2>2, <2>5, <2>8 DEF KickerHasRoom, Places
    <3> QED BY <2>4, <2>6, <3>1, <3>2 DEF RoomsBut, HeldByKicker
  <2> QED BY <2>3, <2>7, <2>8
<1> QED BY <1>3, <1>4, <1>6, <1>7 DEF KickerStep

\* The result of a member of a FINISHED battle is stored in MySQL.
Records ==
    /\ UNCHANGED pgVars
    /\ \E b \in RowsWith("FINISHED") : \E m \in MembersOf(b.id) :
          sqlMembers' = {x \in sqlMembers : ~(x.battle = b.id /\ x.student = m.student)}
                        \cup {SqlRow(b, m)}

\* The ender moves battles that have started.
LEMMA EnderRoomy ==
    ASSUME Settled, FitResults, NEW e, e = ender, ExactEnder(e), RoomsBut({}),
           EnderStep
    PROVE  /\ RoomsBut({})'
           /\ \/ RoomyMove /\ sqlMembers' = sqlMembers
              \/ Records
<1>0. FitTables /\ TypeInv
      BY DEF Settled
<1>1. PICK f : f = ender'
      OBVIOUS
<1>2. CASE ScanExpired \/ ScanIdle \/ ScanFinished
  <2>1. UNCHANGED <<pgVars, sqlVars>>
        BY <1>2, ScansExact
  <2> QED BY <2>1, QuietRooms DEF RoomyMove, sqlVars
<1>3. CASE LoadExpired \/ LoadIdle \/ LoadFinished
  <2>1. UNCHANGED <<pgVars, sqlVars>>
        BY <1>1, <1>3, LoadsExact
  <2> QED BY <2>1, QuietRooms DEF RoomyMove, sqlVars
<1>4. CASE DropMembers \/ DropBattle
  <2>1. /\ UNCHANGED sqlVars
        /\ \/ Removes(e.b, MembersOf(e.b.id))
           \/ Deletes(e.b) /\ MembersOf(e.b.id) = {}
        BY <1>1, <1>4, DropsExact
  <2>2. Removes(e.b, MembersOf(e.b.id)) => Vacates(e.b, MembersOf(e.b.id))
        BY DEF Vacates
  <2>3. RoomyMove
        BY <2>1, <2>2 DEF RoomyMove
  <2>4. RoomsBut({})'
        BY <2>1, QuietRooms
  <2> QED BY <2>1, <2>3, <2>4 DEF sqlVars
<1>5. CASE SaveIdle
  <2>1. UNCHANGED sqlVars /\ \E m, n : Writes(m, n) /\ n.status = m.status
        BY <1>1, <1>5, SaveIdleExact
  <2> QED BY <2>1, QuietRooms DEF RoomyMove, sqlVars
<1>6. CASE SavePgBattle
  <2>1. UNCHANGED sqlVars /\ \E b, c : Moves(b, c) /\ c.status = "FINISHED"
        BY <1>1, <1>6, SavePgBattleExact
  <2>2. PICK b, c : Moves(b, c) /\ c.status = "FINISHED"
        BY <2>1
  <2>3. PICK id : id = b.id
        OBVIOUS
  <2>4. b.questions = c.questions /\ c.id = id
        BY <2>2, <2>3 DEF Moves, Turn, Open
  <2>5. HasRoom(c)'
        BY <2>2 DEF HasRoom
  <2>6. \A r \in battles' : r.id = id => r = c
        BY <1>0, <2>2, <2>3 DEF Moves, Open, FitTables
  <2>7. RoomsBut({})'
    <3>1. RoomsBut({id})
          BY DEF RoomsBut
    <3> QED BY <2>2, <2>3, <2>5, <2>6, <3>1, RoomMoved
  <2> QED BY <2>1, <2>2, <2>4, <2>7 DEF RoomyMove, sqlVars
<1>7. CASE SavePgMember
  <2>1. /\ UNCHANGED sqlVars
        /\ \E m, n : Writes(m, n) /\ m.battle = e.b.id /\ e.b \in RowsWith("FINISHED")
        BY <1>1, <1>7, SavePgMemberExact
  <2>2. PICK m, n : Writes(m, n) /\ m.battle = e.b.id /\ e.b \in RowsWith("FINISHED")
        BY <2>1
  <2>3. PICK b : b = e.b
        OBVIOUS
  <2>4. b \in battles /\ b.status = "FINISHED" /\ battles' = battles
        BY <2>2, <2>3 DEF RowsWith, Writes
  <2>5. \A r \in battles' : r.id = b.id => r = b
        BY <1>0, <2>4 DEF FitTables
  <2>6. HasRoom(b)'
        BY <2>4 DEF HasRoom
  <2>7. RoomsBut({})'
    <3>1. RoomsBut({b.id})
          BY DEF RoomsBut
    <3> QED BY <2>2, <2>3, <2>5, <2>6, <3>1, RoomMoved
  <2> QED BY <2>1, <2>2, <2>7 DEF RoomyMove, sqlVars
<1>8. CASE SaveSqlBattle
  <2>1. UNCHANGED <<pgVars, sqlMembers>>
        BY <1>1, <1>8, SaveSqlBattleExact
  <2> QED BY <2>1, QuietRooms DEF RoomyMove
<1>9. CASE SaveSqlMember
  <2>1. UNCHANGED pgVars /\ Records
    <3>1. /\ UNCHANGED pgVars /\ e.b \in RowsWith("FINISHED")
          /\ \E m \in MembersOf(e.b.id) :
                sqlMembers' = {x \in sqlMembers :
                                  ~(x.battle = e.b.id /\ x.student = m.student)}
                              \cup {SqlRow(e.b, m)}
          BY <1>1, <1>9, SaveSqlMemberExact
    <3> QED BY <3>1 DEF Records
  <2> QED BY <2>1, QuietRooms
<1>10. CASE UpsertStats
  <2>1. UNCHANGED <<pgVars, sqlMembers>>
        BY <1>1, <1>10, UpsertStatsExact
  <2> QED BY <2>1, QuietRooms DEF RoomyMove
<1> QED BY <1>2, <1>3, <1>4, <1>5, <1>6, <1>7, <1>8, <1>9, <1>10 DEF EnderStep

-----------------------------------------------------------------------------
(* The places in a battle: every step *)

LEMMA IdleRooms ==
    /\ \A s : s.at = "idle" => HeldByHandler(s) = {} /\ HandlerHasRoom(s)
    /\ HeldByKicker(KickerIdle) = {} /\ KickerHasRoom(KickerIdle)
    /\ \A s : s.at = "idle" => HeldByHandler(s)' = {} /\ HandlerHasRoom(s)'
    /\ HeldByKicker(KickerIdle)' = {} /\ KickerHasRoom(KickerIdle)'
BY DEF HeldByHandler, HandlerHasRoom, HeldByKicker, KickerHasRoom, KickerIdle,
       LobbyFullLabels, AllConfirmedLabels

LEMMA HandlerKeepsRooms ==
    ASSUME QuestionsFound, Documented, Exclusive, Settled, Alone, SerialInv, RoomInv,
           NEW h \in Handlers, Arrive(h) \/ Handle(h)
    PROVE  RoomyMove /\ sqlMembers' = sqlMembers /\ RoomInv'
<1>1. /\ \A g \in Handlers \ {h} : At(g, "idle") /\ handler'[g] = handler[g]
      /\ kicker = KickerIdle
  <2>1. CASE Arrive(h)
    <3>1. Quiet
          BY <2>1 DEF Arrive, MayBegin
    <3> QED BY <2>1, <3>1, ArrivalMoves DEF Arrive, Quiet, Settled, TypeInv, TypeOK
  <2>2. CASE Handle(h)
    <3>1. ~At(h, "idle") /\ \A g \in Handlers \ {h} : handler'[g] = handler[g]
          BY <2>2, HandlerMoves DEF Handle, Settled
    <3> QED BY <3>1 DEF Alone
  <2> QED BY <2>1, <2>2
<1>2. kicker' = KickerIdle
      BY <1>1 DEF Arrive, Handle, workerVars
<1>3. PICK s : s = handler[h]
      OBVIOUS
<1>4. PICK t : t = handler'[h]
      OBVIOUS
<1>5. \A g \in Handlers \ {h} : HeldByHandler(handler[g]) = {}
      BY <1>1, IdleRooms DEF At
<1>6. RoomsBut(HeldByHandler(s)) /\ HandlerHasRoom(s) /\ ExactHandler(s)
  <2>1. HeldRooms \subseteq HeldByHandler(s)
        BY <1>1, <1>3, <1>5, IdleRooms DEF HeldRooms
  <2>2. HandlerHasRoom(s)
        BY <1>3 DEF RoomInv
  <2>3. ExactHandler(s)
        BY <1>3 DEF SerialInv, ExactCopies
  <2> QED BY <2>1, <2>2, <2>3 DEF RoomInv, RoomsBut
<1>7. RoomyMove /\ Roomy(t)
  <2>1. CASE Arrive(h)
    <3>1. At(h, "idle")
          BY <2>1 DEF Arrive, MayBegin, Quiet
    <3>2. RoomsBut({})
          BY <1>3, <1>6, <3>1, IdleRooms DEF At
    <3> QED BY <1>4, <2>1, <3>2, ArrivalRoomy DEF Arrive, RoomyMove
  <2>2. CASE Handle(h)
        BY <1>3, <1>4, <1>6, <2>2, HandlerRoomy DEF Handle
  <2> QED BY <2>1, <2>2
<1>8. sqlMembers' = sqlMembers
      BY ArrivalExact, HandlerTypes DEF Arrive, Handle, HandlerOK, Settled, sqlVars
<1>9. RoomInv'
  <2>1. \A g \in Handlers \ {h} : HandlerHasRoom(handler[g])'
    <3> SUFFICES ASSUME NEW g \in Handlers \ {h}
                 PROVE  HandlerHasRoom(handler[g])'
        OBVIOUS
    <3>1. PICK u : u = handler'[g]
          OBVIOUS
    <3>2. HandlerHasRoom(u)'
          BY <1>1, <3>1, IdleRooms DEF At
    <3> QED BY <3>1, <3>2 DEF HandlerHasRoom, Places, ExistsInBattle, FindByBattleAndStudent
  <2>2. HandlerHasRoom(handler[h])' /\ RoomsBut(HeldByHandler(handler[h]))'
        BY <1>4, <1>7 DEF Roomy, HandlerHasRoom, Places, RoomsBut, HeldByHandler,
                          ExistsInBattle, FindByBattleAndStudent
  <2>3. KickerHasRoom(kicker)'
        BY <1>2, IdleRooms DEF KickerHasRoom
  <2>4. HeldByHandler(handler[h])' \subseteq HeldRooms'
        BY DEF HeldRooms
  <2>5. RoomsBut(HeldRooms)'
        BY <2>2, <2>4 DEF RoomsBut
  <2> QED BY <2>1, <2>2, <2>3, <2>5 DEF RoomInv
<1> QED BY <1>7, <1>8, <1>9

LEMMA LoopsKeepRooms ==
    ASSUME Exclusive, Settled, Alone, SerialInv, RoomInv, Kick \/ End
    PROVE  /\ RoomInv'
           /\ \/ RoomyMove /\ sqlMembers' = sqlMembers
              \/ Records
<1>1. \A h \in Handlers : At(h, "idle")
      BY DEF Kick, End, MayBegin, Alone, Quiet, KickerIdle, EnderIdle
<1>2. handler' = handler
      BY DEF Kick, End, apiVars
<1>3. UNION {HeldByHandler(handler[h]) : h \in Handlers} = {}
      BY <1>1, IdleRooms DEF At
<1>4. PICK k, l : k = kicker /\ l = kicker'
      OBVIOUS
<1>5. RoomsBut(HeldByKicker(k)) /\ KickerHasRoom(k)
  <2>1. HeldRooms \subseteq HeldByKicker(k)
    <3>1. HeldByKicker(kicker) = HeldByKicker(k)
          BY <1>4
    <3> QED BY <1>3, <3>1 DEF HeldRooms
  <2> QED BY <1>4, <2>1 DEF RoomInv, RoomsBut
<1>6. ASSUME RoomsBut(HeldByKicker(l))', KickerHasRoom(l)'
      PROVE  RoomInv'
  <2>1. \A h \in Handlers : HandlerHasRoom(handler[h])'
    <3> SUFFICES ASSUME NEW h \in Handlers
                 PROVE  HandlerHasRoom(handler[h])'
        OBVIOUS
    <3>1. PICK u : u = handler'[h]
          OBVIOUS
    <3>2. HandlerHasRoom(u)'
          BY <1>1, <1>2, <3>1, IdleRooms DEF At
    <3> QED BY <3>1, <3>2 DEF HandlerHasRoom, Places, ExistsInBattle, FindByBattleAndStudent
  <2>2. KickerHasRoom(kicker)' /\ RoomsBut(HeldByKicker(kicker))'
        BY <1>4, <1>6 DEF KickerHasRoom, RoomsBut, HeldByKicker, Places
  <2>3. HeldByKicker(kicker)' \subseteq HeldRooms'
        BY DEF HeldRooms
  <2>4. RoomsBut(HeldRooms)'
        BY <2>2, <2>3 DEF RoomsBut
  <2> QED BY <2>1, <2>2, <2>4 DEF RoomInv
<1>7. CASE Kick
  <2>1. ExactKicker(k)
        BY <1>4 DEF SerialInv, ExactCopies
  <2>2. RoomyMove /\ RoomsBut(HeldByKicker(l))' /\ KickerHasRoom(l)'
        BY <1>4, <1>5, <1>7, <2>1, KickerRoomy DEF Kick
  <2>3. sqlMembers' = sqlMembers
        BY <1>7, KickerTypes DEF Kick, KickerOK, Settled, sqlVars
  <2> QED BY <1>6, <2>2, <2>3
<1>8. CASE End
  <2>1. kicker = KickerIdle
        BY <1>8 DEF End, MayBegin, Alone, Quiet, EnderIdle
  <2>2. kicker' = kicker
        BY <1>8, EnderTypes DEF End, EnderOK, Settled
  <2>3. RoomsBut({})
        BY <1>4, <1>5, <2>1, IdleRooms
  <2>4. /\ RoomsBut({})'
        /\ \/ RoomyMove /\ sqlMembers' = sqlMembers
           \/ Records
        BY <1>8, <2>3, EnderRoomy DEF End, SerialInv, ExactCopies
  <2>5. RoomsBut(HeldByKicker(l))' /\ KickerHasRoom(l)'
    <3>1. l = KickerIdle
          BY <1>4, <2>1, <2>2
    <3> QED BY <2>4, <3>1, IdleRooms DEF RoomsBut, KickerHasRoom, HeldByKicker
  <2> QED BY <1>6, <2>4, <2>5
<1> QED BY <1>7, <1>8

LEMMA RoomStep ==
    ASSUME OneAtATime, QuestionsFound, Settled, Alone, SerialInv, RoomInv, [Next]_vars
    PROVE  /\ RoomInv'
           /\ \/ RoomyMove /\ sqlMembers' = sqlMembers
              \/ Records
<1>1. ASSUME NEW h \in Handlers, Arrive(h) \/ Handle(h)
      PROVE  RoomyMove /\ sqlMembers' = sqlMembers /\ RoomInv'
      BY <1>1, HandlerKeepsRooms DEF OneAtATime
<1>2. CASE Kick \/ End
      BY <1>2, LoopsKeepRooms DEF OneAtATime
<1>3. CASE Fault
      BY <1>3 DEF OneAtATime, Fault
<1>4. CASE UNCHANGED vars
  <2>1. /\ battles' = battles /\ members' = members /\ sqlMembers' = sqlMembers
        /\ handler' = handler /\ kicker' = kicker /\ UNCHANGED pgVars
        BY <1>4 DEF vars, pgVars, sqlVars, apiVars, workerVars
  <2>2. \A id : MembersOf(id)' = MembersOf(id)
        BY <2>1 DEF MembersOf
  <2>3. \A id : CountByBattle(id)' = CountByBattle(id) /\ ConfirmedOf(id)' = ConfirmedOf(id)
        BY <2>2 DEF CountByBattle, ConfirmedOf
  <2>4. \A r : HasRoom(r) => HasRoom(r)'
        BY <2>2, <2>3 DEF HasRoom, Places
  <2>5. \A s : HandlerHasRoom(s) => HandlerHasRoom(s)'
        BY <2>2, <2>3 DEF HandlerHasRoom, Places, ExistsInBattle, FindByBattleAndStudent
  <2>6. \A k : KickerHasRoom(k) => KickerHasRoom(k)'
        BY <2>3 DEF KickerHasRoom, Places
  <2>7. RoomInv'
        BY <2>1, <2>4, <2>5, <2>6 DEF RoomInv, RoomsBut, HeldRooms, HeldByHandler, HeldByKicker
  <2> QED BY <2>1, <2>7 DEF RoomyMove
<1> QED BY <1>1, <1>2, <1>3, <1>4 DEF Next

LEMMA RoomInit ==
    ASSUME Init
    PROVE  RoomInv
<1>1. /\ battles = {} /\ handler = [h \in Handlers |-> Idle] /\ kicker = KickerIdle
      BY DEF Init, PgInit, ApiInit, WorkerInit
<1>2. \A h \in Handlers : HandlerHasRoom(handler[h])
      BY <1>1, IdleRooms DEF Idle
<1> QED BY <1>1, <1>2, IdleRooms DEF RoomInv, RoomsBut

\* When requests and ticks do not overlap, nothing fails and the question reader finds
\* questions, no battle has more members than places, no open lobby is full, no closed
\* one all confirmed, and what starts is full and all confirmed (find.go, confirm.go,
\* leave.go, change_type.go, main.go): what the count of members told a handler still
\* holds when it saves.
THEOREM BattlesHaveRoom == OneAtATime /\ QuestionsFound /\ Spec => []RoomInv
<1>1. Init => RoomInv
      BY RoomInit
<1>2. /\ OneAtATime /\ QuestionsFound /\ Settled /\ Alone /\ SerialInv /\ RoomInv
      /\ [Next]_vars
      => RoomInv'
      BY RoomStep
<1>3. OneAtATime /\ QuestionsFound => (OneAtATime /\ QuestionsFound)' /\ Exclusive
      BY DEF OneAtATime, QuestionsFound
<1>4. /\ TypeInv /\ SoundCopies /\ SingleCopies /\ UniqueMembership /\ NoOrphans
      /\ SerialInv
      => Settled
      BY DEF Settled, SerialInv
<1> QED BY TypeInvariant, CopiesAreSound, CopiesAreSingle, MembershipIsUnique,
           MembersHaveBattles, OneProcessAtWork, CopiesAreExact, <1>1, <1>2, <1>3, <1>4,
           PTL DEF Spec

-----------------------------------------------------------------------------
(* A step of the system as a step of BattleLifecycle *)

LobbyOf(id) == {m.student : m \in MembersOf(id)}

RecordedOf(id) == {r.student : r \in {x \in sqlMembers : x.battle = id}}

\* What BattleLifecycle sees of battle id is what it was.
SameBattle(id) ==
    /\ Phase(id)' = Phase(id) /\ Room(id)' = Room(id) /\ LobbyOf(id)' = LobbyOf(id)
    /\ Asked(id)' = Asked(id) /\ RecordedOf(id)' = RecordedOf(id)

\* Of the battles, only id changes.
OnlyBattle(id) == \A j \in Uuids \ {id} : SameBattle(j)

\* The instance counts sets as this module does.
LEMMA LifecycleCounts == \A S : Lifecycle!Cardinality(S) = Cardinality(S)
BY Zenon DEF Lifecycle!Cardinality, Cardinality

LEMMA NothingMoves ==
    ASSUME \A id \in Uuids : SameBattle(id)
    PROVE  UNCHANGED Lifecycle!vars
<1>1. /\ [id \in Uuids |-> Phase(id)]' = [id \in Uuids |-> Phase(id)]
      /\ [id \in Uuids |-> Room(id)]' = [id \in Uuids |-> Room(id)]
      /\ [id \in Uuids |-> LobbyOf(id)]' = [id \in Uuids |-> LobbyOf(id)]
      /\ [id \in Uuids |-> Asked(id)]' = [id \in Uuids |-> Asked(id)]
      /\ [id \in Uuids |-> RecordedOf(id)]' = [id \in Uuids |-> RecordedOf(id)]
      BY DEF SameBattle, Uuids
<1> QED BY <1>1 DEF Lifecycle!vars, LobbyOf, RecordedOf

LEMMA OpenMaps ==
    ASSUME NEW id \in Uuids, OnlyBattle(id),
           LobbyOf(id)' = LobbyOf(id), Asked(id)' = Asked(id),
           RecordedOf(id)' = RecordedOf(id),
           Phase(id) = "NONE",
           Phase(id)' \in {"WAITING", "SETUP"},
           NEW n \in {2, 4},
           Room(id)' = n
    PROVE  Lifecycle!Next
<1>1. /\ [j \in Uuids |-> LobbyOf(j)]' = [j \in Uuids |-> LobbyOf(j)]
      /\ [j \in Uuids |-> Asked(j)]' = [j \in Uuids |-> Asked(j)]
      /\ [j \in Uuids |-> RecordedOf(j)]' = [j \in Uuids |-> RecordedOf(j)]
      BY DEF OnlyBattle, SameBattle, Uuids
<1>2. /\ [j \in Uuids |-> Phase(j)]' =
            [[j \in Uuids |-> Phase(j)] EXCEPT ![id] = Phase(id)']
      /\ [j \in Uuids |-> Room(j)]' =
            [[j \in Uuids |-> Room(j)] EXCEPT ![id] = n]
      BY DEF OnlyBattle, SameBattle, Uuids
<1>3. Lifecycle!Open(id, n)
      BY <1>1, <1>2, LifecycleCounts DEF Lifecycle!Open, Lifecycle!Move, LobbyOf, RecordedOf
<1> QED BY <1>3 DEF Lifecycle!Next

LEMMA JoinMaps ==
    ASSUME NEW id \in Uuids, OnlyBattle(id),
           Phase(id)' = Phase(id), Room(id)' = Room(id), Asked(id)' = Asked(id),
           RecordedOf(id)' = RecordedOf(id),
           Phase(id) \in {"SETUP", "WAITING", "ON_QUEUE"},
           NEW p \in Students,
           p \notin LobbyOf(id),
           Cardinality(LobbyOf(id)) < Room(id),
           LobbyOf(id)' = LobbyOf(id) \cup {p}
    PROVE  Lifecycle!Next
<1>1. /\ [j \in Uuids |-> Phase(j)]' = [j \in Uuids |-> Phase(j)]
      /\ [j \in Uuids |-> Room(j)]' = [j \in Uuids |-> Room(j)]
      /\ [j \in Uuids |-> Asked(j)]' = [j \in Uuids |-> Asked(j)]
      /\ [j \in Uuids |-> RecordedOf(j)]' = [j \in Uuids |-> RecordedOf(j)]
      BY DEF OnlyBattle, SameBattle, Uuids
<1>2. /\ [j \in Uuids |-> LobbyOf(j)]' =
            [[j \in Uuids |-> LobbyOf(j)] EXCEPT ![id] = @ \cup {p}]
      BY DEF OnlyBattle, SameBattle, Uuids
<1>3. Lifecycle!Join(id, p)
      BY <1>1, <1>2, LifecycleCounts DEF Lifecycle!Join, LobbyOf, RecordedOf
<1> QED BY <1>3 DEF Lifecycle!Next

LEMMA LeaveMaps ==
    ASSUME NEW id \in Uuids, OnlyBattle(id),
           Phase(id)' = Phase(id), Room(id)' = Room(id), Asked(id)' = Asked(id),
           RecordedOf(id)' = RecordedOf(id),
           Phase(id) \in {"WAITING", "ON_QUEUE"},
           NEW p \in Students,
           p \in LobbyOf(id),
           LobbyOf(id)' = LobbyOf(id) \ {p}
    PROVE  Lifecycle!Next
<1>1. /\ [j \in Uuids |-> Phase(j)]' = [j \in Uuids |-> Phase(j)]
      /\ [j \in Uuids |-> Room(j)]' = [j \in Uuids |-> Room(j)]
      /\ [j \in Uuids |-> Asked(j)]' = [j \in Uuids |-> Asked(j)]
      /\ [j \in Uuids |-> RecordedOf(j)]' = [j \in Uuids |-> RecordedOf(j)]
      BY DEF OnlyBattle, SameBattle, Uuids
<1>2. /\ [j \in Uuids |-> LobbyOf(j)]' =
            [[j \in Uuids |-> LobbyOf(j)] EXCEPT ![id] = @ \ {p}]
      BY DEF OnlyBattle, SameBattle, Uuids
<1>3. Lifecycle!Leave(id, p)
      BY <1>1, <1>2, LifecycleCounts DEF Lifecycle!Leave, LobbyOf, RecordedOf
<1> QED BY <1>3 DEF Lifecycle!Next

LEMMA AbandonMaps ==
    ASSUME NEW id \in Uuids, OnlyBattle(id),
           Phase(id)' = Phase(id), Room(id)' = Room(id), Asked(id)' = Asked(id),
           RecordedOf(id)' = RecordedOf(id),
           Phase(id) \in {"SETUP", "WAITING", "ON_QUEUE", "ON_GOING"},
           LobbyOf(id)' = {}
    PROVE  Lifecycle!Next
<1>1. /\ [j \in Uuids |-> Phase(j)]' = [j \in Uuids |-> Phase(j)]
      /\ [j \in Uuids |-> Room(j)]' = [j \in Uuids |-> Room(j)]
      /\ [j \in Uuids |-> Asked(j)]' = [j \in Uuids |-> Asked(j)]
      /\ [j \in Uuids |-> RecordedOf(j)]' = [j \in Uuids |-> RecordedOf(j)]
      BY DEF OnlyBattle, SameBattle, Uuids
<1>2. /\ [j \in Uuids |-> LobbyOf(j)]' =
            [[j \in Uuids |-> LobbyOf(j)] EXCEPT ![id] = {}]
      BY DEF OnlyBattle, SameBattle, Uuids
<1>3. Lifecycle!Abandon(id)
      BY <1>1, <1>2, LifecycleCounts DEF Lifecycle!Abandon, LobbyOf, RecordedOf
<1> QED BY <1>3 DEF Lifecycle!Next

LEMMA CloseMaps ==
    ASSUME NEW id \in Uuids, OnlyBattle(id),
           Room(id)' = Room(id), LobbyOf(id)' = LobbyOf(id), Asked(id)' = Asked(id),
           RecordedOf(id)' = RecordedOf(id),
           Phase(id) = "WAITING",
           Phase(id)' = "ON_QUEUE"
    PROVE  Lifecycle!Next
<1>1. /\ [j \in Uuids |-> Room(j)]' = [j \in Uuids |-> Room(j)]
      /\ [j \in Uuids |-> LobbyOf(j)]' = [j \in Uuids |-> LobbyOf(j)]
      /\ [j \in Uuids |-> Asked(j)]' = [j \in Uuids |-> Asked(j)]
      /\ [j \in Uuids |-> RecordedOf(j)]' = [j \in Uuids |-> RecordedOf(j)]
      BY DEF OnlyBattle, SameBattle, Uuids
<1>2. /\ [j \in Uuids |-> Phase(j)]' =
            [[j \in Uuids |-> Phase(j)] EXCEPT ![id] = "ON_QUEUE"]
      BY DEF OnlyBattle, SameBattle, Uuids
<1>3. Lifecycle!Close(id)
      BY <1>1, <1>2, LifecycleCounts DEF Lifecycle!Close, Lifecycle!Move, LobbyOf, RecordedOf
<1> QED BY <1>3 DEF Lifecycle!Next

LEMMA ReopenMaps ==
    ASSUME NEW id \in Uuids, OnlyBattle(id),
           Room(id)' = Room(id), LobbyOf(id)' = LobbyOf(id), Asked(id)' = Asked(id),
           RecordedOf(id)' = RecordedOf(id),
           Phase(id) = "ON_QUEUE",
           Phase(id)' = "WAITING"
    PROVE  Lifecycle!Next
<1>1. /\ [j \in Uuids |-> Room(j)]' = [j \in Uuids |-> Room(j)]
      /\ [j \in Uuids |-> LobbyOf(j)]' = [j \in Uuids |-> LobbyOf(j)]
      /\ [j \in Uuids |-> Asked(j)]' = [j \in Uuids |-> Asked(j)]
      /\ [j \in Uuids |-> RecordedOf(j)]' = [j \in Uuids |-> RecordedOf(j)]
      BY DEF OnlyBattle, SameBattle, Uuids
<1>2. /\ [j \in Uuids |-> Phase(j)]' =
            [[j \in Uuids |-> Phase(j)] EXCEPT ![id] = "WAITING"]
      BY DEF OnlyBattle, SameBattle, Uuids
<1>3. Lifecycle!Reopen(id)
      BY <1>1, <1>2, LifecycleCounts DEF Lifecycle!Reopen, Lifecycle!Move, LobbyOf, RecordedOf
<1> QED BY <1>3 DEF Lifecycle!Next

LEMMA StartMaps ==
    ASSUME NEW id \in Uuids, OnlyBattle(id),
           Room(id)' = Room(id), LobbyOf(id)' = LobbyOf(id),
           RecordedOf(id)' = RecordedOf(id),
           Phase(id) \in {"SETUP", "ON_QUEUE"},
           Phase(id)' = "ON_GOING",
           Cardinality(LobbyOf(id)) = Room(id),
           NEW questions \in QuestionSets,
           questions # {},
           Asked(id)' = questions
    PROVE  Lifecycle!Next
<1>1. /\ [j \in Uuids |-> Room(j)]' = [j \in Uuids |-> Room(j)]
      /\ [j \in Uuids |-> LobbyOf(j)]' = [j \in Uuids |-> LobbyOf(j)]
      /\ [j \in Uuids |-> RecordedOf(j)]' = [j \in Uuids |-> RecordedOf(j)]
      BY DEF OnlyBattle, SameBattle, Uuids
<1>2. /\ [j \in Uuids |-> Phase(j)]' =
            [[j \in Uuids |-> Phase(j)] EXCEPT ![id] = "ON_GOING"]
      /\ [j \in Uuids |-> Asked(j)]' =
            [[j \in Uuids |-> Asked(j)] EXCEPT ![id] = questions]
      BY DEF OnlyBattle, SameBattle, Uuids
<1>3. Lifecycle!Start(id, questions)
      BY <1>1, <1>2, LifecycleCounts DEF Lifecycle!Start, Lifecycle!Move, LobbyOf, RecordedOf
<1> QED BY <1>3 DEF Lifecycle!Next

LEMMA FinishMaps ==
    ASSUME NEW id \in Uuids, OnlyBattle(id),
           Room(id)' = Room(id), LobbyOf(id)' = LobbyOf(id), Asked(id)' = Asked(id),
           RecordedOf(id)' = RecordedOf(id),
           Phase(id) = "ON_GOING",
           Phase(id)' = "FINISHED"
    PROVE  Lifecycle!Next
<1>1. /\ [j \in Uuids |-> Room(j)]' = [j \in Uuids |-> Room(j)]
      /\ [j \in Uuids |-> LobbyOf(j)]' = [j \in Uuids |-> LobbyOf(j)]
      /\ [j \in Uuids |-> Asked(j)]' = [j \in Uuids |-> Asked(j)]
      /\ [j \in Uuids |-> RecordedOf(j)]' = [j \in Uuids |-> RecordedOf(j)]
      BY DEF OnlyBattle, SameBattle, Uuids
<1>2. /\ [j \in Uuids |-> Phase(j)]' =
            [[j \in Uuids |-> Phase(j)] EXCEPT ![id] = "FINISHED"]
      BY DEF OnlyBattle, SameBattle, Uuids
<1>3. Lifecycle!Finish(id)
      BY <1>1, <1>2, LifecycleCounts DEF Lifecycle!Finish, Lifecycle!Move, LobbyOf, RecordedOf
<1> QED BY <1>3 DEF Lifecycle!Next

LEMMA RecordMaps ==
    ASSUME NEW id \in Uuids, OnlyBattle(id),
           Phase(id)' = Phase(id), Room(id)' = Room(id), LobbyOf(id)' = LobbyOf(id),
           Asked(id)' = Asked(id),
           Phase(id) = "FINISHED",
           NEW p \in Students,
           p \in LobbyOf(id) \ RecordedOf(id),
           RecordedOf(id)' = RecordedOf(id) \cup {p}
    PROVE  Lifecycle!Next
<1>1. /\ [j \in Uuids |-> Phase(j)]' = [j \in Uuids |-> Phase(j)]
      /\ [j \in Uuids |-> Room(j)]' = [j \in Uuids |-> Room(j)]
      /\ [j \in Uuids |-> LobbyOf(j)]' = [j \in Uuids |-> LobbyOf(j)]
      /\ [j \in Uuids |-> Asked(j)]' = [j \in Uuids |-> Asked(j)]
      BY DEF OnlyBattle, SameBattle, Uuids
<1>2. /\ [j \in Uuids |-> RecordedOf(j)]' =
            [[j \in Uuids |-> RecordedOf(j)] EXCEPT ![id] = @ \cup {p}]
      BY DEF OnlyBattle, SameBattle, Uuids
<1>3. Lifecycle!Record(id, p)
      BY <1>1, <1>2, LifecycleCounts DEF Lifecycle!Record, LobbyOf, RecordedOf
<1> QED BY <1>3 DEF Lifecycle!Next

LEMMA RemoveMaps ==
    ASSUME NEW id \in Uuids, OnlyBattle(id),
           LobbyOf(id)' = LobbyOf(id), RecordedOf(id)' = RecordedOf(id),
           Phase(id) \in {"SETUP", "WAITING", "ON_QUEUE", "ON_GOING"},
           Phase(id)' = "GONE",
           LobbyOf(id) = {},
           Room(id)' = 0,
           Asked(id)' = {}
    PROVE  Lifecycle!Next
<1>1. /\ [j \in Uuids |-> LobbyOf(j)]' = [j \in Uuids |-> LobbyOf(j)]
      /\ [j \in Uuids |-> RecordedOf(j)]' = [j \in Uuids |-> RecordedOf(j)]
      BY DEF OnlyBattle, SameBattle, Uuids
<1>2. /\ [j \in Uuids |-> Phase(j)]' =
            [[j \in Uuids |-> Phase(j)] EXCEPT ![id] = "GONE"]
      /\ [j \in Uuids |-> Room(j)]' =
            [[j \in Uuids |-> Room(j)] EXCEPT ![id] = 0]
      /\ [j \in Uuids |-> Asked(j)]' =
            [[j \in Uuids |-> Asked(j)] EXCEPT ![id] = {}]
      BY DEF OnlyBattle, SameBattle, Uuids
<1>3. Lifecycle!Remove(id)
      BY <1>1, <1>2, LifecycleCounts DEF Lifecycle!Remove, Lifecycle!Move, LobbyOf, RecordedOf
<1> QED BY <1>3 DEF Lifecycle!Next

\* The phase of the battle of row b.
PhaseOf(b) == IF b.status = "ON_GOING" /\ b.questions = {} THEN "SETUP" ELSE b.status

LEMMA RowView ==
    ASSUME FitTables, NEW b \in battles, NEW id, id = b.id
    PROVE  /\ Phase(id) = PhaseOf(b) /\ Room(id) = Places(b) /\ Asked(id) = b.questions
           /\ FindByUUID(id) = {b}
<1>1. FindByUUID(id) = {b}
      BY DEF FitTables, FindByUUID
<1>2. RowOf(id) = b
  <2>1. RowOf(id) \in battles /\ RowOf(id).id = id
        BY DEF RowOf
  <2> QED BY <2>1 DEF FitTables
<1> QED BY <1>1, <1>2 DEF Phase, Room, Asked, PhaseOf, Places

LEMMA RowViewNext ==
    ASSUME FitTables', NEW b \in battles', NEW id, id = b.id
    PROVE  /\ Phase(id)' = PhaseOf(b) /\ Room(id)' = Places(b) /\ Asked(id)' = b.questions
           /\ FindByUUID(id)' = {b}
<1>1. FindByUUID(id)' = {b}
      BY DEF FitTables, FindByUUID
<1>2. RowOf(id)' = b
  <2>1. RowOf(id)' \in battles' /\ RowOf(id)'.id = id
        BY DEF RowOf
  <2> QED BY <2>1 DEF FitTables
<1> QED BY <1>1, <1>2 DEF Phase, Room, Asked, PhaseOf, Places

\* The row of battle id is what it was.
SameRow(id) ==
    /\ FindByUUID(id)' = FindByUUID(id)
    /\ id <= battleSeq' <=> id <= battleSeq

LEMMA SameViews ==
    ASSUME FitTables, FitTables', NEW id
    PROVE  /\ SameRow(id) => /\ Phase(id)' = Phase(id) /\ Room(id)' = Room(id)
                             /\ Asked(id)' = Asked(id)
           /\ SameMembers(id) => LobbyOf(id)' = LobbyOf(id)
           /\ sqlMembers' = sqlMembers => RecordedOf(id)' = RecordedOf(id)
           /\ SameRow(id) /\ SameMembers(id) /\ sqlMembers' = sqlMembers => SameBattle(id)
<1>1. ASSUME SameRow(id)
      PROVE  Phase(id)' = Phase(id) /\ Room(id)' = Room(id) /\ Asked(id)' = Asked(id)
  <2>1. CASE FindByUUID(id) = {}
        BY <1>1, <2>1 DEF SameRow, Phase, Room, Asked
  <2>2. CASE FindByUUID(id) # {}
    <3>1. PICK b \in battles : b.id = id
          BY <2>2 DEF FindByUUID
    <3>2. b \in battles'
          BY <1>1, <3>1 DEF SameRow, FindByUUID
    <3> QED BY <3>1, <3>2, RowView, RowViewNext
  <2> QED BY <2>1, <2>2
<1>2. SameMembers(id) => LobbyOf(id)' = LobbyOf(id)
      BY DEF SameMembers, LobbyOf
<1>3. sqlMembers' = sqlMembers => RecordedOf(id)' = RecordedOf(id)
      BY DEF RecordedOf
<1> QED BY <1>1, <1>2, <1>3 DEF SameBattle

\* A lobby has as many players as the battle has members.
LEMMA LobbyCounts ==
    ASSUME UniqueMembership, IsFiniteSet(members), NEW id
    PROVE  Cardinality(LobbyOf(id)) = CountByBattle(id)
<1> DEFINE f == [m \in MembersOf(id) |-> m.student]
<1>1. f \in Bijection(MembersOf(id), LobbyOf(id))
      BY DEF Bijection, Injection, Surjection, IsInjective, LobbyOf, MembersOf,
             UniqueMembership
<1>2. IsFiniteSet(MembersOf(id))
      BY MembersCounted
<1> QED BY <1>1, <1>2, FS_Bijection DEF ExistsBijection, CountByBattle

LEMMA OpenStep ==
    ASSUME Settled, FitTables', sqlMembers' = sqlMembers, NEW c, Opens(c)
    PROVE  Lifecycle!Next \/ UNCHANGED Lifecycle!vars
<1>0. FitTables /\ TypeInv /\ NoOrphans /\ battleSeq \in Nat
      BY DEF Settled, TypeInv, TypeOK, PgTypeOK
<1>1. /\ battles' = battles \cup {c} /\ members' = members /\ c \in Battle
      /\ c.id = battleSeq + 1 /\ battleSeq' = battleSeq + 1 /\ c.questions = {}
      /\ c.status = IF c.type = "AI" THEN "ON_GOING" ELSE "WAITING"
      BY DEF Opens
<1>2. PICK id : id = c.id
      OBVIOUS
<1>3. \A r \in battles : r.id # id
      BY <1>1, <1>2 DEF Settled, SoundCopies, Sound, Battle, TypeInv, TypeOK, PgTypeOK
<1>4. \A j \in Uuids \ {id} : SameBattle(j)
  <2>1. ASSUME NEW j \in Uuids \ {id}
        PROVE  SameRow(j) /\ SameMembers(j)
        BY <1>0, <1>1, <1>2 DEF SameRow, FindByUUID, SameMembers, MembersOf, Uuids
  <2> QED BY <1>0, <2>1, SameViews
<1>5. LobbyOf(id)' = LobbyOf(id) /\ RecordedOf(id)' = RecordedOf(id)
  <2>1. SameMembers(id)
        BY <1>1 DEF SameMembers, MembersOf
  <2> QED BY <1>0, <2>1, SameViews
<1>6. CASE id \in Uuids
  <2>1. Phase(id) = "NONE" /\ Asked(id) = {}
        BY <1>0, <1>1, <1>2, <1>3 DEF Phase, Asked, FindByUUID
  <2>2. Phase(id)' = PhaseOf(c) /\ Room(id)' = Places(c) /\ Asked(id)' = {}
        BY <1>1, <1>2, RowViewNext
  <2>3. PhaseOf(c) \in {"WAITING", "SETUP"}
        BY <1>1 DEF PhaseOf
  <2>4. Places(c) \in {2, 4}
        BY <1>1, PlacesOf DEF Battle
  <2> QED BY <1>4, <1>5, <1>6, <2>1, <2>2, <2>3, <2>4, OpenMaps DEF OnlyBattle
<1>7. CASE id \notin Uuids
      BY <1>4, <1>7, NothingMoves
<1> QED BY <1>6, <1>7

LEMMA MovesStep ==
    ASSUME Settled, FitTables', sqlMembers' = sqlMembers, NEW b, NEW c, Moves(b, c),
           b.questions # c.questions => CountByBattle(b.id) = Places(b)
    PROVE  Lifecycle!Next \/ UNCHANGED Lifecycle!vars
<1>0. FitTables /\ TypeInv /\ NoOrphans /\ UniqueMembership /\ IsFiniteSet(members)
      BY DEF Settled, TypeInv
<1>1. /\ b \in battles /\ b.status # "FINISHED" /\ b \in Battle /\ c \in Battle
      /\ c.id = b.id /\ c.type = b.type
      /\ battles' = (battles \ {b}) \cup {c} /\ members' = members
      /\ battleSeq' = battleSeq
      BY <1>0 DEF Moves, Open, TypeInv, TypeOK, PgTypeOK
<1>2. PICK id : id = c.id
      OBVIOUS
<1>3. \A j : SameMembers(j)
      BY <1>1 DEF SameMembers, MembersOf
<1>4. \A j \in Uuids \ {id} : SameBattle(j)
  <2>1. ASSUME NEW j \in Uuids \ {id}
        PROVE  SameRow(j)
        BY <1>1, <1>2 DEF SameRow, FindByUUID
  <2> QED BY <1>0, <1>3, <2>1, SameViews
<1>5. LobbyOf(id)' = LobbyOf(id) /\ RecordedOf(id)' = RecordedOf(id)
      BY <1>0, <1>3, SameViews
<1>6. Phase(id) = PhaseOf(b) /\ Room(id) = Places(b) /\ Asked(id) = b.questions
      BY <1>0, <1>1, <1>2, RowView
<1>7. Phase(id)' = PhaseOf(c) /\ Room(id)' = Places(b) /\ Asked(id)' = c.questions
      BY <1>1, <1>2, RowViewNext DEF Places
<1>8. CASE id \notin Uuids
      BY <1>4, <1>8, NothingMoves
<1>9. CASE id \in Uuids
  <2>0. OnlyBattle(id)
        BY <1>4 DEF OnlyBattle
  <2>1. CASE c.status = b.status /\ c.questions = b.questions
    <3>1. SameBattle(id)
          BY <1>5, <1>6, <1>7, <2>1 DEF SameBattle, PhaseOf
    <3> QED BY <1>4, <3>1, NothingMoves
  <2>2. CASE b.status = "WAITING" /\ c.status = "ON_QUEUE" /\ c.questions = b.questions
        BY <1>5, <1>6, <1>7, <1>9, <2>0, <2>2, CloseMaps DEF PhaseOf
  <2>3. CASE b.status = "ON_QUEUE" /\ c.status = "WAITING" /\ c.questions = b.questions
        BY <1>5, <1>6, <1>7, <1>9, <2>0, <2>3, ReopenMaps DEF PhaseOf
  <2>4. CASE /\ b.status # "WAITING" /\ b.questions = {}
             /\ c.status = "ON_GOING" /\ c.questions \in QuestionSets \ {{}}
    <3>1. Phase(id) \in {"SETUP", "ON_QUEUE"} /\ Phase(id)' = "ON_GOING"
          BY <1>1, <1>6, <1>7, <2>4 DEF PhaseOf, Battle, BattleStatus
    <3>2. Cardinality(LobbyOf(id)) = Room(id)
          BY <1>0, <1>1, <1>2, <1>6, <2>4, LobbyCounts
    <3> QED BY <1>5, <1>6, <1>7, <1>9, <2>0, <2>4, <3>1, <3>2, StartMaps
  <2>5. CASE /\ b.status = "ON_GOING" /\ b.questions # {}
             /\ c.status = "FINISHED" /\ c.questions = b.questions
        BY <1>5, <1>6, <1>7, <1>9, <2>0, <2>5, FinishMaps DEF PhaseOf
  <2> QED BY <2>1, <2>2, <2>3, <2>4, <2>5 DEF Moves, Turn
<1> QED BY <1>8, <1>9

-----------------------------------------------------------------------------
(* Who the members are *)

\* Members are students: requesters or bots.
Enrolled == \A m \in members : m.student \in Students

LEMMA EntrantsEnrolled ==
    ASSUME ~Faults, Settled, NEW m, Enters(m), [Next]_vars
    PROVE  m.student \in Students
<1>1. m \in members' /\ m.id = memberSeq + 1 /\ memberSeq' = memberSeq + 1
      BY DEF Enters
<1>2. \A n \in members : n.id # m.id
      BY <1>1 DEF Settled, FitTables, TypeInv, TypeOK, PgTypeOK, BattleMember
<1>3. memberSeq' # memberSeq
      BY <1>1 DEF Settled, TypeInv, TypeOK, PgTypeOK
<1>4. ASSUME NEW h \in Handlers, Arrive(h)
      PROVE  FALSE
      BY <1>3, <1>4, ArrivalMoves DEF Arrive, pgVars, Settled, TypeInv, TypeOK
<1>5. ASSUME NEW h \in Handlers, Handle(h)
      PROVE  m.student \in Students
  <2>1. Joins(h) /\ handler[h].student \in Students
        BY <1>5, HandlerJoins, HandlerMoves DEF Handle, Settled, TypeInv, StudentsAtWork
  <2> QED BY <1>1, <1>2, <2>1 DEF Joins, Students
<1>6. CASE Kick
      BY <1>3, <1>6 DEF Kick, KickerStep, KickScan, KickLoad, KickDeleteMembers,
                        KickDeleteBattle, KickMember, KickReset, KickUnconfirm, pgVars
<1>7. CASE End
      BY <1>3, <1>7 DEF End, EnderStep, ScanExpired, LoadExpired, DropMembers, DropBattle,
                        ScanIdle, LoadIdle, SaveIdle, ScanFinished, LoadFinished,
                        SavePgBattle, SavePgMember, SaveSqlBattle, SaveSqlMember,
                        UpsertStats, pgVars
<1>8. CASE Fault \/ UNCHANGED vars
      BY <1>3, <1>8 DEF Fault, vars, pgVars
<1> QED BY <1>4, <1>5, <1>6, <1>7, <1>8 DEF Next

LEMMA EnrolledStep ==
    ASSUME OneAtATime, Settled, SomeMove, Enrolled, [Next]_vars
    PROVE  Enrolled'
<1>1. ASSUME NEW m, Enters(m)
      PROVE  Enrolled'
  <2>1. m.student \in Students
        BY <1>1, EntrantsEnrolled DEF OneAtATime
  <2> QED BY <1>1, <2>1 DEF Enters, Enrolled
<1>2. ASSUME NEW m, NEW n, Writes(m, n)
      PROVE  Enrolled'
      BY <1>2 DEF Writes, Enrolled
<1>3. CASE members' \subseteq members
      BY <1>3 DEF Enrolled
<1>4. ASSUME NEW b, NEW c, Moves(b, c)
      PROVE  members' \subseteq members
      BY <1>4 DEF Moves
<1> QED BY <1>1, <1>2, <1>3, <1>4
        DEF SomeMove, OpenMove, Opens, Removes, Deletes, pgVars

-----------------------------------------------------------------------------
(* A move as a step of BattleLifecycle *)

LEMMA EntersStep ==
    ASSUME Settled, FitTables', sqlMembers' = sqlMembers, NEW m, Enters(m),
           m.student \in Students,
           \A r \in battles : r.id = m.battle => CountByBattle(r.id) < Places(r)
    PROVE  Lifecycle!Next \/ UNCHANGED Lifecycle!vars
<1>0. /\ FitTables /\ TypeInv /\ UniqueMembership /\ IsFiniteSet(members)
      /\ battles \subseteq Battle
      BY DEF Settled, TypeInv, TypeOK, PgTypeOK
<1>1. /\ members' = members \cup {m} /\ battles' = battles /\ battleSeq' = battleSeq
      /\ ~ExistsInBattle(m.battle, m.student)
      BY DEF Enters
<1>2. PICK id : id = m.battle
      OBVIOUS
<1>3. PICK r \in battles : r.id = id /\ r.questions = {}
      BY <1>2 DEF Enters
<1>4. \A j : SameRow(j)
      BY <1>1 DEF SameRow, FindByUUID
<1>5. \A j \in Uuids \ {id} : SameBattle(j)
  <2>1. ASSUME NEW j \in Uuids \ {id}
        PROVE  SameMembers(j)
        BY <1>1, <1>2 DEF SameMembers, MembersOf
  <2> QED BY <1>0, <1>4, <2>1, SameViews
<1>6. /\ Phase(id)' = Phase(id) /\ Room(id)' = Room(id) /\ Asked(id)' = Asked(id)
      /\ RecordedOf(id)' = RecordedOf(id)
      BY <1>0, <1>4, SameViews
<1>7. Phase(id) \in {"SETUP", "WAITING", "ON_QUEUE"} /\ Room(id) = Places(r)
  <2>1. Phase(id) = PhaseOf(r) /\ Room(id) = Places(r)
        BY <1>0, <1>3, RowView
  <2>2. r.status # "FINISHED" /\ r.status \in BattleStatus
        BY <1>0, <1>3 DEF FitTables, RowFits, Battle
  <2> QED BY <1>3, <2>1, <2>2 DEF PhaseOf, BattleStatus
<1>8. Cardinality(LobbyOf(id)) < Room(id)
      BY <1>0, <1>2, <1>3, <1>7, LobbyCounts
<1>9. m.student \notin LobbyOf(id) /\ LobbyOf(id)' = LobbyOf(id) \cup {m.student}
      BY <1>1, <1>2 DEF LobbyOf, MembersOf, ExistsInBattle, FindByBattleAndStudent
<1>10. CASE id \notin Uuids
       BY <1>5, <1>10, NothingMoves
<1>11. CASE id \in Uuids
       BY <1>5, <1>6, <1>7, <1>8, <1>9, <1>11, JoinMaps DEF OnlyBattle
<1> QED BY <1>10, <1>11

LEMMA WritesStep ==
    ASSUME FitTables, FitTables', sqlMembers' = sqlMembers, NEW m, NEW n, Writes(m, n)
    PROVE  UNCHANGED Lifecycle!vars
<1>1. /\ members' = (members \ {m}) \cup {n} /\ m \in members
      /\ n.battle = m.battle /\ n.student = m.student
      /\ battles' = battles /\ battleSeq' = battleSeq
      BY DEF Writes
<1>2. ASSUME NEW id \in Uuids
      PROVE  SameBattle(id)
  <2>1. SameRow(id)
        BY <1>1 DEF SameRow, FindByUUID
  <2>2. LobbyOf(id)' = LobbyOf(id)
        BY <1>1 DEF LobbyOf, MembersOf
  <2> QED BY <2>1, <2>2, SameViews DEF SameBattle
<1> QED BY <1>2, NothingMoves

LEMMA VacatesStep ==
    ASSUME Settled, Enrolled, FitTables', sqlMembers' = sqlMembers, NEW b, NEW gone, Vacates(b, gone)
    PROVE  Lifecycle!Next \/ UNCHANGED Lifecycle!vars
<1>0. /\ FitTables /\ TypeInv /\ UniqueMembership /\ battles \subseteq Battle
      BY DEF Settled, TypeInv, TypeOK, PgTypeOK
<1>1. /\ members' = members \ gone /\ gone \subseteq MembersOf(b.id)
      /\ battles' = battles /\ battleSeq' = battleSeq
      /\ b \in battles /\ b.status # "FINISHED" /\ b.status \in BattleStatus
      BY <1>0 DEF Vacates, Removes, Open, Battle
<1>2. PICK id : id = b.id
      OBVIOUS
<1>3. \A j : SameRow(j)
      BY <1>1 DEF SameRow, FindByUUID
<1>4. \A j \in Uuids \ {id} : SameBattle(j)
  <2>1. ASSUME NEW j \in Uuids \ {id}
        PROVE  SameMembers(j)
        BY <1>1, <1>2 DEF SameMembers, MembersOf
  <2> QED BY <1>0, <1>3, <2>1, SameViews
<1>5. /\ Phase(id)' = Phase(id) /\ Room(id)' = Room(id) /\ Asked(id)' = Asked(id)
      /\ RecordedOf(id)' = RecordedOf(id)
      BY <1>0, <1>3, SameViews
<1>6. Phase(id) = PhaseOf(b)
      BY <1>0, <1>1, <1>2, RowView
<1>7. CASE id \notin Uuids
      BY <1>4, <1>7, NothingMoves
<1>8. CASE id \in Uuids /\ gone = MembersOf(b.id)
  <2>1. LobbyOf(id)' = {}
        BY <1>1, <1>2, <1>8 DEF LobbyOf, MembersOf
  <2>2. Phase(id) \in {"SETUP", "WAITING", "ON_QUEUE", "ON_GOING"}
        BY <1>1, <1>6 DEF PhaseOf, BattleStatus
  <2> QED BY <1>4, <1>5, <1>8, <2>1, <2>2, AbandonMaps DEF OnlyBattle
<1>9. CASE gone = {}
  <2>1. \A j : SameMembers(j)
        BY <1>1, <1>9 DEF SameMembers, MembersOf
  <2> QED BY <1>0, <1>3, <2>1, SameViews, NothingMoves
<1>10. ASSUME id \in Uuids, b.status \in {"WAITING", "ON_QUEUE"}, NEW m, gone = {m}
       PROVE  Lifecycle!Next
  <2>1. m \in members /\ m.battle = id
        BY <1>1, <1>2, <1>10 DEF MembersOf
  <2>2. m.student \in LobbyOf(id) /\ LobbyOf(id)' = LobbyOf(id) \ {m.student}
        BY <1>0, <1>1, <1>10, <2>1 DEF LobbyOf, MembersOf, UniqueMembership
  <2>3. Phase(id) \in {"WAITING", "ON_QUEUE"}
        BY <1>6, <1>10 DEF PhaseOf
  <2>4. m.student \in Students
        BY <2>1 DEF Enrolled
  <2> QED BY <1>4, <1>5, <1>10, <2>2, <2>3, <2>4, LeaveMaps DEF OnlyBattle
<1> QED BY <1>7, <1>8, <1>9, <1>10 DEF Vacates

LEMMA DeletesStep ==
    ASSUME Settled, FitTables', sqlMembers' = sqlMembers, NEW b, Deletes(b),
           MembersOf(b.id) = {}
    PROVE  Lifecycle!Next \/ UNCHANGED Lifecycle!vars
<1>0. /\ FitTables /\ TypeInv /\ battles \subseteq Battle
      BY DEF Settled, TypeInv, TypeOK, PgTypeOK
<1>1. /\ battles' = battles \ {b} /\ members' = members /\ battleSeq' = battleSeq
      /\ b \in battles /\ b.status # "FINISHED" /\ b.status \in BattleStatus
      BY <1>0 DEF Deletes, Open, Battle
<1>2. PICK id : id = b.id
      OBVIOUS
<1>3. \A j : SameMembers(j)
      BY <1>1 DEF SameMembers, MembersOf
<1>4. \A j \in Uuids \ {id} : SameBattle(j)
  <2>1. ASSUME NEW j \in Uuids \ {id}
        PROVE  SameRow(j)
        BY <1>1, <1>2 DEF SameRow, FindByUUID
  <2> QED BY <1>0, <1>3, <2>1, SameViews
<1>5. /\ LobbyOf(id)' = LobbyOf(id) /\ RecordedOf(id)' = RecordedOf(id)
      /\ LobbyOf(id) = {}
      BY <1>0, <1>2, <1>3, SameViews DEF LobbyOf
<1>6. Phase(id) \in {"SETUP", "WAITING", "ON_QUEUE", "ON_GOING"}
  <2>1. Phase(id) = PhaseOf(b)
        BY <1>0, <1>1, <1>2, RowView
  <2> QED BY <1>1, <2>1 DEF PhaseOf, BattleStatus
<1>7. Phase(id)' = "GONE" /\ Room(id)' = 0 /\ Asked(id)' = {}
  <2>1. FindByUUID(id)' = {}
        BY <1>0, <1>1, <1>2 DEF FindByUUID, FitTables
  <2>2. id <= battleSeq'
        BY <1>1, <1>2 DEF Settled, SoundCopies, Sound
  <2> QED BY <2>1, <2>2 DEF Phase, Room, Asked
<1>8. CASE id \notin Uuids
      BY <1>4, <1>8, NothingMoves
<1>9. CASE id \in Uuids
      BY <1>4, <1>5, <1>6, <1>7, <1>9, RemoveMaps DEF OnlyBattle
<1> QED BY <1>8, <1>9

LEMMA RecordsStep ==
    ASSUME Settled, Enrolled, FitTables', Records
    PROVE  Lifecycle!Next \/ UNCHANGED Lifecycle!vars
<1>0. FitTables
      BY DEF Settled
<1>1. battles' = battles /\ members' = members /\ battleSeq' = battleSeq
      BY DEF Records, pgVars
<1>2. PICK b, m :
         /\ b \in battles /\ b.status = "FINISHED" /\ m \in MembersOf(b.id)
         /\ sqlMembers' = {x \in sqlMembers : ~(x.battle = b.id /\ x.student = m.student)}
                          \cup {SqlRow(b, m)}
      BY DEF Records, RowsWith
<1>3. PICK id, p : id = b.id /\ p = m.student
      OBVIOUS
<1>4. \A j : SameRow(j) /\ SameMembers(j)
      BY <1>1 DEF SameRow, FindByUUID, SameMembers, MembersOf
<1>5. \A j : RecordedOf(j)' = IF j = id THEN RecordedOf(id) \cup {p} ELSE RecordedOf(j)
  <2>1. PICK row : row = SqlRow(b, m)
        OBVIOUS
  <2>2. row.battle = id /\ row.student = p
        BY <1>3, <2>1 DEF SqlRow
  <2>3. sqlMembers' = {x \in sqlMembers : ~(x.battle = id /\ x.student = p)} \cup {row}
        BY <1>2, <1>3, <2>1
  <2> QED BY <2>2, <2>3 DEF RecordedOf
<1>6. \A j : /\ Phase(j)' = Phase(j) /\ Room(j)' = Room(j) /\ Asked(j)' = Asked(j)
             /\ LobbyOf(j)' = LobbyOf(j)
      BY <1>0, <1>4, SameViews
<1>7. \A j \in Uuids \ {id} : SameBattle(j)
      BY <1>5, <1>6 DEF SameBattle
<1>8. CASE id \notin Uuids
      BY <1>7, <1>8, NothingMoves
<1>9. CASE p \in RecordedOf(id)
  <2>1. SameBattle(id)
        BY <1>5, <1>6, <1>9 DEF SameBattle
  <2> QED BY <1>7, <2>1, NothingMoves
<1>10. CASE id \in Uuids /\ p \notin RecordedOf(id)
  <2>1. Phase(id) = "FINISHED"
        BY <1>0, <1>2, <1>3, RowView DEF PhaseOf
  <2>2. p \in LobbyOf(id)
        BY <1>2, <1>3 DEF LobbyOf
  <2>3. p \in Students
        BY <1>2, <1>3 DEF Enrolled, MembersOf
  <2>4. RecordedOf(id)' = RecordedOf(id) \cup {p}
        BY <1>5
  <2> QED BY <1>6, <1>7, <1>10, <2>1, <2>2, <2>3, <2>4, RecordMaps DEF OnlyBattle
<1> QED BY <1>8, <1>9, <1>10

LEMMA LifecycleStep ==
    ASSUME Settled, FitTables', Enrolled, Enrolled',
           \/ RoomyMove /\ sqlMembers' = sqlMembers
           \/ Records
    PROVE  Lifecycle!Next \/ UNCHANGED Lifecycle!vars
<1>0. FitTables
      BY DEF Settled
<1>1. CASE UNCHANGED pgVars /\ sqlMembers' = sqlMembers
  <2>1. \A j : SameRow(j) /\ SameMembers(j)
        BY <1>1 DEF pgVars, SameRow, FindByUUID, SameMembers, MembersOf
  <2> QED BY <1>0, <1>1, <2>1, SameViews, NothingMoves
<1>2. ASSUME sqlMembers' = sqlMembers, NEW m, Enters(m),
             \A r \in battles : r.id = m.battle => CountByBattle(r.id) < Places(r)
      PROVE  Lifecycle!Next \/ UNCHANGED Lifecycle!vars
  <2>1. m.student \in Students
        BY <1>2 DEF Enters, Enrolled
  <2> QED BY <1>2, <2>1, EntersStep
<1> QED BY <1>0, <1>1, <1>2, OpenStep, MovesStep, WritesStep, VacatesStep, DeletesStep,
           RecordsStep
        DEF RoomyMove

LEMMA LifecycleInit ==
    ASSUME Init
    PROVE  Lifecycle!Init
<1>1. battles = {} /\ members = {} /\ sqlMembers = {} /\ battleSeq = 0
      BY DEF Init, PgInit, SqlInit
<1>2. ASSUME NEW id \in Uuids
      PROVE  /\ Phase(id) = "NONE" /\ Room(id) = 0 /\ Asked(id) = {}
             /\ {m.student : m \in MembersOf(id)} = {}
             /\ {r.student : r \in {x \in sqlMembers : x.battle = id}} = {}
      BY <1>1 DEF Phase, Room, Asked, FindByUUID, MembersOf, Uuids
<1> QED BY <1>2 DEF Lifecycle!Init

\* Every battle keeps the promises of BattleLifecycle (docs/BATTLE_API.md, docs/ADR.md):
\* it fills up to its size, closes, starts full or reopens, keeps its questions and its
\* players until it is abandoned or finished, and each result is recorded once; when
\* requests and ticks do not overlap, nothing fails, clients confirm only ON_QUEUE
\* battles and the question reader finds questions.
THEOREM SystemImplementsLifecycle ==
    OneAtATime /\ QuestionsFound /\ Spec => ImplementsLifecycle
<1>1. Init => Lifecycle!Init /\ Enrolled
      BY LifecycleInit DEF Init, PgInit, Enrolled
<1>2. /\ OneAtATime /\ Settled /\ Alone /\ SerialInv /\ Enrolled /\ [Next]_vars
      => Enrolled'
      BY SerialStep, EnrolledStep
<1>3. /\ OneAtATime /\ QuestionsFound /\ Settled /\ Alone /\ SerialInv /\ RoomInv
      /\ Enrolled /\ Enrolled' /\ SerialInv' /\ [Next]_vars
      => [Lifecycle!Next]_(Lifecycle!vars)
      BY RoomStep, LifecycleStep DEF SerialInv
<1>4. OneAtATime /\ QuestionsFound => (OneAtATime /\ QuestionsFound)' /\ Exclusive
      BY DEF OneAtATime, QuestionsFound
<1>5. /\ TypeInv /\ SoundCopies /\ SingleCopies /\ UniqueMembership /\ NoOrphans
      /\ SerialInv
      => Settled
      BY DEF Settled, SerialInv
<1> QED BY TypeInvariant, CopiesAreSound, CopiesAreSingle, MembershipIsUnique,
           MembersHaveBattles, OneProcessAtWork, CopiesAreExact, BattlesHaveRoom,
           <1>1, <1>2, <1>3, <1>4, <1>5, PTL DEF Spec, ImplementsLifecycle, Lifecycle!Spec
=============================================================================
