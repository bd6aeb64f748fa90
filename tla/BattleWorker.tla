---------------------------- MODULE BattleWorker ----------------------------
(***************************************************************************)
(* The worker process (cmd/worker) and the EndBattle service it drives.    *)
(* Two loops run side by side: the kicker, over lobbies that expired       *)
(* before everyone confirmed, and the ender, whose tick has three passes:  *)
(* battles past their end_time, idle members, battles everyone finished.   *)
(*                                                                         *)
(* A pass works through the rows its query returned, one repository call   *)
(* per step, while requests and the other loop change the tables.  Which   *)
(* rows are past their time is the clock's choice: a query returns any     *)
(* subset of those whose time is set.                                      *)
(***************************************************************************)
EXTENDS PgStore, ResultStore

VARIABLES
    kicker,   \* the kick loop: where it is, and its local variables
    ender     \* the end loop: where it is, and its local variables

workerVars == <<kicker, ender>>

KickerLabels ==
    {"scan", "load", "deleteMembers", "deleteBattle", "kick", "reset", "unconfirm"}

EnderLabels ==
    {"scanExpired", "loadExpired", "dropMembers", "dropBattle",
     "scanIdle", "loadIdle", "saveIdle", "scanFinished", "loadFinished",
     "saveBattle", "saveMembers", "sqlBattle", "sqlMembers", "sqlStats"}

\* todo: battles of the pass not yet worked through; b: the one at hand; kicked:
\* members still to delete; left: remaining members not yet reset.
KickerState ==
    [at : KickerLabels, todo : SUBSET Battle, b : Battle,
     kicked : SUBSET BattleMember, left : SUBSET BattleMember]

\* pass: the pass at work; idle: the rows whose idle time was up when the idle
\* pass took its `now`; ms: the members of b with their final results; left: those
\* the loop at hand has not come to.
EnderState ==
    [at : EnderLabels, pass : {"Expired", "Idle", "Finished"},
     todo : SUBSET Battle, idle : SUBSET BattleMember, b : Battle,
     ms : SUBSET BattleMember, left : SUBSET BattleMember]

KickerIdle ==
    [at |-> "scan", todo |-> {}, b |-> NoBattle, kicked |-> {}, left |-> {}]

EnderIdle ==
    [at |-> "scanExpired", pass |-> "Expired", todo |-> {}, idle |-> {},
     b |-> NoBattle, ms |-> {}, left |-> {}]

WorkerTypeOK ==
    /\ kicker \in KickerState
    /\ ender \in EnderState

WorkerInit ==
    /\ kicker = KickerIdle
    /\ ender = EnderIdle

-----------------------------------------------------------------------------
(* kickExpiredMembers *)

\* The loop goes on with the battles left; after the last it scans again.
KickNext(todo) ==
    kicker' = IF todo = {} THEN KickerIdle
              ELSE [KickerIdle EXCEPT !.at = "load", !.todo = todo]

KickScan ==
    /\ kicker.at = "scan"
    /\ \E expired \in SUBSET MayBeExpiredOnQueue \ {{}} : KickNext(expired)
    /\ UNCHANGED <<pgVars, sqlVars, ender>>

\* Load the members of the next battle and decide.
KickLoad ==
    /\ kicker.at = "load"
    /\ \E b \in kicker.todo :
          LET ms     == MembersOf(b.id)
              kicked == KickExpiredMembers(b, ms)
          IN  kicker' =
                [at     |-> IF ms \ kicked = {} THEN "deleteMembers"
                            ELSE IF kicked = {} THEN "reset" ELSE "kick",
                 todo   |-> kicker.todo \ {b},
                 b      |-> b,
                 kicked |-> IF ms \ kicked = {} THEN {} ELSE kicked,
                 left   |-> ms \ kicked]
    /\ UNCHANGED <<pgVars, sqlVars, ender>>

\* Nobody would remain: the battle goes.  An error is only logged.
KickDeleteMembers ==
    /\ kicker.at = "deleteMembers"
    /\ DeleteByBattle(kicker.b.id)
    /\ kicker' = [kicker EXCEPT !.at = "deleteBattle"]
    /\ UNCHANGED <<battles, battleSeq, memberSeq, sqlVars, ender>>

KickDeleteBattle ==
    /\ kicker.at = "deleteBattle"
    /\ DeleteBattle(kicker.b.id)
    /\ KickNext(kicker.todo)
    /\ UNCHANGED <<battleSeq, memberSeq, sqlVars, ender>>

\* Delete one of the kicked members; an error is only logged.
KickedOne(m) ==
    kicker' = [kicker EXCEPT
        !.kicked = @ \ {m},
        !.at = IF kicker.kicked = {m} THEN "reset" ELSE "kick"]

KickMember ==
    /\ kicker.at = "kick"
    /\ \E m \in kicker.kicked : DeleteMember(m) /\ KickedOne(m)
    /\ UNCHANGED <<battles, battleSeq, memberSeq, sqlVars, ender>>

\* The timer is cleared, the status kept.
ResetTimerOnly(b) == [b EXCEPT !.expire = FALSE]

Reset(b) == [b EXCEPT !.status = "WAITING", !.expire = FALSE]

\* Reset the battle: a Save of the copy the scan returned.  An error, and so a
\* row that is gone, goes on to the next battle.
KickReset ==
    LET b == Reset(kicker.b) IN
    /\ kicker.at = "reset"
    /\ IF BattleStored(b)
         THEN SaveBattle(b) /\ kicker' = [kicker EXCEPT !.b = b, !.at = "unconfirm"]
         ELSE KickNext(kicker.todo) /\ UNCHANGED battles
    /\ UNCHANGED <<members, battleSeq, memberSeq, sqlVars, ender>>

Unconfirmed(m) == [m EXCEPT !.status = "NOT_CONFIRMED"]

UnconfirmedOne(m) ==
    IF kicker.left = {m} THEN KickNext(kicker.todo)
                         ELSE kicker' = [kicker EXCEPT !.left = @ \ {m}]

\* Reset one remaining member; an error is only logged.
KickUnconfirm ==
    /\ kicker.at = "unconfirm"
    /\ \E m \in kicker.left :
          /\ IF MemberStored(m) THEN SaveMember(Unconfirmed(m)) ELSE UNCHANGED members
          /\ UnconfirmedOne(m)
    /\ UNCHANGED <<battles, battleSeq, memberSeq, sqlVars, ender>>

\* A call of the kicker fails: deletes and member resets are skipped, a failed
\* load or Save gives up the battle.
KickError ==
    /\ \/ kicker.at = "load" /\ \E b \in kicker.todo : KickNext(kicker.todo \ {b})
       \/ kicker.at = "deleteMembers" /\ kicker' = [kicker EXCEPT !.at = "deleteBattle"]
       \/ kicker.at \in {"deleteBattle", "reset"} /\ KickNext(kicker.todo)
       \/ kicker.at = "kick" /\ \E m \in kicker.kicked : KickedOne(m)
       \/ kicker.at = "unconfirm" /\ \E m \in kicker.left : UnconfirmedOne(m)
    /\ UNCHANGED <<pgVars, sqlVars, ender>>

KickerStep ==
    \/ KickScan \/ KickLoad \/ KickDeleteMembers \/ KickDeleteBattle
    \/ KickMember \/ KickReset \/ KickUnconfirm

-----------------------------------------------------------------------------
(* The ender's tick: endExpiredBattles, finishIdleMembers, endFinishedBattles *)

AfterPass == [Expired |-> "scanIdle", Idle |-> "scanFinished", Finished |-> "scanExpired"]

LoadLabel == [Expired |-> "loadExpired", Idle |-> "loadIdle", Finished |-> "loadFinished"]

\* A pass goes on with the battles left; after the last comes the next pass.
Work(pass, todo, idle) ==
    ender' = IF todo = {} THEN [EnderIdle EXCEPT !.at = AfterPass[pass]]
             ELSE [EnderIdle EXCEPT !.at = LoadLabel[pass], !.pass = pass,
                                    !.todo = todo, !.idle = idle]

EndNext(pass, todo) == Work(pass, todo, ender.idle)

\* A tick runs the three passes in order.  One whose query returns nothing does
\* nothing, so a pass may begin where the first one would: the passes before it
\* had no work.
PassBegins(at, todo) ==
    \/ ender.at = at
    \/ ender.at = "scanExpired" /\ todo # {}

ScanExpired ==
    /\ \E expired \in SUBSET MayBeOnGoingExpired \ {{}} :
          ender.at = "scanExpired" /\ EndNext("Expired", expired)
    /\ UNCHANGED <<pgVars, sqlVars, kicker>>

\* FindOnGoing, and `now`.  Which members have been idle long enough by then is
\* the clock's choice; battles with none of them need no further look.
ScanIdle ==
    /\ \E idle \in SUBSET {m \in members : \E b \in FindOnGoing :
                             m.battle = b.id /\ MayBeIdle(b, m)} :
          LET todo == {b \in FindOnGoing : \E m \in idle : m.battle = b.id}
          IN  PassBegins("scanIdle", todo) /\ Work("Idle", todo, idle)
    /\ UNCHANGED <<pgVars, sqlVars, kicker>>

ScanFinished ==
    /\ PassBegins("scanFinished", FindOnGoingAllMembersFinished)
    /\ EndNext("Finished", FindOnGoingAllMembersFinished)
    /\ UNCHANGED <<pgVars, sqlVars, kicker>>

\* Nobody's blanks are filled in.
FilledNever(b, ms, fillBlanks) == ms

\* The status stays as it was.
NotFinished(b) == b

\* EndBattleService.Execute up to its first call: blanks, placement, FINISHED.
Filled(b, ms, fillBlanks) ==
    {IF fillBlanks /\ ~m.isFinished THEN FillBlanks(b, m) ELSE m : m \in ms}

Finished(b) == [b EXCEPT !.status = "FINISHED"]

Execute(b, ms, fillBlanks) ==
    \E ranked \in RankedMembers(Filled(b, ms, fillBlanks)) :
        ender' = [ender EXCEPT !.at = "saveBattle", !.todo = @ \ {b},
                               !.b = Finished(b), !.ms = ranked, !.left = ranked]

LoadExpired ==
    /\ ender.at = "loadExpired"
    /\ \E b \in ender.todo :
          LET ms == MembersOf(b.id) IN
          IF ShouldDeleteAIBattle(b, ms)
            THEN ender' = [ender EXCEPT !.at = "dropMembers", !.todo = @ \ {b}, !.b = b]
            ELSE Execute(b, ms, TRUE)
    /\ UNCHANGED <<pgVars, sqlVars, kicker>>

DropMembers ==
    /\ ender.at = "dropMembers"
    /\ DeleteByBattle(ender.b.id)
    /\ ender' = [ender EXCEPT !.at = "dropBattle"]
    /\ UNCHANGED <<battles, battleSeq, memberSeq, sqlVars, kicker>>

DropBattle ==
    /\ ender.at = "dropBattle"
    /\ DeleteBattle(ender.b.id)
    /\ EndNext(ender.pass, ender.todo)
    /\ UNCHANGED <<battleSeq, memberSeq, sqlVars, kicker>>

\* An idle member has still not finished, and its clock has not started anew: no
\* answer was accepted since `now`.
IdleMembers(ms) ==
    {m \in ms : /\ ~m.isFinished
                /\ \E r \in ender.idle : r.id = m.id /\ r.answers = m.answers}

LoadIdle ==
    /\ ender.at = "loadIdle"
    /\ \E b \in ender.todo :
          LET idle == IdleMembers(MembersOf(b.id)) IN
          IF idle = {}
            THEN EndNext("Idle", ender.todo \ {b})
            ELSE ender' = [ender EXCEPT !.at = "saveIdle", !.todo = @ \ {b},
                                        !.b = b, !.left = idle]
    /\ UNCHANGED <<pgVars, sqlVars, kicker>>

\* The loop at hand is done with member m.
LeftAfter(m) == ender.left \ {m}

\* One idle member gets blank answers; an error is only logged.
SaveIdle ==
    /\ ender.at = "saveIdle"
    /\ \E m \in ender.left :
          /\ IF MemberStored(m) THEN SaveMember(FillBlanks(ender.b, m))
                                ELSE UNCHANGED members
          /\ IF LeftAfter(m) = {} THEN EndNext("Idle", ender.todo)
                                  ELSE ender' = [ender EXCEPT !.left = LeftAfter(m)]
    /\ UNCHANGED <<battles, battleSeq, memberSeq, sqlVars, kicker>>

LoadFinished ==
    /\ ender.at = "loadFinished"
    /\ \E b \in ender.todo :
          LET ms == MembersOf(b.id) IN
          IF AllMembersFinished(ms)
            THEN Execute(b, ms, FALSE)
            ELSE EndNext("Finished", ender.todo \ {b})
    /\ UNCHANGED <<pgVars, sqlVars, kicker>>

-----------------------------------------------------------------------------
(* end_battle.go: EndBattleService.Execute, call by call *)

GiveUp == EndNext(ender.pass, ender.todo)

\* After member m the loop goes on, or the next label with all members to do.
EndedOne(m, next) ==
    ender' = IF LeftAfter(m) = {}
               THEN [ender EXCEPT !.at = next, !.left = ender.ms]
               ELSE [ender EXCEPT !.left = LeftAfter(m)]

\* The members are not saved to PostgreSQL.
SavePgBattleOnly ==
    /\ ender.at = "saveBattle"
    /\ IF BattleStored(ender.b)
         THEN SaveBattle(ender.b) /\ ender' = [ender EXCEPT !.at = "sqlBattle"]
         ELSE GiveUp /\ UNCHANGED battles
    /\ UNCHANGED <<members, battleSeq, memberSeq, sqlVars, kicker>>

SavePgBattle ==
    /\ ender.at = "saveBattle"
    /\ IF BattleStored(ender.b)
         THEN /\ SaveBattle(ender.b)
              /\ ender' = [ender EXCEPT
                    !.at = IF ender.ms = {} THEN "sqlBattle" ELSE "saveMembers"]
         ELSE GiveUp /\ UNCHANGED battles
    /\ UNCHANGED <<members, battleSeq, memberSeq, sqlVars, kicker>>

SavePgMember ==
    /\ ender.at = "saveMembers"
    /\ \E m \in ender.left :
          IF MemberStored(m)
            THEN SaveMember(m) /\ EndedOne(m, "sqlBattle")
            ELSE GiveUp /\ UNCHANGED members
    /\ UNCHANGED <<battles, battleSeq, memberSeq, sqlVars, kicker>>

SaveSqlBattle ==
    /\ ender.at = "sqlBattle"
    /\ SqlSaveBattle(ender.b)
    /\ IF ender.ms = {} THEN GiveUp ELSE ender' = [ender EXCEPT !.at = "sqlMembers"]
    /\ UNCHANGED <<pgVars, sqlMembers, studentBattle, kicker>>

SaveSqlMember ==
    /\ ender.at = "sqlMembers"
    /\ \E m \in ender.left : SqlUpdateMember(ender.b, m) /\ EndedOne(m, "sqlStats")
    /\ UNCHANGED <<pgVars, sqlBattles, studentBattle, kicker>>

UpsertStats ==
    /\ ender.at = "sqlStats"
    /\ \E m \in ender.left :
          /\ UpsertStudentBattle(m)
          /\ IF LeftAfter(m) = {} THEN GiveUp
                                  ELSE ender' = [ender EXCEPT !.left = LeftAfter(m)]
    /\ UNCHANGED <<pgVars, sqlBattles, sqlMembers, kicker>>

\* A call of the ender fails: a failed Save of an idle member is skipped, the
\* deletes of an unplayed AI battle go on regardless, any other failure gives up
\* the battle where it is.  (A failed scan is a tick without that pass.)
EndError ==
    /\ \/ /\ ender.at \in {"loadExpired", "loadIdle", "loadFinished"}
          /\ \E b \in ender.todo : EndNext(ender.pass, ender.todo \ {b})
       \/ ender.at = "dropMembers" /\ ender' = [ender EXCEPT !.at = "dropBattle"]
       \/ /\ ender.at = "saveIdle"
          /\ \E m \in ender.left :
                IF LeftAfter(m) = {} THEN EndNext("Idle", ender.todo)
                                     ELSE ender' = [ender EXCEPT !.left = LeftAfter(m)]
       \/ /\ ender.at \in {"dropBattle", "saveBattle", "saveMembers", "sqlBattle",
                           "sqlMembers", "sqlStats"}
          /\ GiveUp
    /\ UNCHANGED <<pgVars, sqlVars, kicker>>

EnderStep ==
    \/ ScanExpired \/ LoadExpired \/ DropMembers \/ DropBattle
    \/ ScanIdle \/ LoadIdle \/ SaveIdle
    \/ ScanFinished \/ LoadFinished
    \/ SavePgBattle \/ SavePgMember
    \/ SaveSqlBattle \/ SaveSqlMember \/ UpsertStats

\* The worker process dies and is started again: both loops start over.
WorkerCrash ==
    /\ <<kicker, ender>> # <<KickerIdle, EnderIdle>>
    /\ kicker' = KickerIdle
    /\ ender' = EnderIdle
    /\ UNCHANGED <<pgVars, sqlVars>>
=============================================================================
