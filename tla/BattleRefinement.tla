-------------------------- MODULE BattleRefinement --------------------------
(***************************************************************************)
(* How a state of the system is read as a state of BattleLifecycle: the    *)
(* row of a battle gives its phase, its member rows the lobby, and MySQL   *)
(* the recorded results.                                                   *)
(***************************************************************************)
EXTENDS BattleSystem

Uuids == 1..Budget["find"]

RowOf(id) == CHOOSE b \in battles : b.id = id

Phase(id) ==
    IF FindByUUID(id) = {} THEN IF id <= battleSeq THEN "GONE" ELSE "NONE"
    ELSE IF RowOf(id).status = "ON_GOING" /\ RowOf(id).questions = {} THEN "SETUP"
    ELSE RowOf(id).status

Room(id) == IF FindByUUID(id) = {} THEN 0 ELSE BattleMemberCount[RowOf(id).type]

Asked(id) ==
    IF FindByUUID(id) = {} THEN {} ELSE RowOf(id).questions

Lifecycle ==
    INSTANCE BattleLifecycle WITH
        Battles <- Uuids,
        Players <- Students,
        phase <- [id \in Uuids |-> Phase(id)],
        room <- [id \in Uuids |-> Room(id)],
        lobby <- [id \in Uuids |-> {m.student : m \in MembersOf(id)}],
        asked <- [id \in Uuids |-> Asked(id)],
        recorded <- [id \in Uuids |->
                        {r.student : r \in {x \in sqlMembers : x.battle = id}}]

\* Every battle keeps the promises of BattleLifecycle, when clients confirm only
\* ON_QUEUE battles, handlers and ticks do not overlap, and questions are found.
ImplementsLifecycle == Lifecycle!Spec
=============================================================================
