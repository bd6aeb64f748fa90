--------------------------- MODULE BattleLifecycle ---------------------------
(***************************************************************************)
(* What a battle promises its players (docs/BATTLE_API.md, docs/ADR.md):   *)
(* a lobby fills up to the size of its type, closes, and either reopens or *)
(* starts when it is full; the questions are frozen at the start; a battle *)
(* that has started keeps its players until it is abandoned or finished;   *)
(* once it is finished nothing moves but the results, recorded for each    *)
(* player once.                                                            *)
(***************************************************************************)
EXTENDS Naturals, FiniteSets

CONSTANTS Battles, Players, QuestionSets

VARIABLES
    phase,     \* phase[b]
    room,      \* room[b]: how many players the battle is for
    lobby,     \* lobby[b]: its players
    asked,     \* asked[b]: its questions
    recorded   \* recorded[b]: the players whose result is stored

vars == <<phase, room, lobby, asked, recorded>>

Phases == {"NONE", "SETUP", "WAITING", "ON_QUEUE", "ON_GOING", "FINISHED", "GONE"}

Init ==
    /\ phase = [b \in Battles |-> "NONE"]
    /\ room = [b \in Battles |-> 0]
    /\ lobby = [b \in Battles |-> {}]
    /\ asked = [b \in Battles |-> {}]
    /\ recorded = [b \in Battles |-> {}]

Move(b, from, to) ==
    /\ phase[b] \in from
    /\ phase' = [phase EXCEPT ![b] = to]

\* A lobby opens; a battle against a bot is set up without one.
Open(b, n) ==
    /\ Move(b, {"NONE"}, "WAITING") \/ Move(b, {"NONE"}, "SETUP")
    /\ room' = [room EXCEPT ![b] = n]
    /\ UNCHANGED <<lobby, asked, recorded>>

Join(b, p) ==
    /\ phase[b] \in {"SETUP", "WAITING", "ON_QUEUE"}
    /\ p \notin lobby[b]
    /\ Cardinality(lobby[b]) < room[b]
    /\ lobby' = [lobby EXCEPT ![b] = @ \cup {p}]
    /\ UNCHANGED <<phase, room, asked, recorded>>

\* A player leaves the lobby, or is kicked.
Leave(b, p) ==
    /\ phase[b] \in {"WAITING", "ON_QUEUE"}
    /\ p \in lobby[b]
    /\ lobby' = [lobby EXCEPT ![b] = @ \ {p}]
    /\ UNCHANGED <<phase, room, asked, recorded>>

Close(b) ==
    /\ Move(b, {"WAITING"}, "ON_QUEUE")
    /\ UNCHANGED <<room, lobby, asked, recorded>>

Reopen(b) ==
    /\ Move(b, {"ON_QUEUE"}, "WAITING")
    /\ UNCHANGED <<room, lobby, asked, recorded>>

Start(b, questions) ==
    /\ Move(b, {"SETUP", "ON_QUEUE"}, "ON_GOING")
    /\ Cardinality(lobby[b]) = room[b]
    /\ questions # {}
    /\ asked' = [asked EXCEPT ![b] = questions]
    /\ UNCHANGED <<room, lobby, recorded>>

Finish(b) ==
    /\ Move(b, {"ON_GOING"}, "FINISHED")
    /\ UNCHANGED <<room, lobby, asked, recorded>>

Record(b, p) ==
    /\ phase[b] = "FINISHED"
    /\ p \in lobby[b] \ recorded[b]
    /\ recorded' = [recorded EXCEPT ![b] = @ \cup {p}]
    /\ UNCHANGED <<phase, room, lobby, asked>>

\* A battle nobody will finish is emptied, and then removed.
Abandon(b) ==
    /\ phase[b] \in {"SETUP", "WAITING", "ON_QUEUE", "ON_GOING"}
    /\ lobby' = [lobby EXCEPT ![b] = {}]
    /\ UNCHANGED <<phase, room, asked, recorded>>

Remove(b) ==
    /\ Move(b, {"SETUP", "WAITING", "ON_QUEUE", "ON_GOING"}, "GONE")
    /\ lobby[b] = {}
    /\ room' = [room EXCEPT ![b] = 0]
    /\ asked' = [asked EXCEPT ![b] = {}]
    /\ UNCHANGED <<lobby, recorded>>

Next ==
    \E b \in Battles :
        \/ \E n \in {2, 4} : Open(b, n)
        \/ \E p \in Players : Join(b, p) \/ Leave(b, p) \/ Record(b, p)
        \/ \E questions \in QuestionSets : Start(b, questions)
        \/ Close(b) \/ Reopen(b) \/ Finish(b) \/ Abandon(b) \/ Remove(b)

Spec == Init /\ [][Next]_vars
=============================================================================
