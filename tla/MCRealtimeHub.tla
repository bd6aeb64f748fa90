---------------------------- MODULE MCRealtimeHub ----------------------------
(* Constants for model checking the realtime events. *)
EXTENDS RealtimeHub

CONSTANTS b1, b2, s1, s2

TwoMembers == {<<s1, s2>>}
SameBattle == [c \in Conns |-> b1]
=============================================================================
