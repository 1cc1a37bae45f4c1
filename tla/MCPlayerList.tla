---------------------------- MODULE MCPlayerList -----------------------------
(***************************************************************************)
(* TLC instance of PlayerList: four slots, three players of whom two are   *)
(* behind one address.                                                     *)
(***************************************************************************)
EXTENDS PlayerList

CONSTANTS p1, p2, p3, a1, a2, o1, o2, o3, o4

MCPlayers == {p1, p2, p3}
MCNames == {a1, a2}
MCNameOf == [p \in MCPlayers |-> IF p = p3 THEN a2 ELSE a1]
MCPtrs == {o1, o2, o3, o4}
=============================================================================
