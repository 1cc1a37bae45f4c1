----------------------------- MODULE MCSession ------------------------------
(***************************************************************************)
(* TLC instances of Session: the client and at most one guest, with an     *)
(* address each, and a world of three chunks.                              *)
(***************************************************************************)
EXTENDS Session

CONSTANTS p1, p2, a1, a2, bob, o1, o2

WithGuest == {p1, p2}
OwnAddrs == [p \in WithGuest |-> IF p = p1 THEN a1 ELSE a2]
MCAddrs == {a1, a2}
MCUsernames == {bob}
MCPtrs == {o1, o2}
NoValues == {}
OtherSizes == {0, 4, 7}
MCServerMsgs == MsgsOfServer
InOrder == {"ordered"}
AnyNetwork == {"ordered", "lossy"}
=============================================================================
