------------------------------ MODULE MCServer -------------------------------
(***************************************************************************)
(* TLC instances of Server.  A user name can spell an address: that is the *)
(* only way a hello is ever found to be a duplicate.                       *)
(***************************************************************************)
EXTENDS Server

CONSTANTS p1, p2, p3, a1, a2, a3, bob, o1, o2, o3, o4

MCPeers == {p1, p2, p3}
MCAddrs == {a1, a2, a3}
MCUsernames == {bob, a1}
MCPtrs == {o1, o2, o3, o4}
ThreePtrs == {o1, o2, o3}
TwoPeers == {p1, p2}
OneName == {bob}

\* An address for each peer; one address for two.
OwnAddress == [p \in MCPeers |-> IF p = p1 THEN a1 ELSE IF p = p2 THEN a2 ELSE a3]

TwoApart == [p \in TwoPeers |-> IF p = p1 THEN a1 ELSE a2]
TwoSharing == [p \in TwoPeers |-> a1]

NoValues == {}
Limits == {1, 5}
=============================================================================
