---------------------------- MODULE MCNetBuffer -----------------------------
(***************************************************************************)
(* TLC instance of NetBuffer: three slots and five arrivals, so that the   *)
(* buffer overflows with every slot in use and is then refilled.           *)
(***************************************************************************)
EXTENDS NetBuffer

CONSTANTS hello, rpc, p1, p2, p3, p4, p5

MCMsgTypes == {hello, rpc}
MCPayloads == {p1, p2, p3, p4, p5}
=============================================================================
