------------------------------ MODULE MCNetMsg -------------------------------
(***************************************************************************)
(* TLC instance of NetMsg: every message of up to three fields, numbers of *)
(* one and two bytes and strings of up to three, starting with every size  *)
(* up to five; small enough packets for some writes to be refused.         *)
(***************************************************************************)
EXTENDS NetMsg

MCFields == [kind : {"number"}, len : {1, 2}] \cup [kind : {"string"}, len : 0 .. 3]
MCMessages ==
    [size : 1 .. 5, fields : UNION {[1 .. n -> MCFields] : n \in 0 .. 3}]
=============================================================================
