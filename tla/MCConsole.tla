------------------------------ MODULE MCConsole ------------------------------
(***************************************************************************)
(* TLC instance of Console: three lines, two convars at the start and two  *)
(* names that no convar has yet.                                           *)
(***************************************************************************)
EXTENDS Console

CONSTANTS v0, v2

MCStartCvars == <<[name |-> "netMode", value |-> v2], [name |-> "map", value |-> v0]>>
MCNames == {"netMode", "map", "foo", "bar"}
=============================================================================
