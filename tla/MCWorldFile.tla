----------------------------- MODULE MCWorldFile -----------------------------
(***************************************************************************)
(* TLC instance of WorldFile: two worlds of three bytes.                   *)
(***************************************************************************)
EXTENDS WorldFile

CONSTANTS s1, s2

MCSeeds == {s1, s2}
=============================================================================
