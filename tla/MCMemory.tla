------------------------------ MODULE MCMemory -------------------------------
(***************************************************************************)
(* TLC instance of Memory: the two threads of the program, blocks smaller  *)
(* and larger than a pointer.                                              *)
(***************************************************************************)
EXTENDS Memory

CONSTANTS main, input, o1, o2, o3

MCThreads == {main, input}
MCPtrs == {o1, o2, o3}
=============================================================================
