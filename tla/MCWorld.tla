------------------------------- MODULE MCWorld -------------------------------
(***************************************************************************)
(* TLC instance of World: the layers, tile size and noise of the program,  *)
(* with worlds a little higher than the last layer.                        *)
(***************************************************************************)
EXTENDS World, TLC

MCHeightData == 0 :> 0 @@ 16 :> 1 @@ 28 :> 2 @@ 64 :> 3
MCSizes == {<<400, 74>>, <<40, 60>>, <<256, 50>>}
=============================================================================
