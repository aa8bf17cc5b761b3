---------------------------- MODULE MCAutoSpawn ----------------------------
(* Instances of AutoSpawn for TLC. *)
EXTENDS AutoSpawn, TLC

CONSTANTS c1, c2, k1

OneClient == c1 :> k1 @@ c2 :> k1
=============================================================================
