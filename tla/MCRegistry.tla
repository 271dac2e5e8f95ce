----------------------------- MODULE MCRegistry -----------------------------
(* An instance of Registry for TLC.                                          *)
EXTENDS Registry, TLC

CONSTANTS t1, k1, k2

(* The ids of the two keys collide, so the keys are interchangeable.         *)
DeviceIDs == k1 :> "id" @@ k2 :> "id"
Symmetry == Permutations({k1, k2})
=============================================================================
