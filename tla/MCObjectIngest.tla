--------------------------- MODULE MCObjectIngest ---------------------------
(***************************************************************************)
(* Instances of ObjectIngest for TLC.                                      *)
(***************************************************************************)
EXTENDS ObjectIngest, TLC

CONSTANTS platform, b1, k1, k2, r1, r2, c1, c2

(* Every key is always routed to one storage: k2's to a binding.           *)
StableRoutes == [k \in Keys |-> IF k = k2 THEN {b1} ELSE {platform}]

Symmetry == Permutations(Runners)
=============================================================================
