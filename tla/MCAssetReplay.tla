--------------------------- MODULE MCAssetReplay ---------------------------
(* Instances of AssetReplay for TLC. *)
EXTENDS AssetReplay

\* Scopes are used alike.
ScopeSymmetry == Permutations(Scopes)

\* The hybrid method, where activities have scopes, takes shorter histories.
MostActivities == [m \in Methods |-> IF m = "hybrid" THEN 4 ELSE 5]
TwoActivities == [m \in Methods |-> 2]
=============================================================================
