-------------------------- MODULE MCExportBatches --------------------------
(* Instances of ExportBatches for TLC: two requests, on one replica or on     *)
(* one replica each.                                                          *)
EXTENDS ExportBatches, TLC

CONSTANTS r1, r2, p1, p2

OneReplica  == r1 :> p1 @@ r2 :> p1
TwoReplicas == r1 :> p1 @@ r2 :> p2

\* Two replicas may be swapped together with the requests they serve.
SwapReplicas == r1 :> r2 @@ r2 :> r1 @@ p1 :> p2 @@ p2 :> p1
DataSymmetry == Permutations(Doc) \union Permutations(Key)
Symmetry     == DataSymmetry \union {SwapReplicas}
=============================================================================
