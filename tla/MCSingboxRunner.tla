--------------------------- MODULE MCSingboxRunner ---------------------------
(* Model checking SingboxRunner on small instances.                        *)
EXTENDS SingboxRunner, TLC

Slots == Permutations(Runs)
=============================================================================
