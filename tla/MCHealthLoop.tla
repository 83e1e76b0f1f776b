----------------------------- MODULE MCHealthLoop -----------------------------
(* The health loop alone, for what the documentation says of it.            *)
EXTENDS HealthLoop
=============================================================================
