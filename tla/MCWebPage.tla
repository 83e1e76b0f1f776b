------------------------------ MODULE MCWebPage ------------------------------
(* The page alone, for what its documentation says of it.                  *)
EXTENDS WebPage
=============================================================================
