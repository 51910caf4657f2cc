----------------------------- MODULE MCBootstrap -----------------------------
(* Users come from the configurations.                                      *)
EXTENDS Bootstrap
=============================================================================
