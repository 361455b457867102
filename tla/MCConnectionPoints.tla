-------------------------- MODULE MCConnectionPoints -------------------------
(* Instances of ConnectionPoints for TLC.                                  *)
EXTENDS ConnectionPoints
=============================================================================
