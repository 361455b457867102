-------------------------- MODULE MCSurrogateHost ----------------------------
(* Instances of SurrogateHost for TLC.                                     *)
EXTENDS SurrogateHost

MCSlots == {1, 2}
=============================================================================
