------------------------- MODULE MCSurrogateRegistry --------------------------
(* Instances of SurrogateRegistry for TLC.                                 *)
EXTENDS SurrogateRegistry, TLC

CONSTANTS c1, c2

(* The processes are alike.                                                *)
ToolSymmetry == Permutations(Tools)

(* A class under its own CLSID, logging as given; the settings turned off; *)
(* unregistering.  Both classes may have any AppID from the start, so that *)
(* registering may move one, and unregistering may meet a shared AppID.    *)
MCCommandLines ==
    {[NoOptions EXCEPT !.register = c1, !.logging = TRUE,
                       !.level = CHOOSE l \in Levels : TRUE,
                       !.directory = CHOOSE d \in Dirs : TRUE],
     [NoOptions EXCEPT !.appid = c1],
     [NoOptions EXCEPT !.unregister = c1]}
=============================================================================
