--------------------------- MODULE ServerLifetime ----------------------------
(***************************************************************************)
(* What a standalone host promises, without COM, Qt or timers: it opens    *)
(* for clients once, serves any number of sessions, closes no later than   *)
(* the end of the last session (or when nobody comes), never opens again,  *)
(* and the process ends only when nobody is being served, unless it is     *)
(* interrupted; then it serves nobody any more, and ends.                  *)
(***************************************************************************)
EXTENDS FiniteSets

CONSTANT Clients

VARIABLES
    stage,      \* what the host does with new clients
    sessions,   \* the clients that are being served
    interrupted \* the host has been told to end whoever is being served

lifetime == <<stage, sessions, interrupted>>

Stage == {"starting", "open", "closed", "gone"}

Begin ==
    /\ stage = "starting"
    /\ stage' \in {"open", "closed"}
    /\ UNCHANGED <<sessions, interrupted>>

(* A class registered for one use closes the host with its first client.   *)
Serve(c) ==
    /\ stage = "open" /\ ~interrupted
    /\ c \notin sessions
    /\ sessions' = sessions \cup {c}
    /\ stage' \in {"open", "closed"}
    /\ UNCHANGED interrupted

End(c) ==
    /\ ~interrupted
    /\ c \in sessions
    /\ sessions' = sessions \ {c}
    /\ stage' = IF sessions' = {} THEN "closed" ELSE stage
    /\ UNCHANGED interrupted

Expire ==
    /\ stage = "open" /\ ~interrupted
    /\ sessions = {}
    /\ stage' = "closed"
    /\ UNCHANGED <<sessions, interrupted>>

Interrupt ==
    /\ stage \in {"open", "closed"} /\ ~interrupted
    /\ interrupted' = TRUE
    /\ UNCHANGED <<stage, sessions>>

Finish ==
    /\ stage \in {"open", "closed"}
    /\ (stage = "closed" /\ sessions = {}) \/ interrupted
    /\ stage' = "gone"
    /\ UNCHANGED <<sessions, interrupted>>

LInit ==
    /\ stage = "starting"
    /\ sessions = {}
    /\ interrupted = FALSE

LNext ==
    \/ Begin
    \/ \E c \in Clients : Serve(c) \/ End(c)
    \/ Expire
    \/ Interrupt
    \/ Finish

LSafety == LInit /\ [][LNext]_lifetime

LSpec == LSafety /\ WF_lifetime(Begin) /\ WF_lifetime(Expire) /\ WF_lifetime(Finish)
=============================================================================
