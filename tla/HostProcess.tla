----------------------------- MODULE HostProcess -----------------------------
(***************************************************************************)
(* The life of a process apart from its clients' references: it starts up, *)
(* logs its command line on the way, and answers for the type information  *)
(* of its class once it serves.                                            *)
(***************************************************************************)
EXTENDS Startup, CommandLineText, ClassInfo

CONSTANT Inputs  \* command line, its text, and what is installed, as triples

ASSUME InputsAssumption == Inputs \subseteq Requests \X Lines \X Controls

vars == <<startupVars, textVars, infoVars>>

Starts == StartupStep /\ UNCHANGED <<textVars, infoVars>>

WritesLine == at = "line" /\ TextStep /\ UNCHANGED <<startupVars, infoVars>>

GoesOn == LineComplete /\ LineIsWritten /\ UNCHANGED <<textVars, infoVars>>

Answers ==
    /\ at = "exec"
    /\ \/ \E what \in {"classinfo", "guid", "otherguid"} : InfoCall(what)
       \/ InfoStep
       \/ \E k \in ToSet(KeyOrder) : Install(k) \/ Uninstall(k)
    /\ UNCHANGED <<startupVars, textVars>>

Init ==
    /\ \E i \in Inputs : asked = i[1] /\ given = i[2] /\ control = i[3]
    /\ StartupInit /\ TextInit /\ InfoInit

Next == Starts \/ WritesLine \/ GoesOn \/ Answers

Spec == Init /\ [][Next]_vars

(* The variables stay in their ranges: in particular a version of a type   *)
(* library in the 16 bits it is stored in.                                 *)
TypeOK == StartupTypeOK /\ TextTypeOK /\ InfoTypeOK
=============================================================================
