---------------------------- MODULE SurrogateHost ----------------------------
(***************************************************************************)
(* axhost as a DllSurrogate: RunAsSurrogate (surrogate_runtime.cc) and the *)
(* ISurrogate interface of HostSurrogate (surrogate.cc), called by COM.    *)
(*                                                                         *)
(* In this mode the runtime's AddServerReference and ReleaseServerReference*)
(* are the empty ones of the base class: a container leaves neither the    *)
(* process count nor m_acquisitionCount changed.  Whether COM itself       *)
(* counts the clients of a surrogate is its own business; the model takes  *)
(* either answer from ComCounts.                                           *)
(***************************************************************************)
EXTENDS HostRuntime, FiniteSets

CONSTANTS
    Clients,    \* client processes
    ComCounts,  \* does COM count a surrogate's clients itself?  {TRUE}, ...
    Faults      \* calls of the COM library that may fail

FaultKinds == {"surrogate", "register", "revoke", "load"}

ASSUME SurrogateAssumption ==
    ComCounts \subseteq BOOLEAN /\ Faults \subseteq FaultKinds

VARIABLES
    main,       \* where the GUI thread is
    counts,     \* COM's answer in this behaviour
    objects,    \* clients that hold a container
    creating,   \* clients of the calls that show the load-failure box
    used,       \* a client has interacted with the host (history)
    freed,      \* COM has called FreeSurrogate, and the answer it got
    reopened    \* a class was loaded when the end was decided (history)

surrogateVars == <<main, counts, objects, creating, used, freed, reopened>>
vars == <<comVars, runtimeVars, surrogateVars>>

FreeResult == {"no", "failed", "done"}

Succeeds(call) == IF call \in Faults THEN BOOLEAN ELSE {TRUE}

IdleBoxOpen == \E k \in DOMAIN loops : loops[k] = "idle"

BusyClients == {creating[k] : k \in DOMAIN creating}

(* COM's own count, when it keeps one.                                     *)
ComCountsOne == refs' = IF counts THEN refs + 1 ELSE refs
ComReleasesOne == refs' = IF counts THEN refs - 1 ELSE refs

(* The constructor: an error of CoRegisterSurrogate is an exception that   *)
(* ends the process; one of the first LoadDllServer is ignored.            *)
Construct ==
    /\ main = "construct"
    /\ \/ /\ "surrogate" \in Faults
          /\ main' = "gone"
          /\ UNCHANGED table
       \/ /\ main' = "start"
          /\ \E first \in Slots, ok \in Succeeds("register") :
                table' = IF ok THEN [table EXCEPT ![first] = "active"] ELSE table
    /\ UNCHANGED <<refs, runtimeVars, counts, objects, creating, used, freed, reopened>>

StartExec ==
    /\ main = "start"
    /\ main' = "exec"
    /\ Push("exec")
    /\ quitNow' = FALSE
    /\ UNCHANGED <<comVars, exitPosted, windowVars, timer, warned, acquired,
                   counts, objects, creating, used, freed, reopened>>

(* app.exec returns; the destructor is empty.                              *)
ExecReturns ==
    /\ quitNow
    /\ Pop("exec")
    /\ main' = "gone"
    /\ UNCHANGED <<comVars, quitNow, exitPosted, windowVars, timer, warned,
                   acquired, counts, objects, creating, used, freed, reopened>>

(* COM asks for another class of the application.                          *)
LoadDllServer(i) ==
    /\ Pumping /\ freed # "done"
    /\ table[i] = "absent"
    /\ \E ok \in Succeeds("register") :
          table' = IF ok THEN [table EXCEPT ![i] = "active"] ELSE table
    /\ reopened' = (reopened \/ IdleBoxOpen \/ exitPosted)
    /\ UNCHANGED <<refs, runtimeVars, main, counts, objects, creating, used, freed>>

(* RevokeAllClassFactories: a class object whose revocation fails keeps    *)
(* its cookie, and the others are revoked all the same.                    *)
Kept == IF "revoke" \in Faults
        THEN SUBSET {i \in Slots : table[i] # "absent"} ELSE {{}}

Revoked(kept) == [i \in Slots |-> IF i \in kept THEN table[i] ELSE "absent"]

(* COM frees a surrogate that nobody uses any more, and may come back      *)
(* after an error.                                                         *)
ComFrees == Pumping /\ freed # "done" /\ objects = {} /\ creating = <<>> /\ used

(* Mutant: the timer is stopped for good, and an error ends the function.  *)
FreeSurrogateStays ==
    /\ ComFrees
    /\ \E kept \in Kept :
          /\ table' = Revoked(kept)
          /\ freed' = IF kept = {} THEN "done" ELSE "failed"
          /\ IF kept = {} THEN ExitApplicationLater /\ UNCHANGED timer
                          ELSE timer' = FALSE /\ UNCHANGED exitPosted
    /\ UNCHANGED <<refs, loops, quitNow, windowVars, warned, acquired, main,
                   counts, objects, creating, used, reopened>>

(* Mutant: the result is that of the last call.                            *)
FreeSurrogateForgets ==
    /\ ComFrees
    /\ \E kept \in Kept : table' = Revoked(kept)
    /\ freed' = "done"
    /\ ExitApplicationLater
    /\ UNCHANGED <<refs, loops, quitNow, windowVars, timer, warned, acquired,
                   main, counts, objects, creating, used, reopened>>

(* COM has no more use for the surrogate: revoke everything, leave in any  *)
(* case, and answer with the first error.                                  *)
FreeSurrogate ==
    /\ ComFrees
    /\ \E kept \in Kept :
          /\ table' = Revoked(kept)
          /\ freed' = IF kept = {} THEN "done" ELSE "failed"
    /\ ExitApplicationLater
    /\ UNCHANGED <<refs, loops, quitNow, windowVars, timer, warned, acquired,
                   main, counts, objects, creating, used, reopened>>

(* An activation, with the outcomes of HostContainer's constructor.        *)
Activate(c) ==
    /\ Pumping /\ SomeClassActive
    /\ c \notin objects \cup BusyClients
    /\ used' = TRUE
    /\ ComCountsOne
    /\ \/ objects' = objects \cup {c} /\ UNCHANGED <<loops, windowVars, creating>>
       \/ /\ "load" \in Faults
          /\ ShowBox("load")
          /\ creating' = <<c>> \o creating
          /\ UNCHANGED objects
    /\ UNCHANGED <<table, quitNow, exitPosted, timer, warned, acquired, main,
                   counts, freed, reopened>>

LoadFailureReturns ==
    /\ CloseBox("load")
    /\ creating' = Tail(creating)
    /\ ComReleasesOne
    /\ UNCHANGED <<table, quitNow, exitPosted, timer, warned, acquired, main,
                   counts, objects, used, freed, reopened>>

Release(c) ==
    /\ Pumping
    /\ c \in objects \ BusyClients
    /\ objects' = objects \ {c}
    /\ ComReleasesOne
    /\ UNCHANGED <<table, runtimeVars, main, counts, creating, used, freed, reopened>>

ExitStep == ProcessExit /\ UNCHANGED surrogateVars

TimerStep == CheckForExit /\ UNCHANGED surrogateVars

IdleStep == IdleWarningReturns /\ UNCHANGED surrogateVars

QuitStep == LastWindowQuits /\ UNCHANGED surrogateVars

Ended == main = "gone" /\ UNCHANGED vars

Init ==
    /\ ComInit
    /\ RuntimeInit
    /\ main = "construct"
    /\ counts \in ComCounts
    /\ objects = {} /\ creating = <<>>
    /\ used = FALSE /\ freed = "no" /\ reopened = FALSE

Next ==
    \/ Construct \/ StartExec \/ ExecReturns
    \/ \E i \in Slots : LoadDllServer(i)
    \/ FreeSurrogate
    \/ \E c \in Clients : Activate(c) \/ Release(c)
    \/ LoadFailureReturns
    \/ ExitStep \/ TimerStep \/ IdleStep \/ QuitStep
    \/ Ended

(* The thread runs, Qt delivers, an attended desktop closes the boxes; COM *)
(* and the clients owe nothing.                                            *)
FairSpec ==
    /\ Init /\ [][Next]_vars
    /\ WF_vars(Construct) /\ WF_vars(StartExec) /\ WF_vars(ExecReturns)
    /\ WF_vars(ExitStep) /\ WF_vars(TimerStep) /\ WF_vars(IdleStep)
    /\ WF_vars(LoadFailureReturns) /\ WF_vars(QuitStep)

-----------------------------------------------------------------------------
(* When COM counts its clients, the process ends under one of them only    *)
(* when COM loaded another class after the timer had decided to end it     *)
(* (CheckForExit suspends the class objects there are, and LoadDllServer   *)
(* registers one that is not suspended), when FreeSurrogate has left a     *)
(* class object registered, or when Qt's own quit ended it.                *)
AbandonedOnlyIfReopened ==
    main = "gone" /\ counts =>
        \/ windowQuit \/ reopened \/ freed = "failed"
        \/ objects = {} /\ creating = <<>>

(* COM can rely on the answer: after a FreeSurrogate that succeeded no     *)
(* class object is there for another client, and nobody is being served.   *)
FreedServesNobody ==
    freed = "done" => objects = {} /\ creating = <<>> /\ ~SomeClassActive

(* A surrogate that has, from some time on, no clients ends.               *)
UnusedSurrogateEnds ==
    <>[](objects = {} /\ creating = <<>>) => <>(main = "gone")

(* README, 162 and 190: the warning is for a surrogate that no client has  *)
(* interacted with.                                                        *)
WarningIsTrue == [][IdleBoxOpen' /\ ~IdleBoxOpen => ~used]_vars
=============================================================================
