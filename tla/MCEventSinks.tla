---------------------------- MODULE MCEventSinks -----------------------------
(* Instances of EventSinks for TLC.                                        *)
EXTENDS EventSinks

(* A pool as large as the nesting, with handlers that call back; a pool of *)
(* one thread, with handlers that do not.                                  *)
SoundSettings ==
    {[holds |-> TRUE, callbacks |-> TRUE, threads |-> 3, faults |-> {"advise"}],
     [holds |-> TRUE, callbacks |-> FALSE, threads |-> 1, faults |-> {"advise"}]}

(* Failing registrations, dying clients, controls that do not reference    *)
(* the sinks they call, and a small pool.                                  *)
WeakSettings ==
    {[holds |-> h, callbacks |-> TRUE, threads |-> 2, faults |-> f] :
        h \in BOOLEAN, f \in {{"death"}, FaultKinds}}

MCSettings == SoundSettings \cup WeakSettings
=============================================================================
