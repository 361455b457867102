------------------------------ MODULE ComServer ------------------------------
(***************************************************************************)
(* What axhost asks of the COM runtime of its own process: the process    *)
(* reference count and the table of the class objects it has registered    *)
(* for CLSCTX_LOCAL_SERVER.  COM is not part of the repository: every      *)
(* operator here is external and states the documented behaviour the code  *)
(* relies on (src/README.md:181 quotes the part that matters most).        *)
(***************************************************************************)
EXTENDS Integers

CONSTANT
    Slots       \* positions of the class specifications on the command line

VARIABLES
    refs,       \* the count of CoAddRefServerProcess / CoReleaseServerProcess
    table       \* what the service control manager sees of each class object

comVars == <<refs, table>>

(***************************************************************************)
(* "active" class objects receive activation requests, "suspended" ones    *)
(* do not until CoResumeClassObjects; a class object registered for a      *)
(* single use is "withdrawn" once it has been handed to a client.          *)
(***************************************************************************)
SlotState == {"absent", "suspended", "active", "withdrawn"}

Suspended(t) == [i \in Slots |-> IF t[i] = "active" THEN "suspended" ELSE t[i]]

Resumed(t) == [i \in Slots |-> IF t[i] = "suspended" THEN "active" ELSE t[i]]

SomeClassActive == \E i \in Slots : table[i] = "active"

CoAddRefServerProcess == refs' = refs + 1

(* A count that reaches zero suspends every class object of the process.   *)
CoReleaseServerProcess ==
    /\ refs' = refs - 1
    /\ table' = IF refs = 1 THEN Suspended(table) ELSE table

(* An AddRef and a Release in a row, to read the count.  They have the     *)
(* side effect of the Release: reading zero suspends the class objects.    *)
CoProbeServerProcess ==
    /\ UNCHANGED refs
    /\ table' = IF refs = 0 THEN Suspended(table) ELSE table

ComTypeOK ==
    /\ refs \in Nat
    /\ table \in [Slots -> SlotState]

ComInit ==
    /\ refs = 0
    /\ table = [i \in Slots |-> "absent"]
=============================================================================
