--------------------------- MODULE StandaloneHost ----------------------------
(***************************************************************************)
(* A standalone host with its clients: the runtime of RunAsStandalone, the *)
(* class factories (container_factory.cc) and the containers they create   *)
(* (container.cc), driven by calls of client processes.  The apartment is  *)
(* single-threaded, so a call runs to its end unless it opens a message    *)
(* box; while one is open, every other call can be delivered.              *)
(***************************************************************************)
EXTENDS RunAsStandalone, FiniteSets

CONSTANTS
    Clients,    \* client processes
    Habits      \* what clients do besides activating and releasing

HabitKinds == {"factory", "control", "lock", "crash"}

ASSUME ClientsAssumption == IsFiniteSet(Clients) /\ Habits \subseteq HabitKinds

VARIABLES
    objects,    \* clients that hold a container
    creating,   \* clients of the CreateInstance calls that show the
                \* load-failure box, the innermost call first
    bare,       \* clients that hold an interface of a control, no container
    factories,  \* clients that hold a class factory
    locks,      \* clients with a LockServer(TRUE) outstanding
    crashed     \* clients that are gone

clientVars == <<objects, creating, bare, factories, locks, crashed>>

vars == <<comVars, runtimeVars, standaloneVars, clientVars>>

BusyClients == {creating[k] : k \in DOMAIN creating}

(* A client waits for the call it has made; a crashed one makes none.      *)
Idle(c) == c \notin BusyClients \cup crashed

(* The apartment takes a call of client c.                                 *)
Calls(c) == Pumping /\ Idle(c)

HoldsNothing(c) == c \notin objects \cup bare

(* COM hands out class object i: an activation request or CoGetClassObject *)
(* of a client, and the end of a class registered for one use.             *)
HandOut(i) ==
    /\ table[i] = "active"
    /\ table' = IF ServesMany(Sanitized(i)) THEN table
                ELSE [table EXCEPT ![i] = "withdrawn"]

(* Mutant: a container that takes no server reference.                     *)
CreateContainerUncounted(c) ==
    /\ acquired' = TRUE
    /\ objects' = objects \cup {c}
    /\ UNCHANGED <<refs, qtVars, timer, warned, creating, bare>>

(***************************************************************************)
(* HostContainerFactory::CreateInstance for client c.  The container takes *)
(* a server reference first.  If the control loads, the container answers  *)
(* for a host interface, and the client keeps it; an interface of the      *)
(* control itself is answered by the control, and the container, which     *)
(* nobody holds, is destroyed before the call returns.                     *)
(***************************************************************************)
CreateContainer(c) ==
    /\ AddServerReference
    /\ objects' = objects \cup {c}
    /\ UNCHANGED <<qtVars, timer, warned, creating, bare>>

(* Mutant: the reference is taken only when the control has loaded.        *)
LoadFailsUncounted(c) ==
    /\ "load" \in Faults
    /\ ShowBox("load")
    /\ creating' = <<c>> \o creating
    /\ UNCHANGED <<refs, quitNow, exitPosted, timer, warned, acquired, objects,
                   bare>>

(* The load failure shows a box in the middle of the constructor.          *)
LoadFails(c) ==
    /\ "load" \in Faults
    /\ AddServerReference
    /\ ShowBox("load")
    /\ creating' = <<c>> \o creating
    /\ UNCHANGED <<quitNow, exitPosted, timer, warned, objects, bare>>

CreateControlOnly(c) ==
    /\ "control" \in Habits
    /\ CoProbeServerProcess
    /\ acquired' = TRUE
    /\ IF refs = 0 THEN OnLastRelease ELSE UNCHANGED <<timer, exitPosted>>
    /\ bare' = bare \cup {c}
    /\ UNCHANGED <<loops, quitNow, windowVars, warned, objects, creating>>

(* An activation by the service control manager: the class object and      *)
(* CreateInstance(IID_IUnknown) in one incoming call.                      *)
Activate(c, i) ==
    /\ Calls(c) /\ HoldsNothing(c)
    /\ HandOut(i)
    /\ CreateContainer(c) \/ LoadFails(c)
    /\ UNCHANGED <<standaloneVars, factories, locks, crashed>>

(* The two-step form: a client keeps the class factory and uses it later.  *)
GetClassObject(c, i) ==
    /\ "factory" \in Habits
    /\ Calls(c) /\ c \notin factories
    /\ HandOut(i)
    /\ factories' = factories \cup {c}
    /\ UNCHANGED <<refs, runtimeVars, standaloneVars, objects, creating, bare,
                   locks, crashed>>

FactoryCreate(c) ==
    /\ Calls(c) /\ c \in factories /\ HoldsNothing(c)
    /\ \/ UNCHANGED table /\ (CreateContainer(c) \/ LoadFails(c))
       \/ CreateControlOnly(c)
    /\ UNCHANGED <<standaloneVars, factories, locks, crashed>>

(* Mutant: the error path leaks the container.                             *)
LoadFailureLeaks ==
    /\ CloseBox("load")
    /\ creating # <<>>
    /\ creating' = Tail(creating)
    /\ UNCHANGED <<comVars, quitNow, exitPosted, timer, warned, acquired,
                   standaloneVars, objects, bare, factories, locks, crashed>>

(* The box is closed: the constructor ends, CreateInstance finds the       *)
(* container uninitialised and drops it, and the client gets an error.     *)
LoadFailureReturns ==
    /\ CloseBox("load")
    /\ creating # <<>>
    /\ creating' = Tail(creating)
    /\ ReleaseServerReference
    /\ UNCHANGED <<quitNow, warned, acquired, standaloneVars, objects, bare,
                   factories, locks, crashed>>

(* The last reference to a container goes: HostContainer's destructor.     *)
ReleaseContainer(c) ==
    /\ Calls(c) /\ c \in objects
    /\ objects' = objects \ {c}
    /\ ReleaseServerReference
    /\ UNCHANGED <<loops, quitNow, windowVars, warned, acquired, standaloneVars,
                   creating, bare, factories, locks, crashed>>

ReleaseOther(c) ==
    /\ Calls(c)
    /\ \/ c \in bare /\ bare' = bare \ {c} /\ UNCHANGED factories
       \/ c \in factories /\ factories' = factories \ {c} /\ UNCHANGED bare
    /\ UNCHANGED <<comVars, runtimeVars, standaloneVars, objects, creating,
                   locks, crashed>>

(* HostContainerFactory::LockServer.                                       *)
LockServer(c) ==
    /\ "lock" \in Habits
    /\ Calls(c) /\ c \in factories \ locks
    /\ AddServerReference
    /\ locks' = locks \cup {c}
    /\ UNCHANGED <<table, qtVars, timer, warned, standaloneVars, objects,
                   creating, bare, factories, crashed>>

UnlockServer(c) ==
    /\ Calls(c) /\ c \in factories \cap locks
    /\ ReleaseServerReference
    /\ locks' = locks \ {c}
    /\ UNCHANGED <<loops, quitNow, windowVars, warned, acquired, standaloneVars,
                   objects, creating, bare, factories, crashed>>

(* A client dies.  COM notices later, and gives back what it held one      *)
(* object at a time; LockServer is no object and is not given back.        *)
Crash(c) ==
    /\ "crash" \in Habits
    /\ main # "gone" /\ c \notin crashed
    /\ crashed' = crashed \cup {c}
    /\ UNCHANGED <<comVars, runtimeVars, standaloneVars, objects, creating,
                   bare, factories, locks>>

RundownContainer(c) ==
    /\ Pumping /\ c \in crashed \cap objects
    /\ objects' = objects \ {c}
    /\ ReleaseServerReference
    /\ UNCHANGED <<loops, quitNow, windowVars, warned, acquired, standaloneVars,
                   creating, bare, factories, locks, crashed>>

RundownOther(c) ==
    /\ Pumping /\ c \in crashed \cap (bare \cup factories)
    /\ bare' = bare \ {c}
    /\ factories' = factories \ {c}
    /\ UNCHANGED <<comVars, runtimeVars, standaloneVars, objects, creating,
                   locks, crashed>>

ClientCall(c) ==
    \/ \E i \in Slots : Activate(c, i) \/ GetClassObject(c, i)
    \/ FactoryCreate(c)
    \/ ReleaseContainer(c) \/ ReleaseOther(c)
    \/ LockServer(c) \/ UnlockServer(c)
    \/ Crash(c) \/ RundownContainer(c) \/ RundownOther(c)

ExitStep == ProcessExit /\ UNCHANGED <<standaloneVars, clientVars>>

TimerStep == CheckForExit /\ UNCHANGED <<standaloneVars, clientVars>>

IdleStep == IdleWarningReturns /\ UNCHANGED <<standaloneVars, clientVars>>

QuitStep == LastWindowQuits /\ UNCHANGED <<standaloneVars, clientVars>>

MainStep ==
    /\ MainThread \/ StartupBoxReturns
    /\ UNCHANGED clientVars

(* The process has ended: nothing happens in it any more.                  *)
Ended == main = "gone" /\ UNCHANGED vars

Init ==
    /\ ComInit
    /\ RuntimeInit
    /\ StandaloneInit
    /\ objects = {} /\ bare = {} /\ factories = {} /\ locks = {}
    /\ crashed = {} /\ creating = <<>>

Next ==
    \/ MainStep
    \/ ExitStep \/ TimerStep \/ IdleStep \/ QuitStep
    \/ LoadFailureReturns
    \/ \E c \in Clients : ClientCall(c)
    \/ Ended

Spec == Init /\ [][Next]_vars

(***************************************************************************)
(* The thread runs its code, Qt delivers what is due, and an attended      *)
(* desktop closes the message boxes.  Nothing is assumed of the clients.   *)
(***************************************************************************)
Fairness ==
    /\ WF_vars(MainStep)
    /\ WF_vars(ExitStep) /\ WF_vars(TimerStep) /\ WF_vars(IdleStep)
    /\ WF_vars(LoadFailureReturns) /\ WF_vars(QuitStep)

FairSpec == Spec /\ Fairness

-----------------------------------------------------------------------------
Serving == main = "exec"

MultiUse == HasMultipleUse(cmd)

IdleBoxOpen == \E k \in DOMAIN loops : loops[k] = "idle"

ExitGuard == timer \/ exitPosted \/ quitNow \/ IdleBoxOpen

(* No class can be reached before the constructor has ended.               *)
SuspendedStart == sus /\ \A i \in DOMAIN cmd.specs : ~cmd.specs[i].explicit

(* The host's variables stay in the ranges the code gives them.            *)
TypeOK ==
    /\ ComTypeOK
    /\ RuntimeTypeOK
    /\ StandaloneTypeOK
    /\ objects \subseteq Clients /\ bare \subseteq Clients
    /\ factories \subseteq Clients /\ locks \subseteq Clients
    /\ crashed \subseteq Clients
    /\ creating \in Seq(Clients)

(* Every server reference has an owner: a container, initialised or being  *)
(* loaded, or a LockServer(TRUE).  A path of CreateInstance that forgets   *)
(* the reference, or gives it back twice, breaks the balance.              *)
ServerRefsBalanced ==
    refs = Cardinality(objects) + Len(creating) + Cardinality(locks)

(* Message boxes nest in one way only: boxes of the constructor and the    *)
(* main loop never meet, there is one idle warning, and it is not shown    *)
(* above the load-failure box of a client that is being served.            *)
ModalNesting ==
    \A j, k \in DOMAIN loops : j < k =>
        /\ loops[j] \in {"idle", "load"}
        /\ loops[j] = "idle" => loops[k] \in {"startup", "exec"}

(* A host without references has something that will end it: the timer, a  *)
(* pending exit, or the idle warning whose end posts the exit.             *)
ExitGuardArmed == Serving /\ refs = 0 => ExitGuard

(* A single-use host whose clients have all released their instances is on *)
(* its way out at once, it does not wait for the timer (README, 131).      *)
ImmediateExit ==
    Serving /\ ~MultiUse /\ acquired /\ refs = 0 => exitPosted \/ quitNow

(* Once the exit is posted no new client is let in by COM, so the exit     *)
(* cannot overtake an activation.  Qt's own quit, when the last message    *)
(* box is closed, asks nobody: it may come with the door open.             *)
ExitClosesDoor ==
    Serving => /\ exitPosted => ~SomeClassActive
               /\ quitNow => windowQuit \/ ~SomeClassActive

(* Nobody holds an instance when main() ends, nor waits for one.           *)
EndsUnused ==
    main \in {"teardown", "gone"} =>
        objects = {} /\ bare = {} /\ creating = <<>>

(* The process does not end under a client that still holds an instance,   *)
(* nor in the middle of a CreateInstance, unless Qt's own quit ended it.   *)
NoInstanceAbandoned == windowQuit \/ EndsUnused

(* With failing registrations and message boxes before the main loop, the  *)
(* guard can be lost only by a host that warned and that nobody has used:  *)
(* the first reference of a client brings it back.                         *)
GuardLostOnlyUnused ==
    Serving /\ refs = 0 /\ SuspendedStart =>
        ExitGuard \/ (warned /\ ~acquired)

(* The ready event is set only when every class has been registered, and   *)
(* is not set for a host that is about to leave for want of classes.       *)
ReadyMeansRegistered ==
    ready /\ main \in {"start", "exec"} =>
        \A i \in DOMAIN cmd.specs : <<i, "surrogate">> \in cookies

(* The ready event tells the truth: when the constructor ends, every class *)
(* can be reached or has already been handed out.                          *)
ReadyMeansReachable ==
    main = "start" /\ ready =>
        \A i \in DOMAIN cmd.specs :
            "LOCAL_SERVER" \in Sanitized(i).register =>
                table[i] \in {"active", "withdrawn"}

(* A host that is, from some time on, without references ends.             *)
IdleHostExits == <>[](refs = 0) => <>(main = "gone")

(* A serving host that has been told to exit does, whatever boxes are open *)
(* and whatever clients still hold.                                        *)
ExitIsCarriedOut == Serving /\ (exitPosted \/ quitNow) ~> main = "gone"

(* README, 178: in the timeout window of a multiple-use host, new clients  *)
(* can connect without restarting the host.                                *)
MultiUseWindowOpen ==
    Serving /\ MultiUse /\ hr /\ acquired /\ refs = 0 /\ timer => SomeClassActive

(* The host implements the lifetime it promises.                           *)
LifetimeStage ==
    IF main = "gone" THEN "gone"
    ELSE IF main \notin {"start", "exec", "teardown"} THEN "starting"
    ELSE IF SomeClassActive THEN "open"
    ELSE "closed"

Lifetime == INSTANCE ServerLifetime
                WITH stage <- LifetimeStage,
                     sessions <- objects \cup BusyClients,
                     interrupted <- windowQuit

LifetimeSpec == Lifetime!LSpec
=============================================================================
