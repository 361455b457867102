----------------------- MODULE StandaloneLifetime_proofs ----------------------
(***************************************************************************)
(* How a standalone host ends: its exit cannot overtake an activation, the *)
(* process leaves no client behind, and the host implements the lifetime   *)
(* of ServerLifetime.  The theorems are about hosts whose constructor      *)
(* shows no message box; a client that keeps a class factory makes some of *)
(* them false, and is excluded where it does.  Qt's own quit, which the    *)
(* last message box brings when it is closed, is the stated exception.     *)
(***************************************************************************)
EXTENDS StandaloneExit_proofs

-----------------------------------------------------------------------------
ExitPending == exitPosted \/ quitNow \/ IdleBoxOpen

(* Before the main loop there is nobody; from the moment on that an exit   *)
(* is on its way there is no way in, unless Qt's own quit ends the host.   *)
DoorInv ==
    /\ Constructing => /\ main # "noclass" /\ loops = <<>> /\ Unvisited
                       /\ ~exitPosted /\ ~quitNow
    /\ Serving /\ ExitPending => windowQuit \/ ~SomeClassActive
    /\ main = "teardown" => windowQuit \/ ~SomeClassActive

XInv == SInv /\ GInv /\ DoorInv /\ ImmediateExit

(* The idle warning is opened by CheckForExit alone.                       *)
LEMMA IdleBoxOrigin ==
    ASSUME IInv, IdleBoxOpen',
           \/ UNCHANGED loops
           \/ loops # <<>> /\ loops' = Tail(loops)
           \/ Push("load")
    PROVE  IdleBoxOpen
<1>1. PICK k \in DOMAIN loops' : loops'[k] = "idle"
  BY DEF IdleBoxOpen
<1>2. loops \in Seq(Frame) /\ Len(loops) \in Nat /\ DOMAIN loops = 1 .. Len(loops)
  BY Types
<1>3. CASE UNCHANGED loops
  BY <1>3 DEF IdleBoxOpen
<1>4. CASE loops # <<>> /\ loops' = Tail(loops)
  <2>1. /\ Tail(loops) \in Seq(Frame) /\ Len(Tail(loops)) = Len(loops) - 1
        /\ \A j \in 1 .. Len(loops) - 1 : Tail(loops)[j] = loops[j + 1]
    BY <1>2, <1>4, Popped
  <2>2. DOMAIN Tail(loops) = 1 .. Len(Tail(loops))
    BY <2>1
  <2>3. k \in 1 .. Len(loops) - 1
    BY <1>1, <1>4, <2>1, <2>2
  <2>4. k + 1 \in DOMAIN loops
    BY <1>2, <2>3
  <2>5. loops[k + 1] = "idle"
    BY <1>1, <1>4, <2>1, <2>3
  <2> QED
    BY <2>4, <2>5 DEF IdleBoxOpen
<1>5. CASE Push("load")
  <2>1. "load" \in Frame /\ loops' = <<"load">> \o loops
    BY <1>5 DEF Push, Frame
  <2>2. /\ loops' \in Seq(Frame) /\ Len(loops') = Len(loops) + 1
        /\ loops'[1] = "load"
        /\ \A j \in 2 .. Len(loops) + 1 : loops'[j] = loops[j - 1]
    BY <1>2, <2>1, Pushed
  <2>3. k \in 1 .. Len(loops) + 1 /\ k # 1
    BY <1>1, <2>2
  <2>4. k \in 2 .. Len(loops) + 1 /\ k - 1 \in DOMAIN loops
    BY <1>2, <2>3
  <2>5. loops[k - 1] = "idle"
    BY <1>1, <2>2, <2>4
  <2> QED
    BY <2>4, <2>5 DEF IdleBoxOpen
<1> QED
  BY <1>3, <1>4, <1>5

(* Only the delivery of Qt's quit sets the history variable.               *)
LEMMA WindowQuitStays ==
    ASSUME \/ MainStep \/ ExitStep \/ TimerStep \/ IdleStep
           \/ LoadFailureReturns
           \/ \E c \in Clients : ClientCall(c)
           \/ UNCHANGED vars
    PROVE  UNCHANGED windowQuit
<1> USE DEF ShowBox, CloseBox, runtimeVars, qtVars, windowVars
<1>1. CASE MainStep
  <2>1. CASE LookupOriginal
    <3>1. \E show : StartupBox(show)
      BY <2>1, Zenon DEF LookupOriginal
    <3> QED
      BY <3>1, Zenon DEF StartupBox
  <2> QED
    BY <1>1, <2>1
       DEF MainStep, MainThread, BeginRegistration, RegisterClass,
           RegisterClassFails, FinishRegistration, NoClassRegistered,
           ExitWithoutClass, StartExec, ExecReturns, Teardown,
           StartupBoxReturns
<1>2. CASE ExitStep \/ TimerStep \/ IdleStep \/ LoadFailureReturns
  BY <1>2 DEF ExitStep, TimerStep, IdleStep, ProcessExit, CheckForExit,
              CheckForExitBusy, CheckForExitWarn, CheckForExitIdle,
              IdleWarningReturns, LoadFailureReturns
<1>3. CASE \E c \in Clients : ClientCall(c)
  BY <1>3 DEF ClientCall, Activate, GetClassObject, FactoryCreate,
              CreateContainer, LoadFails, CreateControlOnly, ReleaseContainer,
              ReleaseOther, LockServer, UnlockServer, Crash, RundownContainer,
              RundownOther
<1>4. CASE UNCHANGED vars
  BY <1>4 DEF vars
<1> QED
  BY <1>1, <1>2, <1>3, <1>4

(* Nothing that is delivered opens a class.                                *)
LEMMA StaysClosed ==
    ASSUME IInv, ~SomeClassActive,
           \/ ExitStep \/ TimerStep \/ IdleStep \/ QuitStep \/ LoadFailureReturns
           \/ \E c \in Clients : ClientCall(c)
           \/ UNCHANGED vars
    PROVE  ~SomeClassActive'
<1>1. \A i \in Slots : table[i] # "active"
  BY DEF SomeClassActive
<1>2. \A i \in Slots : table'[i] # "active"
  BY <1>1, OnlyCloses
<1> QED
  BY <1>2 DEF SomeClassActive

(* The code of the GUI thread: the constructor, which runs in one go, the  *)
(* start of the main loop, its end and the destructor.                     *)
LEMMA DoorMainStep ==
    ASSUME XInv, MainStep, QuietStartup, GInv'
    PROVE  DoorInv' /\ ImmediateExit'
<1> USE DEF XInv, SInv, comVars, runtimeVars, qtVars, windowVars, clientVars
<1>1. CASE \/ BeginRegistration \/ LookupOriginal \/ RegisterClass
           \/ FinishRegistration \/ RegisterClassFails
  <2>1. main \in Starting /\ main' \in Starting \ {"construct"}
        /\ UNCHANGED <<quitNow, exitPosted, refs, acquired, factories>>
    BY <1>1 DEF MainStep, BeginRegistration, LookupOriginal, RegisterClass,
                RegisterClassFails, FinishRegistration, At, Starting, AfterSpec
  <2>2. loops' = <<>>
    BY <2>1 DEF GInv, QuietConstructor
  <2> QED
    BY <2>1, <2>2 DEF DoorInv, Constructing, Starting, Unvisited,
                      ImmediateExit, Serving
<1>2. CASE NoClassRegistered
  BY <1>2 DEF NoClassRegistered, At, GInv, QuietConstructor, HasRegisteredClass
<1>3. CASE ExitWithoutClass
  BY <1>3 DEF ExitWithoutClass, At, GInv, QuietConstructor
<1>4. CASE StartExec
  <2>1. main = "start" /\ main' = "exec" /\ ~quitNow' /\ UNCHANGED exitPosted
        /\ loops' = <<"exec">> /\ UNCHANGED acquired
    BY <1>4 DEF StartExec, At, Push
  <2>2. ~exitPosted /\ ~acquired
    BY <2>1 DEF DoorInv, Constructing, Unvisited
  <2>3. ~IdleBoxOpen'
    BY <2>1 DEF IdleBoxOpen
  <2> QED
    BY <2>1, <2>2, <2>3 DEF DoorInv, Constructing, ExitPending, ImmediateExit
<1>5. CASE ExecReturns
  <2>1. quitNow /\ main' = "teardown" /\ UNCHANGED <<table, windowQuit>>
        /\ Pop("exec")
    BY <1>5 DEF ExecReturns
  <2>2. main = "exec"
    BY <2>1, BottomTells
  <2> QED
    BY <2>1, <2>2 DEF DoorInv, Constructing, Serving, ExitPending,
                      ImmediateExit, SomeClassActive
<1>6. CASE Teardown
  BY <1>6 DEF Teardown, DoorInv, Constructing, Serving, ImmediateExit
<1>7. CASE StartupBoxReturns
  <2>1. Pop("startup") /\ loops # <<>> /\ UNCHANGED main
    BY <1>7 DEF StartupBoxReturns, CloseBox, Pop, In, standaloneVars
  <2>2. main # "exec" /\ ~Constructing /\ main # "teardown"
    BY <2>1, BottomTells DEF DoorInv
  <2> QED
    BY <2>1, <2>2 DEF DoorInv, Constructing, Serving, ImmediateExit
<1> QED
  BY <1>1, <1>2, <1>3, <1>4, <1>5, <1>6, <1>7 DEF MainStep, MainThread

(* A count that reaches zero, or is read at zero, closes every class.      *)
LEMMA ZeroCloses ==
    ASSUME IInv, ReleaseServerReference \/ CoProbeServerProcess, refs' = 0,
           refs > 0 \/ UNCHANGED refs
    PROVE  ~SomeClassActive'
<1>1. refs \in Nat
  BY Types
<1>2. table' = Suspended(table)
  BY <1>1 DEF ReleaseServerReference, CoReleaseServerProcess,
              CoProbeServerProcess
<1> QED
  BY <1>2, SuspendedIsClosed

(* What Qt delivers.                                                       *)
LEMMA DoorDelivery ==
    ASSUME XInv, ExitStep \/ TimerStep \/ IdleStep \/ QuitStep
    PROVE  DoorInv' /\ ImmediateExit'
<1> USE DEF XInv, SInv
<1>1. /\ UNCHANGED <<main, cmd, refs, acquired, factories>>
      /\ loops # <<>>
      /\ exitPosted \/ quitNow => exitPosted' \/ quitNow'
  BY DEF ExitStep, TimerStep, IdleStep, QuitStep, ProcessExit, CheckForExit,
         CheckForExitBusy, CheckForExitWarn, CheckForExitIdle, TimerFires,
         Pumping, CloseBox, Pop, In, CoProbeServerProcess, CheckForExitLater,
         ExitApplicationLater, IdleWarningReturns, LastWindowQuits, comVars,
         qtVars, windowVars, standaloneVars, clientVars
<1>2. ~Constructing /\ main # "teardown"
  BY <1>1 DEF DoorInv, Nested
<1>3. ASSUME Serving, ExitPending'
      PROVE  windowQuit' \/ ~SomeClassActive'
  <2>1. CASE QuitStep
    <3>1. Pumping /\ UNCHANGED table /\ (windowQuit' \/ exitPosted)
      <4>1. windowQuit' \/ exitPosted
        BY <2>1, Zenon DEF QuitStep, LastWindowQuits
      <4> QED
        BY <2>1, <4>1 DEF QuitStep, LastWindowQuits, comVars
    <3>2. exitPosted => ~SomeClassActive
      BY <1>3, <3>1, NotQuitYet DEF DoorInv, ExitPending
    <3> QED
      BY <3>1, <3>2 DEF SomeClassActive
  <2>2. CASE ExitPending /\ ~QuitStep
    BY <1>3, <2>2, StaysClosed, WindowQuitStays DEF DoorInv
  <2>3. CASE ~ExitPending /\ ~QuitStep
    <3>1. ~ExitStep /\ ~CheckForExitBusy
      <4>1. ~ExitStep
        BY <2>3 DEF ExitStep, ProcessExit, ExitPending
      <4>2. CheckForExitBusy => ~ExitPending'
        BY <2>3 DEF CheckForExitBusy, qtVars, windowVars, ExitPending,
                    IdleBoxOpen
      <4> QED
        BY <1>3, <4>1, <4>2
    <3>2. ~IdleStep
      <4> SUFFICES ASSUME IdleStep PROVE IdleBoxOpen
        BY <2>3 DEF ExitPending
      <4>1. 1 \in DOMAIN loops /\ loops[1] = "idle"
        BY Types DEF IdleStep, IdleWarningReturns, CloseBox, Pop, In
      <4> QED
        BY <4>1 DEF IdleBoxOpen
    <3>3. CoProbeServerProcess /\ refs = 0
      BY <2>3, <3>1, <3>2 DEF TimerStep, CheckForExit, CheckForExitWarn,
                        CheckForExitIdle
    <3> QED
      BY <1>1, <3>3, ZeroCloses
  <2> QED
    BY <2>1, <2>2, <2>3
<1>4. ImmediateExit'
  BY <1>1 DEF ImmediateExit, Serving, MultiUse
<1> QED
  BY <1>1, <1>2, <1>3, <1>4 DEF DoorInv, Constructing, Serving

(* The last reference a client gives back.                                 *)
LEMMA LastReleaseExits ==
    ASSUME IInv, ReleaseServerReference, refs > 0, refs' = 0, ~MultiUse
    PROVE  exitPosted'
<1>1. refs \in Nat
  BY Types
<1> QED
  BY <1>1 DEF ReleaseServerReference, CoReleaseServerProcess, OnLastRelease,
              ExitApplicationLater, MultiUse

LEMMA DoorRelease ==
    ASSUME XInv, ReleaseServerReference, refs > 0,
           LoadFailureReturns \/ \E c \in Clients : ClientCall(c),
           \/ UNCHANGED loops
           \/ loops # <<>> /\ loops' = Tail(loops),
           UNCHANGED <<main, cmd, quitNow>>, Serving, UNCHANGED windowQuit
    PROVE  DoorInv' /\ ImmediateExit'
<1> USE DEF XInv, SInv
<1>1. refs' = refs - 1 /\ refs \in Nat
  BY Types DEF ReleaseServerReference, CoReleaseServerProcess
<1>2. CASE refs' = 0
  BY <1>1, <1>2, ZeroCloses, LastReleaseExits
     DEF DoorInv, Constructing, Serving, ImmediateExit, MultiUse
<1>3. CASE refs' # 0
  <2>1. UNCHANGED exitPosted
    BY <1>1, <1>3 DEF ReleaseServerReference
  <2>2. ExitPending' => ExitPending
    BY <2>1, IdleBoxOrigin DEF ExitPending
  <2> QED
    BY <1>3, <2>2, StaysClosed DEF DoorInv, Constructing, Serving,
                                   ImmediateExit
<1> QED
  BY <1>2, <1>3

LEMMA DoorLoadFailure ==
    ASSUME XInv, LoadFailureReturns
    PROVE  DoorInv' /\ ImmediateExit'
<1> USE DEF XInv, SInv
<1>1. /\ loops # <<>> /\ loops' = Tail(loops) /\ loops[1] = "load"
      /\ ReleaseServerReference /\ UNCHANGED <<main, cmd, quitNow>>
      /\ creating # <<>>
  BY Types DEF LoadFailureReturns, CloseBox, Pop, In, standaloneVars
<1>2. refs > 0
  BY <1>1, NobodyThere, Types
<1>3. ~Constructing /\ main # "teardown"
  BY <1>1 DEF DoorInv, Nested
<1>4. CASE Serving
  BY <1>1, <1>2, <1>4, DoorRelease, WindowQuitStays
<1>5. CASE ~Serving
  BY <1>1, <1>3, <1>5 DEF DoorInv, Constructing, Serving, ImmediateExit
<1> QED
  BY <1>4, <1>5

(* What clients do.                                                        *)
LEMMA DoorClientCall ==
    ASSUME XInv, NEW c \in Clients, ClientCall(c)
    PROVE  DoorInv' /\ ImmediateExit'
<1> USE DEF XInv, SInv
<1>1. UNCHANGED <<main, cmd, quitNow, windowQuit>>
      /\ (Push("load") \/ UNCHANGED loops)
  BY ClientCallFrame, WindowQuitStays DEF standaloneVars
<1>2. Cardinality(objects) \in Nat /\ Cardinality(locks) \in Nat
      /\ Len(creating) \in Nat /\ refs \in Nat
      /\ objects \subseteq Clients /\ locks \subseteq Clients
  BY Types, ClientSets DEF IInv, TypeOK
<1>3. CASE Crash(c)
  BY <1>3 DEF Crash, comVars, runtimeVars, qtVars, windowVars, standaloneVars,
              DoorInv, Constructing, Unvisited, Serving, ExitPending,
              IdleBoxOpen, SomeClassActive, ImmediateExit, MultiUse
<1>4. CASE ~Crash(c)
  <2>1. loops # <<>>
    BY <1>4 DEF ClientCall, Activate, GetClassObject, FactoryCreate, Calls,
                Pumping, ReleaseContainer, ReleaseOther, LockServer,
                UnlockServer, RundownContainer, RundownOther
  <2>2. ~Constructing /\ main # "teardown"
    BY <2>1 DEF DoorInv, Nested
  <2>3. CASE ~Serving
    BY <1>1, <2>2, <2>3 DEF DoorInv, Constructing, Serving, ImmediateExit
  <2>4. CASE Serving /\ ReleaseServerReference
    <3>1. UNCHANGED loops
      BY <1>2, <2>4, Types
         DEF ClientCall, Activate, GetClassObject, FactoryCreate, Calls,
             CreateContainer, LoadFails, CreateControlOnly, AddServerReference,
             CoAddRefServerProcess, ReleaseServerReference,
             CoReleaseServerProcess, CoProbeServerProcess, ReleaseContainer,
             ReleaseOther, LockServer, UnlockServer, Crash, RundownContainer,
             RundownOther, comVars, qtVars, windowVars, runtimeVars, qtVars,
             windowVars
    <3>2. c \in objects \/ c \in locks
      BY <1>2, <2>4
         DEF ClientCall, Activate, GetClassObject, FactoryCreate, Calls,
             CreateContainer, LoadFails, CreateControlOnly, AddServerReference,
             CoAddRefServerProcess, ReleaseServerReference,
             CoReleaseServerProcess, CoProbeServerProcess, ReleaseContainer,
             ReleaseOther, LockServer, UnlockServer, Crash, RundownContainer,
             RundownOther, comVars
    <3>3. refs > 0
      <4>1. Cardinality(objects) > 0 \/ Cardinality(locks) > 0
        BY <1>2, <3>2, ClientCounted
      <4> QED
        BY <1>2, <4>1 DEF IInv, ServerRefsBalanced
    <3> QED
      BY <1>1, <2>4, <3>1, <3>3, DoorRelease
  <2>5. CASE Serving /\ ~ReleaseServerReference
    <3>1. \/ UNCHANGED <<refs, exitPosted, acquired>>
          \/ refs' = refs + 1 /\ UNCHANGED exitPosted
          \/ CreateControlOnly(c)
      BY <2>5
         DEF ClientCall, Activate, GetClassObject, FactoryCreate,
             CreateContainer, LoadFails, AddServerReference,
             CoAddRefServerProcess, ReleaseContainer, ReleaseOther, LockServer,
             UnlockServer, Crash, RundownContainer, RundownOther, comVars,
             qtVars, windowVars, runtimeVars, qtVars, windowVars
    <3>2. CASE CreateControlOnly(c) /\ refs = 0
      <4>1. CoProbeServerProcess /\ UNCHANGED refs /\ OnLastRelease
        BY <3>2 DEF CreateControlOnly, CoProbeServerProcess
      <4>2. ~MultiUse => exitPosted'
        BY <4>1 DEF OnLastRelease, MultiUse, ExitApplicationLater
      <4> QED
        BY <1>1, <2>5, <3>2, <4>1, <4>2, ZeroCloses
           DEF DoorInv, Constructing, Serving, ImmediateExit, MultiUse
    <3>3. CASE ~(CreateControlOnly(c) /\ refs = 0)
      <4>1. UNCHANGED exitPosted /\ (refs' # 0 \/ UNCHANGED <<refs, acquired>>)
        BY <1>2, <3>1, <3>3 DEF CreateControlOnly, CoProbeServerProcess
      <4>2. ExitPending' => ExitPending
        BY <1>1, <4>1, IdleBoxOrigin DEF ExitPending
      <4> QED
        BY <1>1, <2>5, <4>1, <4>2, StaysClosed
           DEF DoorInv, Constructing, Serving, ImmediateExit, MultiUse
    <3> QED
      BY <3>2, <3>3
  <2> QED
    BY <2>3, <2>4, <2>5
<1> QED
  BY <1>3, <1>4

LEMMA InitXInv == Init => XInv
<1> SUFFICES ASSUME Init PROVE XInv
  OBVIOUS
<1>1. QuietConstructor /\ ExitGuardArmed /\ ImmediateExit
  BY DEF Init, RuntimeInit, StandaloneInit, QuietConstructor, Starting,
         ExitGuardArmed, ImmediateExit, Serving
<1>2. DoorInv
  BY DEF Init, ComInit, RuntimeInit, StandaloneInit, DoorInv, Constructing,
         Unvisited, Serving
<1> QED
  BY <1>1, <1>2, InitSInv DEF XInv, SInv, GInv

LEMMA NextXInv == QuietStartup /\ XInv /\ [Next]_vars => XInv'
<1> SUFFICES ASSUME QuietStartup, XInv, [Next]_vars PROVE XInv'
  OBVIOUS
<1>1. SInv' /\ GInv'
  BY NextSInv, GuardNext DEF XInv
<1>2. ASSUME UNCHANGED vars
      PROVE  DoorInv' /\ ImmediateExit'
  BY <1>2 DEF vars, comVars, runtimeVars, qtVars, windowVars, standaloneVars,
              clientVars, XInv, DoorInv, Constructing, Unvisited, Serving,
              ExitPending, IdleBoxOpen, SomeClassActive, ImmediateExit,
              MultiUse
<1>3. DoorInv' /\ ImmediateExit'
  BY <1>1, <1>2, DoorMainStep, DoorDelivery, DoorLoadFailure, DoorClientCall
     DEF Next, Ended
<1> QED
  BY <1>1, <1>3 DEF XInv

(* A single-use host whose clients have all gone, in whatever way, is on   *)
(* its way out at once: a release, a failed load, a lock given back and an *)
(* interface of a bare control all end there.                              *)
THEOREM LeavesAtOnce == QuietStartup => (Spec => []ImmediateExit)
<1> SUFFICES ASSUME QuietStartup PROVE Spec => []ImmediateExit
  OBVIOUS
<1>1. XInv /\ [Next]_vars => XInv'
  BY NextXInv
<1>2. XInv => ImmediateExit
  BY DEF XInv
<1> QED
  BY <1>1, <1>2, InitXInv, PTL DEF Spec

(* From the moment an exit is posted COM lets no client in, so the exit    *)
(* cannot overtake an activation.  The one way out that asks nobody is     *)
(* Qt's own quit, after the last message box has been closed.              *)
THEOREM NoWayInAtExit == QuietStartup => (Spec => []ExitClosesDoor)
<1> SUFFICES ASSUME QuietStartup PROVE Spec => []ExitClosesDoor
  OBVIOUS
<1>1. XInv /\ [Next]_vars => XInv'
  BY NextXInv
<1>2. XInv => ExitClosesDoor
  BY DEF XInv, SInv, Windows, DoorInv, ExitPending, ExitClosesDoor
<1> QED
  BY <1>1, <1>2, InitXInv, PTL DEF Spec

-----------------------------------------------------------------------------
(***************************************************************************)
(* A client that keeps a class factory can use it behind the closed door.  *)
(* Without such clients nobody is left when the exit is carried out.       *)
(***************************************************************************)
NoFactories == "factory" \notin Habits

Deserted ==
    /\ factories = {} /\ bare = {} /\ locks = {}
    /\ Serving /\ ExitPending => windowQuit \/ refs = 0
    /\ Ending => windowQuit \/ refs = 0

RInv == XInv /\ Deserted

(* What is left of the calls when nobody has a class factory.              *)
LEMMA CallsWithoutFactories ==
    ASSUME NoFactories, RInv, NEW c \in Clients, ClientCall(c)
    PROVE  /\ UNCHANGED <<factories, bare, locks, main>>
           /\ \/ \E i \in Slots : Activate(c, i)
              \/ ReleaseContainer(c) \/ RundownContainer(c) \/ Crash(c)
<1>1. ~FactoryCreate(c) /\ ~ReleaseOther(c) /\ ~LockServer(c) /\ ~UnlockServer(c)
      /\ ~RundownOther(c) /\ ~\E i \in Slots : GetClassObject(c, i)
  BY DEF RInv, Deserted, NoFactories, FactoryCreate, ReleaseOther, LockServer,
         UnlockServer, RundownOther, GetClassObject
<1>2. \/ \E i \in Slots : Activate(c, i)
      \/ ReleaseContainer(c) \/ RundownContainer(c) \/ Crash(c)
  BY <1>1 DEF ClientCall
<1> QED
  BY <1>2 DEF Activate, CreateContainer, LoadFails, ReleaseContainer,
              RundownContainer, Crash, standaloneVars

LEMMA DesertedMainStep ==
    ASSUME QuietStartup, RInv, MainStep, XInv'
    PROVE  Deserted'
<1> USE DEF RInv
<1>1. UNCHANGED <<refs, factories, bare, locks, windowQuit>>
  BY WindowQuitStays
     DEF MainStep, MainThread, BeginRegistration, LookupOriginal,
         RegisterClass, RegisterClassFails, FinishRegistration,
         NoClassRegistered, ExitWithoutClass, StartExec, ExecReturns, Teardown,
         StartupBoxReturns, clientVars, comVars
<1>2. CASE StartExec
  <2>1. refs = 0
    BY <1>2 DEF StartExec, At, XInv, DoorInv, Constructing, Unvisited
  <2> QED
    BY <1>1, <1>2, <2>1 DEF Deserted
<1>3. CASE ExecReturns
  <2>1. quitNow /\ main' = "teardown" /\ Pop("exec")
    BY <1>3 DEF ExecReturns
  <2>2. main = "exec"
    BY <2>1, BottomTells DEF XInv, SInv
  <2> QED
    BY <1>1, <2>1, <2>2 DEF Deserted, Serving, ExitPending, Ending
<1>4. CASE Teardown
  BY <1>1, <1>4 DEF Teardown, At, Deserted, Serving, Ending
<1>5. CASE StartupBoxReturns
  <2>1. Pop("startup") /\ UNCHANGED main
    BY <1>5 DEF StartupBoxReturns, CloseBox, standaloneVars
  <2>2. main # "exec"
    BY <2>1, BottomTells DEF XInv, SInv
  <2> QED
    BY <1>1, <2>1, <2>2 DEF Deserted, Serving, Ending
<1>6. CASE \/ BeginRegistration \/ LookupOriginal \/ RegisterClass
           \/ FinishRegistration \/ RegisterClassFails \/ NoClassRegistered
           \/ ExitWithoutClass
  <2>1. main' \notin {"exec", "teardown", "gone"}
    BY <1>6 DEF BeginRegistration, LookupOriginal, RegisterClass, AfterSpec,
                FinishRegistration, RegisterClassFails, NoClassRegistered,
                ExitWithoutClass
  <2> QED
    BY <1>1, <2>1 DEF Deserted, Serving, Ending
<1> QED
  BY <1>2, <1>3, <1>4, <1>5, <1>6 DEF MainStep, MainThread

LEMMA DesertedNext ==
    ASSUME QuietStartup, NoFactories, RInv, [Next]_vars, XInv'
    PROVE  Deserted'
<1> USE DEF RInv
<1>1. CASE ExitStep \/ TimerStep \/ IdleStep
  <2>1. /\ UNCHANGED <<main, refs, factories, bare, locks, windowQuit>>
        /\ loops # <<>>
        /\ ExitPending' => ExitPending \/ refs = 0
    <3>1. CASE ExitStep \/ IdleStep
      <4>1. ExitPending /\ UNCHANGED refs
        <5>1. CASE ExitStep
          BY <5>1 DEF ExitStep, ProcessExit, ExitPending, comVars
        <5>2. CASE IdleStep
          <6>1. 1 \in DOMAIN loops /\ loops[1] = "idle"
            BY <5>2, Types DEF IdleStep, IdleWarningReturns, CloseBox, Pop, In,
                               XInv, SInv
          <6> QED
            BY <5>2, <6>1 DEF IdleStep, IdleWarningReturns, ExitPending,
                              IdleBoxOpen, comVars
        <5> QED
          BY <3>1, <5>1, <5>2
      <4> QED
        BY <3>1, <4>1, WindowQuitStays
           DEF ExitStep, IdleStep, ProcessExit, IdleWarningReturns, Pumping,
               CloseBox, Pop, In, standaloneVars, clientVars
    <3>2. CASE TimerStep
      <4>1. UNCHANGED <<main, refs, factories, bare, locks, windowQuit>>
            /\ loops # <<>>
        BY <3>2, WindowQuitStays
           DEF TimerStep, CheckForExit, CheckForExitBusy, CheckForExitWarn,
               CheckForExitIdle, TimerFires, Pumping, CoProbeServerProcess,
               standaloneVars, clientVars
      <4>2. CheckForExitBusy => ~ExitPending' \/ ExitPending
        BY DEF CheckForExitBusy, qtVars, ExitPending, IdleBoxOpen
      <4>3. ~CheckForExitBusy => refs = 0
        BY <3>2 DEF TimerStep, CheckForExit, CheckForExitWarn, CheckForExitIdle
      <4> QED
        BY <4>1, <4>2, <4>3
    <3> QED
      BY <1>1, <3>1, <3>2
  <2> QED
    BY <2>1 DEF Deserted, Serving, Ending, XInv, SInv, Nested
<1>2. CASE QuitStep
  <2>1. UNCHANGED <<main, refs, factories, bare, locks>> /\ Pumping
        /\ (windowQuit' \/ exitPosted)
    <3>1. windowQuit' \/ exitPosted
      BY <1>2, Zenon DEF QuitStep, LastWindowQuits
    <3> QED
      BY <1>2, <3>1 DEF QuitStep, LastWindowQuits, comVars, standaloneVars,
                        clientVars
  <2>2. exitPosted /\ Serving => refs = 0
    BY <2>1, NotQuitYet DEF Deserted, ExitPending, XInv
  <2>3. ~Ending
    BY <2>1 DEF Ending, Pumping, XInv, SInv, Nested
  <2> QED
    BY <2>1, <2>2, <2>3 DEF Deserted, Serving, Ending
<1>3. CASE \/ LoadFailureReturns
           \/ \E c \in Clients : ReleaseContainer(c) \/ RundownContainer(c)
  <2>1. /\ UNCHANGED <<main, factories, bare, locks, quitNow>>
        /\ ReleaseServerReference
        /\ UNCHANGED loops \/ (loops # <<>> /\ loops' = Tail(loops))
        /\ loops # <<>> /\ (creating # <<>> \/ objects # {})
    BY <1>3 DEF LoadFailureReturns, ReleaseContainer, RundownContainer, Calls,
                Pumping, CloseBox, Pop, In, standaloneVars
  <2>2. UNCHANGED windowQuit
    BY <1>3 DEF LoadFailureReturns, ReleaseContainer, RundownContainer,
                CloseBox, windowVars
  <2>3. refs \in Nat /\ refs # 0
    BY <2>1, Types, NobodyThere DEF XInv, SInv
  <2>4. refs' = refs - 1 /\ (refs' # 0 => UNCHANGED exitPosted)
    BY <2>1, <2>3 DEF ReleaseServerReference, CoReleaseServerProcess
  <2>5. refs' # 0 /\ ExitPending' => ExitPending
    BY <2>1, <2>4, IdleBoxOrigin DEF ExitPending, XInv, SInv
  <2>6. ~Ending
    BY <2>1 DEF Ending, XInv, SInv, Nested
  <2> QED
    BY <2>1, <2>3, <2>5, <2>2, <2>6 DEF Deserted, Serving, Ending
<1>4. ASSUME NEW c \in Clients, NEW i \in Slots, Activate(c, i)
      PROVE  Deserted'
  <2>1. /\ SomeClassActive /\ loops # <<>> /\ UNCHANGED <<main, quitNow, exitPosted>>
        /\ UNCHANGED <<factories, bare, locks>> /\ ~windowQuit
        /\ Push("load") \/ UNCHANGED loops
    BY <1>4, NotQuitYet
       DEF Activate, Calls, Pumping, HandOut, SomeClassActive, CreateContainer,
           LoadFails, ShowBox, qtVars, standaloneVars, XInv
  <2>2. main \notin {"teardown", "gone"}
    BY <2>1 DEF XInv, SInv, Nested
  <2>3. Serving => ~ExitPending'
    BY <2>1, IdleBoxOrigin DEF ExitPending, XInv, SInv, DoorInv
  <2> QED
    BY <2>1, <2>2, <2>3 DEF Deserted, Serving, Ending
<1>5. ASSUME UNCHANGED vars \/ \E c \in Clients : Crash(c)
      PROVE  Deserted'
  BY <1>5 DEF Crash, vars, comVars, runtimeVars, qtVars, windowVars,
              standaloneVars, clientVars, Deserted, Serving, Ending,
              ExitPending, IdleBoxOpen
<1> QED
  BY <1>1, <1>3, <1>4, <1>5, <1>2, DesertedMainStep, CallsWithoutFactories
     DEF Next, Ended

LEMMA NextRInv == QuietStartup /\ NoFactories /\ RInv /\ [Next]_vars => RInv'
BY NextXInv, DesertedNext DEF RInv

LEMMA InitRInv == Init => RInv
BY InitXInv
   DEF Init, ComInit, StandaloneInit, RInv, Deserted, Serving, Ending

(* The process does not end under a client that holds an instance, nor in  *)
(* the middle of a CreateInstance, when no client keeps a class factory,   *)
(* except by Qt's own quit; clients may crash, and controls fail to load.  *)
THEOREM NobodyAbandoned ==
    QuietStartup /\ NoFactories => (Spec => []NoInstanceAbandoned)
<1> SUFFICES ASSUME QuietStartup, NoFactories PROVE Spec => []NoInstanceAbandoned
  OBVIOUS
<1>1. RInv /\ [Next]_vars => RInv'
  BY NextRInv
<1>2. RInv => NoInstanceAbandoned
  BY NobodyThere DEF RInv, XInv, SInv, Deserted, Ending, NoInstanceAbandoned,
                     EndsUnused
<1> QED
  BY <1>1, <1>2, InitRInv, PTL DEF Spec

-----------------------------------------------------------------------------
(***************************************************************************)
(* Qt's own quit needs a load-failure box: every other box that is closed  *)
(* over the main loop has an exit behind it.                               *)
(***************************************************************************)
LoadsSucceed == "load" \notin Faults

QuitCovered ==
    /\ creating = <<>>
    /\ ~windowQuit
    /\ quitPosted => exitPosted \/ quitNow \/ Ending

(* An exit that is posted is not taken back by a client's last release.    *)
LEMMA ReleaseKeepsExit ==
    ASSUME ReleaseServerReference
    PROVE  exitPosted => exitPosted'
BY DEF ReleaseServerReference, OnLastRelease, ExitApplicationLater

LEMMA QuitCoveredNext ==
    ASSUME LoadsSucceed, SInv, QuitCovered, [Next]_vars, SInv'
    PROVE  QuitCovered'
<1> USE DEF QuitCovered
<1>1. CASE MainStep
  <2>1. UNCHANGED <<creating, windowQuit>>
    BY <1>1, WindowQuitStays DEF MainStep, clientVars
  <2>2. CASE StartExec
    <3>1. ~quitPosted /\ UNCHANGED windowVars
      BY <2>2, NotQuitYet DEF StartExec, At, Ending
    <3> QED
      BY <2>1, <3>1 DEF windowVars
  <2>3. CASE ExecReturns \/ Teardown
    BY <2>1, <2>3 DEF ExecReturns, Teardown, Ending
  <2>4. CASE ~StartExec /\ ~ExecReturns /\ ~Teardown
    <3>1. ~Ending' /\ main' # "exec"
      <4>1. CASE StartupBoxReturns
        BY <4>1, BottomTells
           DEF StartupBoxReturns, CloseBox, standaloneVars, SInv, Ending
      <4> QED
        BY <1>1, <2>4, <4>1
           DEF MainStep, MainThread, BeginRegistration, LookupOriginal,
               RegisterClass, AfterSpec, RegisterClassFails,
               FinishRegistration, NoClassRegistered, ExitWithoutClass, Ending
    <3>2. loops' # <<"exec">>
      <4> SUFFICES ASSUME loops' = <<"exec">> PROVE FALSE
        OBVIOUS
      <4>1. Len(loops') = 1 /\ loops'[1] = "exec"
        OBVIOUS
      <4>2. FrameFits(1)'
        BY <4>1 DEF SInv, Nested
      <4> QED
        BY <3>1, <4>1, <4>2 DEF FrameFits
    <3> QED
      BY <2>1, <3>1, <3>2 DEF SInv, Windows
  <2> QED
    BY <2>2, <2>3, <2>4
<1>2. CASE ExitStep \/ TimerStep \/ IdleStep
  <2>1. UNCHANGED <<creating, windowQuit, main>>
    BY <1>2, WindowQuitStays
       DEF ExitStep, TimerStep, IdleStep, standaloneVars, clientVars
  <2>2. CASE ExitStep \/ IdleStep
    BY <2>1, <2>2 DEF ExitStep, ProcessExit, IdleStep, IdleWarningReturns,
                      ExitApplicationLater
  <2>3. CASE TimerStep
    BY <2>1, <2>3
       DEF TimerStep, CheckForExit, CheckForExitBusy, CheckForExitWarn,
           CheckForExitIdle, ShowBox, ExitApplicationLater, qtVars, windowVars,
           Ending
  <2> QED
    BY <1>2, <2>2, <2>3
<1>3. CASE QuitStep
  <2>1. exitPosted
    BY <1>3
       DEF QuitStep, LastWindowQuits, Pumping, SInv, Nested, Ending
  <2>2. windowQuit' = FALSE
    BY <1>3, <2>1, Zenon DEF QuitStep, LastWindowQuits
  <2> QED
    BY <1>3, <2>2 DEF QuitStep, LastWindowQuits, clientVars
<1>4. CASE LoadFailureReturns
  BY <1>4 DEF LoadFailureReturns
<1>5. ASSUME NEW c \in Clients, ClientCall(c)
      PROVE  QuitCovered'
  <2>1. ~LoadFails(c)
    BY DEF LoadFails, LoadsSucceed
  <2>2. UNCHANGED <<creating, quitPosted, quitNow, main, windowQuit>>
    BY <1>5, <2>1, WindowQuitStays
       DEF ClientCall, Activate, GetClassObject, FactoryCreate,
           CreateContainer, CreateControlOnly, ReleaseContainer, ReleaseOther,
           LockServer, UnlockServer, Crash, RundownContainer, RundownOther,
           runtimeVars, qtVars, windowVars, standaloneVars
  <2>3. exitPosted => exitPosted'
    BY <1>5, <2>1, ReleaseKeepsExit
       DEF ClientCall, Activate, GetClassObject, FactoryCreate,
           CreateContainer, CreateControlOnly, OnLastRelease,
           ExitApplicationLater, ReleaseContainer, ReleaseOther, LockServer,
           UnlockServer, Crash, RundownContainer, RundownOther, runtimeVars,
           qtVars
  <2> QED
    BY <2>2, <2>3 DEF Ending
<1>6. CASE UNCHANGED vars
  BY <1>6 DEF vars, runtimeVars, qtVars, windowVars, standaloneVars,
              clientVars, Ending
<1> QED
  BY <1>1, <1>2, <1>3, <1>4, <1>5, <1>6 DEF Next, Ended

(* A host whose controls all load is never ended by Qt's own quit: the     *)
(* idle warning is the only other box over the main loop, and it posts its *)
(* exit before Qt's quit is delivered.                                     *)
THEOREM NoWindowQuit == LoadsSucceed => (Spec => []~windowQuit)
<1> SUFFICES ASSUME LoadsSucceed PROVE Spec => []~windowQuit
  OBVIOUS
<1> DEFINE Covered == SInv /\ QuitCovered
<1>1. Init => Covered
  BY InitSInv DEF Init, RuntimeInit, QuitCovered
<1>2. Covered /\ [Next]_vars => Covered'
  BY NextSInv, QuitCoveredNext
<1>3. Covered => ~windowQuit
  BY DEF QuitCovered
<1> QED
  BY <1>1, <1>2, <1>3, PTL DEF Spec

(* Such a host ends when nobody holds an instance, nor waits for one.      *)
THEOREM EndsWhenUnused ==
    QuietStartup /\ NoFactories /\ LoadsSucceed => (Spec => []EndsUnused)
<1> SUFFICES ASSUME QuietStartup, NoFactories, LoadsSucceed
             PROVE  Spec => []EndsUnused
  OBVIOUS
<1>1. Spec => []NoInstanceAbandoned
  BY NobodyAbandoned
<1>2. Spec => []~windowQuit
  BY NoWindowQuit
<1>3. NoInstanceAbandoned /\ ~windowQuit => EndsUnused
  BY DEF NoInstanceAbandoned
<1> QED
  BY <1>1, <1>2, <1>3, PTL

-----------------------------------------------------------------------------
(***************************************************************************)
(* The host implements the lifetime of ServerLifetime.  A session is a     *)
(* client with a container or a CreateInstance under way; a client has one *)
(* of them at most.                                                        *)
(***************************************************************************)
Sessions == objects \cup BusyClients

Distinct ==
    /\ \A j, k \in DOMAIN creating : creating[j] = creating[k] => j = k
    /\ objects \cap BusyClients = {}

LInv == RInv /\ Distinct

LEMMA BusyPushed ==
    ASSUME IInv, NEW c \in Clients, c \notin BusyClients,
           creating' = <<c>> \o creating,
           \A j, k \in DOMAIN creating : creating[j] = creating[k] => j = k
    PROVE  /\ BusyClients' = BusyClients \cup {c}
           /\ \A j, k \in DOMAIN creating' : creating'[j] = creating'[k] => j = k
<1>1. creating \in Seq(Clients) /\ Len(creating) \in Nat
      /\ DOMAIN creating = 1 .. Len(creating)
  BY Types
<1>2. /\ creating' \in Seq(Clients) /\ Len(creating') = Len(creating) + 1
      /\ creating'[1] = c
      /\ \A k \in 2 .. Len(creating) + 1 : creating'[k] = creating[k - 1]
  BY <1>1, Pushed
<1>3. DOMAIN creating' = 1 .. Len(creating) + 1
  BY <1>2
<1>4. ASSUME NEW k \in DOMAIN creating', k # 1
      PROVE  /\ k \in Int /\ k - 1 \in DOMAIN creating
             /\ creating'[k] = creating[k - 1] /\ creating'[k] # c
  <2>1. k \in 2 .. Len(creating) + 1
    BY <1>1, <1>3, <1>4
  <2>2. k - 1 \in DOMAIN creating /\ creating'[k] = creating[k - 1]
    BY <1>1, <1>2, <2>1
  <2> QED
    BY <2>1, <2>2 DEF BusyClients
<1>5. \A k \in DOMAIN creating : k + 1 \in DOMAIN creating' /\ creating'[k + 1] = creating[k]
  <2> SUFFICES ASSUME NEW k \in DOMAIN creating
               PROVE  k + 1 \in DOMAIN creating' /\ creating'[k + 1] = creating[k]
    OBVIOUS
  <2>1. k + 1 \in 2 .. Len(creating) + 1 /\ (k + 1) - 1 = k
    BY <1>1
  <2>2. k + 1 \in DOMAIN creating'
    BY <1>1, <1>3
  <2> QED
    BY <1>2, <2>1, <2>2
<1>6. 1 \in DOMAIN creating'
  BY <1>1, <1>3
<1>7. BusyClients' = BusyClients \cup {c}
  <2>1. \A x \in BusyClients' : x \in BusyClients \cup {c}
    BY <1>2, <1>4 DEF BusyClients
  <2>2. ASSUME NEW x \in BusyClients
        PROVE  x \in BusyClients'
    <3>1. PICK k \in DOMAIN creating : x = creating[k]
      BY <2>2 DEF BusyClients
    <3>2. k + 1 \in DOMAIN creating' /\ creating'[k + 1] = x
      BY <1>5, <3>1
    <3> QED
      BY <3>2 DEF BusyClients
  <2>3. c \in BusyClients'
    BY <1>2, <1>6 DEF BusyClients
  <2> QED
    BY <2>1, <2>2, <2>3
<1>8. ASSUME NEW j \in DOMAIN creating', NEW k \in DOMAIN creating',
             creating'[j] = creating'[k]
      PROVE  j = k
  <2>1. CASE j = 1 \/ k = 1
    BY <1>2, <1>4, <1>8, <2>1
  <2>2. CASE j # 1 /\ k # 1
    <3>1. j - 1 = k - 1 /\ j \in Int /\ k \in Int
      BY <1>4, <1>8, <2>2
    <3> QED
      BY <3>1
  <2> QED
    BY <2>1, <2>2
<1> QED
  BY <1>7, <1>8

LEMMA BusyPopped ==
    ASSUME IInv, creating # <<>>, creating' = Tail(creating),
           \A j, k \in DOMAIN creating : creating[j] = creating[k] => j = k
    PROVE  /\ creating[1] \in BusyClients
           /\ BusyClients' = BusyClients \ {creating[1]}
           /\ \A j, k \in DOMAIN creating' : creating'[j] = creating'[k] => j = k
<1>1. creating \in Seq(Clients) /\ Len(creating) \in Nat
      /\ DOMAIN creating = 1 .. Len(creating)
  BY Types
<1>2. /\ creating' \in Seq(Clients) /\ Len(creating) > 0
      /\ Len(creating') = Len(creating) - 1
      /\ \A k \in 1 .. Len(creating) - 1 : creating'[k] = creating[k + 1]
  BY <1>1, Popped
<1>3. DOMAIN creating' = 1 .. Len(creating) - 1 /\ 1 \in DOMAIN creating
  BY <1>1, <1>2
<1>4. ASSUME NEW k \in DOMAIN creating'
      PROVE  /\ k \in Int /\ k + 1 \in DOMAIN creating /\ k + 1 # 1
             /\ creating'[k] = creating[k + 1]
  BY <1>1, <1>2, <1>3
<1>5. ASSUME NEW k \in DOMAIN creating, k # 1
      PROVE  k - 1 \in DOMAIN creating' /\ creating'[k - 1] = creating[k]
  <2>1. k - 1 \in 1 .. Len(creating) - 1 /\ (k - 1) + 1 = k
    BY <1>1, <1>5
  <2>2. creating'[k - 1] = creating[(k - 1) + 1]
    BY <1>2, <2>1
  <2> QED
    BY <1>3, <2>1, <2>2
<1>6. BusyClients' = BusyClients \ {creating[1]}
  <2>1. \A x \in BusyClients' : x \in BusyClients \ {creating[1]}
    BY <1>3, <1>4 DEF BusyClients
  <2>2. ASSUME NEW x \in BusyClients \ {creating[1]}
        PROVE  x \in BusyClients'
    <3>1. PICK k \in DOMAIN creating : x = creating[k]
      BY <2>2 DEF BusyClients
    <3>2. k - 1 \in DOMAIN creating' /\ creating'[k - 1] = x
      BY <1>5, <2>2, <3>1
    <3> QED
      BY <3>2 DEF BusyClients
  <2> QED
    BY <2>1, <2>2
<1>7. ASSUME NEW j \in DOMAIN creating', NEW k \in DOMAIN creating',
             creating'[j] = creating'[k]
      PROVE  j = k
  <2>1. j + 1 = k + 1 /\ j \in Int /\ k \in Int
    BY <1>4, <1>7
  <2> QED
    BY <2>1
<1> QED
  BY <1>3, <1>6, <1>7 DEF BusyClients

LEMMA DistinctNext ==
    ASSUME NoFactories, LInv, [Next]_vars
    PROVE  Distinct'
<1> USE DEF LInv, RInv, XInv, SInv
<1>1. CASE UNCHANGED <<objects, creating>>
  BY <1>1 DEF Distinct, BusyClients
<1>2. CASE LoadFailureReturns
  <2>1. creating # <<>> /\ creating' = Tail(creating) /\ UNCHANGED objects
    BY <1>2 DEF LoadFailureReturns
  <2> QED
    BY <2>1, BusyPopped DEF Distinct
<1>3. ASSUME NEW c \in Clients, NEW i \in Slots, Activate(c, i)
      PROVE  Distinct'
  <2>1. c \notin objects \cup BusyClients
    BY <1>3 DEF Activate, Calls, Idle, HoldsNothing
  <2>2. CASE CreateContainer(c)
    BY <2>1, <2>2 DEF CreateContainer, Distinct, BusyClients
  <2>3. CASE LoadFails(c)
    <3>1. creating' = <<c>> \o creating /\ UNCHANGED objects
      BY <2>3 DEF LoadFails
    <3> QED
      BY <2>1, <3>1, BusyPushed DEF Distinct
  <2> QED
    BY <1>3, <2>2, <2>3 DEF Activate
<1>4. ASSUME NEW c \in Clients, ReleaseContainer(c) \/ RundownContainer(c)
      PROVE  Distinct'
  BY <1>4 DEF ReleaseContainer, RundownContainer, Distinct, BusyClients
<1>5. ASSUME NEW c \in Clients, ClientCall(c)
      PROVE  Distinct'
  BY <1>1, <1>3, <1>4, <1>5, CallsWithoutFactories DEF Crash
<1> QED
  BY <1>1, <1>2, <1>5
     DEF Next, MainStep, ExitStep, TimerStep, IdleStep, QuitStep, Ended, vars,
         clientVars

(* The count tells whether there are sessions.                             *)
LEMMA NoSessions == RInv => (refs = 0 <=> Sessions = {})
<1> SUFFICES ASSUME RInv PROVE refs = 0 <=> Sessions = {}
  OBVIOUS
<1> USE DEF RInv, XInv, SInv
<1>1. CASE refs = 0
  BY <1>1, NobodyThere DEF Sessions, BusyClients
<1>2. CASE Sessions = {}
  <2>1. objects = {} /\ creating = <<>>
    <3>1. creating # <<>> => creating[1] \in BusyClients
      BY Types DEF BusyClients
    <3> QED
      BY <1>2, <3>1 DEF Sessions
  <2> QED
    BY <1>2, <2>1, FS_EmptySet DEF IInv, ServerRefsBalanced, Deserted
<1> QED
  BY <1>1, <1>2

(* A step that shows neither in the stage nor in the sessions.             *)
LEMMA LifetimeStutters ==
    ASSUME UNCHANGED <<objects, creating, windowQuit>>,
           \/ UNCHANGED <<main, table>>
           \/ /\ UNCHANGED table
              /\ main \in {"start", "exec"} /\ main' \in {"exec", "teardown"}
           \/ /\ main \in {"construct", "lookup", "register", "finish", "noclass"}
              /\ main' \in {"construct", "lookup", "register", "finish", "noclass"}
    PROVE  UNCHANGED Lifetime!lifetime
BY DEF LifetimeStage, SomeClassActive, BusyClients, Lifetime!lifetime

LEMMA LifetimeMainStep ==
    ASSUME LInv, MainStep
    PROVE  [Lifetime!LNext]_(Lifetime!lifetime)
<1> USE DEF LInv, RInv, XInv, SInv
<1>1. UNCHANGED <<objects, creating, refs, windowQuit>>
  BY WindowQuitStays
     DEF MainStep, MainThread, BeginRegistration, LookupOriginal,
         RegisterClass, RegisterClassFails, FinishRegistration,
         NoClassRegistered, ExitWithoutClass, StartExec, ExecReturns, Teardown,
         StartupBoxReturns, clientVars, comVars
<1>2. CASE \/ BeginRegistration \/ LookupOriginal \/ RegisterClass
           \/ RegisterClassFails \/ NoClassRegistered
  <2>1. main \in {"construct", "lookup", "register", "finish", "noclass"}
        /\ main' \in {"construct", "lookup", "register", "finish", "noclass"}
    BY <1>2 DEF BeginRegistration, LookupOriginal, RegisterClass, AfterSpec,
                RegisterClassFails, NoClassRegistered, At
  <2> QED
    BY <1>1, <2>1, LifetimeStutters
<1>3. CASE FinishRegistration \/ ExitWithoutClass
  <2>1. main \in {"finish", "noclass"} /\ main' = "start"
    BY <1>3 DEF FinishRegistration, ExitWithoutClass, At
  <2>2. LifetimeStage = "starting" /\ LifetimeStage' \in {"open", "closed"}
    BY <2>1 DEF LifetimeStage
  <2>3. Lifetime!Begin
    BY <1>1, <2>2 DEF Lifetime!Begin, BusyClients
  <2> QED
    BY <2>3 DEF Lifetime!LNext
<1>4. CASE StartExec \/ ExecReturns
  <2>1. UNCHANGED table /\ main \in {"start", "exec"} /\ main' \in {"exec", "teardown"}
    BY <1>4, BottomTells DEF StartExec, ExecReturns, At, comVars
  <2> QED
    BY <1>1, <2>1, LifetimeStutters
<1>5. CASE Teardown
  <2>1. main = "teardown" /\ main' = "gone"
    BY <1>5 DEF Teardown, At
  <2>2. /\ LifetimeStage \in {"open", "closed"} /\ LifetimeStage' = "gone"
        /\ LifetimeStage = "closed" \/ windowQuit
    BY <2>1 DEF LifetimeStage, DoorInv
  <2>3. Sessions = {} \/ windowQuit
    BY <2>1, NoSessions DEF Deserted, Ending
  <2>4. Lifetime!Finish
    BY <1>1, <2>2, <2>3 DEF Lifetime!Finish, BusyClients, Sessions
  <2> QED
    BY <2>4 DEF Lifetime!LNext
<1>6. CASE StartupBoxReturns
  BY <1>1, <1>6, LifetimeStutters
     DEF StartupBoxReturns, comVars, standaloneVars
<1> QED
  BY <1>2, <1>3, <1>4, <1>5, <1>6 DEF MainStep, MainThread

(* A running loop means that the host serves.                              *)
LEMMA LoopsServe ==
    ASSUME XInv, loops # <<>>
    PROVE  Serving
BY DEF XInv, SInv, Nested, DoorInv, Constructing, Serving, IInv, TypeOK,
       StandaloneTypeOK, Point

LEMMA LifetimeDelivery ==
    ASSUME LInv, ExitStep \/ TimerStep \/ IdleStep
    PROVE  [Lifetime!LNext]_(Lifetime!lifetime)
<1> USE DEF LInv, RInv, XInv, SInv
<1>1. UNCHANGED <<objects, creating, main, refs, windowQuit>> /\ loops # <<>>
      /\ (UNCHANGED table \/ (Pumping /\ CoProbeServerProcess /\ refs = 0))
  BY WindowQuitStays
     DEF ExitStep, TimerStep, IdleStep, ProcessExit, CheckForExit,
         CheckForExitBusy, CheckForExitWarn, CheckForExitIdle, TimerFires,
         Pumping, CloseBox, Pop, In, CoProbeServerProcess, IdleWarningReturns,
         comVars, standaloneVars, clientVars
<1>2. CASE UNCHANGED table
  BY <1>1, <1>2, LifetimeStutters
<1>3. CASE Pumping /\ CoProbeServerProcess /\ refs = 0
  <2>1. main = "exec" /\ main' = "exec" /\ ~SomeClassActive' /\ Sessions = {}
        /\ ~windowQuit
    BY <1>1, <1>3, LoopsServe, ZeroCloses, NoSessions, NotQuitYet DEF Serving
  <2>2. LifetimeStage' = "closed"
    BY <2>1 DEF LifetimeStage
  <2>3. CASE SomeClassActive
    <3>1. LifetimeStage = "open"
      BY <2>1, <2>3 DEF LifetimeStage
    <3>2. Lifetime!Expire
      BY <1>1, <2>1, <2>2, <3>1 DEF Lifetime!Expire, Sessions, BusyClients
    <3> QED
      BY <3>2 DEF Lifetime!LNext
  <2>4. CASE ~SomeClassActive
    <3>1. LifetimeStage = "closed"
      BY <2>1, <2>4 DEF LifetimeStage
    <3> QED
      BY <1>1, <2>2, <3>1 DEF BusyClients, Lifetime!lifetime
  <2> QED
    BY <2>3, <2>4
<1> QED
  BY <1>1, <1>2, <1>3

(* Qt's own quit is the interruption of the abstract host.                 *)
LEMMA LifetimeQuit ==
    ASSUME LInv, QuitStep
    PROVE  [Lifetime!LNext]_(Lifetime!lifetime)
<1> USE DEF LInv, RInv, XInv, SInv
<1>1. UNCHANGED <<objects, creating, main, table>> /\ Pumping
  BY DEF QuitStep, LastWindowQuits, comVars, standaloneVars, clientVars
<1>2. ~windowQuit /\ main = "exec"
  BY <1>1, NotQuitYet, LoopsServe DEF Serving, Pumping
<1>3. windowQuit' = ~exitPosted
  BY DEF QuitStep, LastWindowQuits
<1>4. CASE exitPosted
  <2>1. windowQuit' = FALSE
    BY <1>3, <1>4, Zenon
  <2>2. UNCHANGED windowQuit
    BY <1>2, <2>1 DEF IInv, TypeOK, RuntimeTypeOK
  <2> QED
    BY <1>1, <2>2, LifetimeStutters
<1>5. CASE ~exitPosted
  <2>1. windowQuit' = TRUE
    BY <1>3, <1>5, Zenon
  <2>2. LifetimeStage \in {"open", "closed"} /\ UNCHANGED LifetimeStage
    BY <1>1, <1>2 DEF LifetimeStage, SomeClassActive
  <2>3. Lifetime!Interrupt
    BY <1>1, <1>2, <2>1, <2>2 DEF Lifetime!Interrupt, BusyClients
  <2> QED
    BY <2>3 DEF Lifetime!LNext
<1> QED
  BY <1>4, <1>5

(* The end of a session: the last one closes the host.                     *)
LEMMA SessionEnds ==
    ASSUME LInv, RInv', NEW c \in Sessions, Sessions' = Sessions \ {c},
           ReleaseServerReference, UNCHANGED <<main, windowQuit>>, Serving,
           ~windowQuit
    PROVE  Lifetime!End(c)
<1> USE DEF LInv, RInv, XInv, SInv
<1>1. refs \in Nat /\ refs # 0 /\ refs' = refs - 1
  BY Types, NoSessions DEF ReleaseServerReference, CoReleaseServerProcess
<1>2. refs' = 0 <=> Sessions' = {}
  <2>1. (refs = 0 <=> Sessions = {})'
    BY NoSessions, PTL
  <2> QED
    BY <2>1
<1>3. LifetimeStage' = IF Sessions' = {} THEN "closed" ELSE LifetimeStage
  <2>1. CASE refs' = 0
    <3>1. ~SomeClassActive'
      BY <1>1, <2>1, ZeroCloses
    <3> QED
      BY <1>2, <2>1, <3>1 DEF LifetimeStage, Serving
  <2>2. CASE refs' # 0
    <3>1. UNCHANGED table
      BY <1>1, <2>2 DEF ReleaseServerReference, CoReleaseServerProcess
    <3> QED
      BY <1>2, <2>2, <3>1 DEF LifetimeStage, SomeClassActive
  <2> QED
    BY <2>1, <2>2
<1> QED
  BY <1>3 DEF Lifetime!End, Sessions

LEMMA LifetimeNext ==
    ASSUME NoFactories, LInv, RInv', [Next]_vars
    PROVE  [Lifetime!LNext]_(Lifetime!lifetime)
<1> USE DEF LInv, RInv, XInv, SInv
<1>1. CASE LoadFailureReturns
  <2>1. /\ creating # <<>> /\ creating' = Tail(creating)
        /\ loops # <<>> /\ UNCHANGED <<main, objects, windowQuit>>
        /\ ReleaseServerReference /\ In("load")
    BY <1>1 DEF LoadFailureReturns, CloseBox, Pop, In, standaloneVars
  <2>2. creating[1] \in BusyClients /\ BusyClients' = BusyClients \ {creating[1]}
    BY <2>1, BusyPopped DEF Distinct
  <2>3. creating[1] \in Sessions /\ Sessions' = Sessions \ {creating[1]}
    BY <2>1, <2>2 DEF Sessions, Distinct
  <2>4. ~windowQuit
    BY <2>1, NotQuitYet DEF Frame
  <2>5. Lifetime!End(creating[1])
    BY <2>1, <2>3, <2>4, LoopsServe, SessionEnds
  <2>6. creating[1] \in Clients
    BY <2>1, Types
  <2> QED
    BY <2>5, <2>6 DEF Lifetime!LNext
<1>2. ASSUME NEW c \in Clients, ReleaseContainer(c) \/ RundownContainer(c)
      PROVE  Lifetime!LNext
  <2>1. /\ c \in objects /\ objects' = objects \ {c}
        /\ UNCHANGED <<main, creating, windowQuit>>
        /\ loops # <<>> /\ ReleaseServerReference /\ ~windowQuit
    BY <1>2, NotQuitYet
       DEF ReleaseContainer, RundownContainer, Calls, Pumping, windowVars,
           standaloneVars
  <2>2. c \in Sessions /\ Sessions' = Sessions \ {c}
    BY <2>1 DEF Sessions, Distinct, BusyClients
  <2>3. Lifetime!End(c)
    BY <2>1, <2>2, LoopsServe, SessionEnds
  <2> QED
    BY <2>3 DEF Lifetime!LNext
<1>3. ASSUME NEW c \in Clients, NEW i \in Slots, Activate(c, i)
      PROVE  Lifetime!LNext
  <2>1. /\ c \notin Sessions /\ loops # <<>> /\ table[i] = "active"
        /\ UNCHANGED <<main, windowQuit>> /\ ~windowQuit
    BY <1>3, NotQuitYet
       DEF Activate, Calls, Idle, Pumping, HoldsNothing, HandOut, Sessions,
           CreateContainer, LoadFails, ShowBox, qtVars, windowVars,
           standaloneVars
  <2>2. main = "exec" /\ main' = "exec"
    BY <2>1, LoopsServe DEF Serving
  <2>3. LifetimeStage = "open" /\ LifetimeStage' \in {"open", "closed"}
    BY <2>1, <2>2 DEF LifetimeStage, SomeClassActive
  <2>4. Sessions' = Sessions \cup {c}
    <3>1. CASE CreateContainer(c)
      BY <3>1 DEF CreateContainer, Sessions, BusyClients
    <3>2. CASE LoadFails(c)
      <4>1. creating' = <<c>> \o creating /\ UNCHANGED objects
        BY <3>2 DEF LoadFails
      <4>2. BusyClients' = BusyClients \cup {c}
        BY <2>1, <4>1, BusyPushed DEF Distinct, Sessions
      <4> QED
        BY <4>1, <4>2 DEF Sessions
    <3> QED
      BY <1>3, <3>1, <3>2 DEF Activate
  <2>5. Lifetime!Serve(c)
    BY <2>1, <2>3, <2>4 DEF Lifetime!Serve, Sessions
  <2> QED
    BY <2>5 DEF Lifetime!LNext
<1>4. ASSUME NEW c \in Clients, Crash(c)
      PROVE  UNCHANGED Lifetime!lifetime
  BY <1>4, LifetimeStutters
     DEF Crash, comVars, runtimeVars, qtVars, windowVars, standaloneVars
<1>5. CASE UNCHANGED vars
  BY <1>5, LifetimeStutters
     DEF vars, comVars, runtimeVars, qtVars, windowVars, standaloneVars,
         clientVars
<1>6. ASSUME NEW c \in Clients, ClientCall(c)
      PROVE  [Lifetime!LNext]_(Lifetime!lifetime)
  BY <1>2, <1>3, <1>4, <1>6, CallsWithoutFactories
<1> QED
  BY <1>1, <1>5, <1>6, LifetimeMainStep, LifetimeDelivery, LifetimeQuit
     DEF Next, Ended

(* A standalone host opens for clients once, serves them, closes with the  *)
(* last of them or when nobody comes, never opens again, and ends only     *)
(* when nobody is being served or Qt's own quit interrupts it: every step  *)
(* of it is a step of ServerLifetime or shows nothing there.  Clients may  *)
(* crash, and loads, suspensions and revocations fail.                     *)
THEOREM ImplementsLifetime ==
    QuietStartup /\ NoFactories => (Spec => Lifetime!LSafety)
<1> SUFFICES ASSUME QuietStartup, NoFactories PROVE Spec => Lifetime!LSafety
  OBVIOUS
<1>1. Init => LInv
  BY InitRInv DEF Init, LInv, Distinct, BusyClients
<1>2. LInv /\ [Next]_vars => LInv'
  BY NextRInv, DistinctNext DEF LInv
<1>3. Init => Lifetime!LInit
  BY DEF Init, StandaloneInit, RuntimeInit, Lifetime!LInit, LifetimeStage,
         BusyClients
<1>4. LInv /\ LInv' /\ [Next]_vars => [Lifetime!LNext]_(Lifetime!lifetime)
  BY LifetimeNext DEF LInv
<1> QED
  BY <1>1, <1>2, <1>3, <1>4, PTL DEF Spec, Lifetime!LSafety
=============================================================================
