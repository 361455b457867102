------------------------ MODULE StandaloneHost_proofs ------------------------
(***************************************************************************)
(* Theorems about StandaloneHost, for every set of clients, every set of   *)
(* command lines, and every choice of faults and habits.                   *)
(***************************************************************************)
EXTENDS StandaloneHost, FiniteSetTheorems, TLAPS

(* The specification the constructor is at exists.                         *)
AtSpec ==
    /\ main = "construct" => idx = 1
    /\ main \in {"lookup", "register"} => idx \in DOMAIN cmd.specs

IInv == TypeOK /\ AtSpec /\ ServerRefsBalanced

-----------------------------------------------------------------------------
(* Sets of clients are finite, and their cardinalities are numbers.        *)
LEMMA ClientSets ==
    ASSUME NEW S, S \subseteq Clients
    PROVE  IsFiniteSet(S) /\ Cardinality(S) \in Nat
BY ClientsAssumption, FS_Subset, FS_CardinalityType

(* A client that takes its first container, or lock, adds one.             *)
LEMMA ClientAdded ==
    ASSUME NEW S, S \subseteq Clients, NEW c, c \in Clients \ S
    PROVE  Cardinality(S \cup {c}) = Cardinality(S) + 1
BY ClientSets, FS_AddElement

(* A client that gives it back removes one.                                *)
LEMMA ClientRemoved ==
    ASSUME NEW S, S \subseteq Clients, NEW c, c \in S
    PROVE  Cardinality(S \ {c}) = Cardinality(S) - 1
BY ClientSets, FS_RemoveElement

LEMMA ClientCounted ==
    ASSUME NEW S, S \subseteq Clients, NEW c, c \in S
    PROVE  Cardinality(S) > 0
<1>1. Cardinality(S \ {c}) \in Nat /\ Cardinality(S) \in Nat
  BY ClientSets
<1> QED
  BY <1>1, ClientRemoved

(* Suspending, resuming and handing out stay within the slot states.       *)
LEMMA TableTypes ==
    ASSUME NEW t \in [Slots -> SlotState]
    PROVE  /\ Suspended(t) \in [Slots -> SlotState]
           /\ Resumed(t) \in [Slots -> SlotState]
           /\ \A i, v : v \in SlotState =>
                 [t EXCEPT ![i] = v] \in [Slots -> SlotState]
BY DEF Suspended, Resumed, SlotState

(* Opening a message box, and coming back from the innermost loop.         *)
LEMMA StackTypes ==
    ASSUME NEW T, NEW s \in Seq(T), NEW e \in T
    PROVE  /\ <<e>> \o s \in Seq(T)
           /\ Len(<<e>> \o s) = Len(s) + 1
           /\ s # <<>> => Tail(s) \in Seq(T) /\ Len(Tail(s)) = Len(s) - 1
                          /\ Len(s) \in Nat /\ Len(s) > 0
OBVIOUS

(* Message boxes set and clear Qt's quit, whatever the last window was.    *)
LEMMA WindowTypes ==
    ASSUME RuntimeTypeOK,
           (\E frame : ShowBox(frame) \/ CloseBox(frame)) \/ UNCHANGED windowVars
    PROVE  quitPosted' \in BOOLEAN /\ windowQuit' \in BOOLEAN
BY Zenon DEF ShowBox, CloseBox, windowVars, RuntimeTypeOK

-----------------------------------------------------------------------------
LEMMA InitIInv == Init => IInv
<1> SUFFICES ASSUME Init PROVE IInv
  OBVIOUS
<1>1. TypeOK
  <2>1. ComTypeOK
    BY DEF Init, ComInit, ComTypeOK, SlotState
  <2>2. loops \in Seq(Frame) /\ creating \in Seq(Clients)
    BY DEF Init, RuntimeInit
  <2>3. RuntimeTypeOK
    BY <2>2 DEF Init, RuntimeInit, RuntimeTypeOK
  <2>4. main \in Point /\ idx \in Nat /\ cookies \subseteq CookieKind
    BY DEF Init, StandaloneInit, Point
  <2>5. StandaloneTypeOK
    BY <2>4, Zenon DEF Init, StandaloneInit, StandaloneTypeOK
  <2> QED
    BY <2>1, <2>2, <2>3, <2>5 DEF Init, TypeOK
<1>2. AtSpec
  BY DEF Init, StandaloneInit, AtSpec
<1>3. ServerRefsBalanced
  BY FS_EmptySet DEF Init, ComInit, ServerRefsBalanced
<1> QED
  BY <1>1, <1>2, <1>3 DEF IInv

(* The code of the GUI thread: the constructor, exec and the destructor.   *)
LEMMA MainStepIInv ==
    ASSUME IInv, MainStep
    PROVE  IInv'
<1> USE DEF IInv, clientVars, comVars, runtimeVars, qtVars, windowVars
<1>1. ServerRefsBalanced'
  <2>1. UNCHANGED <<refs, clientVars>>
    BY DEF MainStep, MainThread, BeginRegistration, LookupOriginal,
           RegisterClass, RegisterClassFails, FinishRegistration,
           NoClassRegistered, ExitWithoutClass, StartExec, ExecReturns,
           Teardown, StartupBoxReturns
  <2> QED
    BY <2>1 DEF ServerRefsBalanced
<1>2. CASE BeginRegistration
  <2>1. 1 \in DOMAIN cmd.specs
    BY <1>2, CommandsAssumption
       DEF BeginRegistration, TypeOK, StandaloneTypeOK, Command
  <2>2. AtSpec' /\ main' \in Point
    BY <1>2, <2>1 DEF BeginRegistration, At, AtSpec, Point
  <2>3. table' \in [Slots -> SlotState]
    BY <1>2, TableTypes DEF BeginRegistration, TypeOK, ComTypeOK
  <2>4. sus' \in BOOLEAN
    BY <1>2 DEF BeginRegistration, Succeeds
  <2> QED
    BY <1>1, <1>2, <2>2, <2>3, <2>4
       DEF BeginRegistration, MainStep, TypeOK, ComTypeOK, RuntimeTypeOK,
           StandaloneTypeOK
<1>3. CASE LookupOriginal
  <2>1. loops' \in Seq(Frame)
    <3>1. \E show : StartupBox(show)
      BY <1>3, Zenon DEF LookupOriginal
    <3>2. loops' = <<"startup">> \o loops \/ loops' = loops
      BY <3>1, Zenon DEF StartupBox, Push, ShowBox
    <3> QED
      BY <3>2, StackTypes DEF Frame, TypeOK, RuntimeTypeOK
  <2>2. original' \in BOOLEAN
    BY <1>3 DEF LookupOriginal, Succeeds
  <2>3. AtSpec' /\ main' \in Point
    BY <1>3 DEF LookupOriginal, At, AtSpec, Point
  <2>4. quitPosted' \in BOOLEAN /\ windowQuit' \in BOOLEAN
    BY <1>3, WindowTypes DEF LookupOriginal, StartupBox, windowVars, TypeOK
  <2> QED
    BY <1>1, <1>3, <2>1, <2>2, <2>3, <2>4
       DEF LookupOriginal, MainStep, TypeOK, ComTypeOK, RuntimeTypeOK,
           StandaloneTypeOK
<1>4. CASE RegisterClass
  <2>1. idx \in Slots /\ idx \in Nat
    BY <1>4, CommandsAssumption
       DEF RegisterClass, At, AtSpec, TypeOK, StandaloneTypeOK
  <2>2. cookies' \subseteq CookieKind
    BY <1>4, <2>1
       DEF RegisterClass, CookieKind, TypeOK, StandaloneTypeOK
  <2>3. table' \in [Slots -> SlotState]
    <3>1. Registered(Sanitized(idx)) \in SlotState
      BY DEF Registered, SlotState
    <3> QED
      BY <1>4, <3>1, TableTypes DEF RegisterClass, TypeOK, ComTypeOK
  <2>4. AtSpec' /\ main' \in Point
    BY <1>4 DEF RegisterClass, AfterSpec, AtSpec, Point
  <2>5. idx' \in Nat /\ original' \in BOOLEAN
    <3>1. idx' \in Nat
      BY <1>4, <2>1 DEF RegisterClass
    <3>2. original' \in BOOLEAN
      BY <1>4, Zenon DEF RegisterClass
    <3> QED
      BY <3>1, <3>2
  <2> QED
    BY <1>1, <1>4, <2>2, <2>3, <2>4, <2>5
       DEF RegisterClass, MainStep, TypeOK, ComTypeOK, RuntimeTypeOK,
           StandaloneTypeOK
<1>5. CASE RegisterClassFails
  <2>1. loops' \in Seq(Frame)
    BY <1>5 DEF RegisterClassFails, Push, ShowBox, Frame, TypeOK, RuntimeTypeOK
  <2>2. AtSpec' /\ main' \in Point
    BY <1>5 DEF RegisterClassFails, AfterSpec, AtSpec, Point
  <2>3. idx' \in Nat /\ original' \in BOOLEAN /\ hr' \in BOOLEAN
    <3>1. idx' \in Nat
      BY <1>5 DEF RegisterClassFails, TypeOK, StandaloneTypeOK
    <3>2. original' \in BOOLEAN /\ hr' \in BOOLEAN
      BY <1>5, Zenon DEF RegisterClassFails
    <3> QED
      BY <3>1, <3>2
  <2>4. quitPosted' \in BOOLEAN /\ windowQuit' \in BOOLEAN
    BY <1>5, WindowTypes DEF RegisterClassFails, windowVars, TypeOK
  <2> QED
    BY <1>1, <1>5, <2>1, <2>2, <2>3, <2>4
       DEF RegisterClassFails, MainStep, TypeOK, ComTypeOK, RuntimeTypeOK,
           StandaloneTypeOK
<1>6. CASE FinishRegistration
  <2>1. table' \in [Slots -> SlotState]
    BY <1>6, TableTypes DEF FinishRegistration, TypeOK, ComTypeOK
  <2>2. AtSpec' /\ main' \in Point
    BY <1>6 DEF FinishRegistration, AtSpec, Point
  <2> QED
    BY <1>1, <1>6, <2>1, <2>2
       DEF FinishRegistration, MainStep, TypeOK, ComTypeOK, RuntimeTypeOK,
           StandaloneTypeOK
<1>7. CASE NoClassRegistered
  <2>1. loops' \in Seq(Frame)
    BY <1>7 DEF NoClassRegistered, Push, ShowBox, Frame, TypeOK, RuntimeTypeOK
  <2>2. AtSpec' /\ main' \in Point
    BY <1>7 DEF NoClassRegistered, AtSpec, Point
  <2>3. quitPosted' \in BOOLEAN /\ windowQuit' \in BOOLEAN
    BY <1>7, WindowTypes DEF NoClassRegistered, windowVars, TypeOK
  <2> QED
    BY <1>1, <1>7, <2>1, <2>2, <2>3
       DEF NoClassRegistered, MainStep, TypeOK, ComTypeOK, RuntimeTypeOK,
           StandaloneTypeOK
<1>8. CASE ExitWithoutClass
  <2>1. AtSpec' /\ main' \in Point
    BY <1>8 DEF ExitWithoutClass, AtSpec, Point
  <2> QED
    BY <1>1, <1>8, <2>1
       DEF ExitWithoutClass, ExitApplicationLater, MainStep, TypeOK, ComTypeOK,
           RuntimeTypeOK, StandaloneTypeOK
<1>9. CASE StartExec
  <2>1. loops' \in Seq(Frame)
    BY <1>9 DEF StartExec, Push, ShowBox, Frame, TypeOK, RuntimeTypeOK
  <2>2. AtSpec' /\ main' \in Point
    BY <1>9 DEF StartExec, AtSpec, Point
  <2> QED
    BY <1>1, <1>9, <2>1, <2>2
       DEF StartExec, MainStep, TypeOK, ComTypeOK, RuntimeTypeOK,
           StandaloneTypeOK
<1>10. CASE ExecReturns
  <2>1. loops' \in Seq(Frame)
    BY <1>10, StackTypes DEF ExecReturns, Pop, CloseBox, In, TypeOK,
                             RuntimeTypeOK
  <2>2. AtSpec' /\ main' \in Point
    BY <1>10 DEF ExecReturns, AtSpec, Point
  <2> QED
    BY <1>1, <1>10, <2>1, <2>2
       DEF ExecReturns, MainStep, TypeOK, ComTypeOK, RuntimeTypeOK,
           StandaloneTypeOK
<1>11. CASE Teardown
  <2>1. table' \in [Slots -> SlotState] /\ cookies' \subseteq CookieKind
    <3>1. PICK kept \in SUBSET (IF "revoke" \in Faults THEN cookies ELSE {}),
               ok \in Succeeds("suspend"), again \in Succeeds("resume") :
             LET revoked(t) == [i \in Slots |-> IF <<i, "surrogate">> \in kept
                                                THEN t[i] ELSE "absent"]
                 left == revoked(IF ok THEN Suspended(table) ELSE table)
             IN /\ cookies' = kept
                /\ table' = IF ok /\ kept # {} /\ again THEN Resumed(left)
                                                        ELSE left
      BY <1>11 DEF Teardown
    <3> DEFINE before == IF ok THEN Suspended(table) ELSE table
               left == [i \in Slots |-> IF <<i, "surrogate">> \in kept
                                        THEN before[i] ELSE "absent"]
    <3>2. before \in [Slots -> SlotState]
      BY TableTypes DEF TypeOK, ComTypeOK
    <3>3. left \in [Slots -> SlotState]
      BY <3>2 DEF SlotState
    <3>4. table' = Resumed(left) \/ table' = left
      BY <3>1
    <3>5. table' \in [Slots -> SlotState]
      BY <3>3, <3>4, TableTypes
    <3> QED
      BY <3>1, <3>5 DEF TypeOK, StandaloneTypeOK
  <2>2. AtSpec' /\ main' \in Point
    BY <1>11 DEF Teardown, AtSpec, Point
  <2> QED
    BY <1>1, <1>11, <2>1, <2>2
       DEF Teardown, MainStep, TypeOK, ComTypeOK, RuntimeTypeOK,
           StandaloneTypeOK
<1>12. CASE StartupBoxReturns
  <2>1. loops' \in Seq(Frame)
    BY <1>12, StackTypes DEF StartupBoxReturns, Pop, CloseBox, In, TypeOK,
                             RuntimeTypeOK
  <2>2. quitPosted' \in BOOLEAN /\ windowQuit' \in BOOLEAN
    BY <1>12, WindowTypes DEF StartupBoxReturns, windowVars, TypeOK
  <2> QED
    BY <1>1, <1>12, <2>1, <2>2
       DEF StartupBoxReturns, standaloneVars, AtSpec, MainStep, TypeOK,
           ComTypeOK, RuntimeTypeOK, StandaloneTypeOK
<1> QED
  BY <1>2, <1>3, <1>4, <1>5, <1>6, <1>7, <1>8, <1>9, <1>10, <1>11, <1>12
     DEF MainStep, MainThread

(* What the three operators on the count leave behind.                     *)
LEMMA ReleaseTypes ==
    ASSUME TypeOK, refs > 0, ReleaseServerReference
    PROVE  /\ refs' = refs - 1 /\ ComTypeOK'
           /\ timer' \in BOOLEAN /\ exitPosted' \in BOOLEAN
<1>1. refs' = refs - 1 /\ refs' \in Nat
  BY DEF ReleaseServerReference, CoReleaseServerProcess, TypeOK, ComTypeOK
<1>2. table' \in [Slots -> SlotState]
  BY TableTypes
     DEF ReleaseServerReference, CoReleaseServerProcess, TypeOK, ComTypeOK
<1>3. timer' \in BOOLEAN /\ exitPosted' \in BOOLEAN
  BY Zenon DEF ReleaseServerReference, OnLastRelease, CheckForExitLater,
               ExitApplicationLater, TypeOK, RuntimeTypeOK
<1> QED
  BY <1>1, <1>2, <1>3 DEF ComTypeOK

LEMMA ProbeTypes ==
    ASSUME TypeOK, CoProbeServerProcess
    PROVE  UNCHANGED refs /\ ComTypeOK'
BY TableTypes DEF CoProbeServerProcess, TypeOK, ComTypeOK

LEMMA HandOutTypes ==
    ASSUME TypeOK, NEW i \in Slots, HandOut(i)
    PROVE  table' \in [Slots -> SlotState]
BY TableTypes DEF HandOut, TypeOK, ComTypeOK, SlotState

(* Qt's deliveries: the posted exit, the timer and the end of the warning. *)
LEMMA RuntimeStepIInv ==
    ASSUME IInv, ExitStep \/ TimerStep \/ IdleStep \/ QuitStep
    PROVE  IInv'
<1> USE DEF IInv
<1>1. UNCHANGED <<standaloneVars, clientVars>>
  BY DEF ExitStep, TimerStep, IdleStep, QuitStep
<1>2. UNCHANGED refs /\ ComTypeOK'
  BY ProbeTypes
     DEF ExitStep, TimerStep, IdleStep, QuitStep, ProcessExit,
         IdleWarningReturns, LastWindowQuits, CheckForExit, CheckForExitBusy,
         CheckForExitWarn, CheckForExitIdle, comVars, TypeOK, ComTypeOK
<1>3. RuntimeTypeOK'
  <2>1. loops' \in Seq(Frame)
    BY StackTypes
       DEF ExitStep, TimerStep, IdleStep, QuitStep, ProcessExit,
           IdleWarningReturns, LastWindowQuits, CheckForExit, CheckForExitBusy,
           CheckForExitWarn, CheckForExitIdle, qtVars, windowVars, Push,
           ShowBox, Pop, CloseBox, In, Frame, TypeOK, RuntimeTypeOK
  <2>2. /\ quitNow' \in BOOLEAN /\ exitPosted' \in BOOLEAN /\ timer' \in BOOLEAN
        /\ warned' \in BOOLEAN /\ acquired' \in BOOLEAN
    BY DEF ExitStep, TimerStep, IdleStep, QuitStep, ProcessExit,
           IdleWarningReturns, LastWindowQuits, CheckForExit, CheckForExitBusy,
           CheckForExitWarn, CheckForExitIdle, CheckForExitLater,
           ExitApplicationLater, qtVars, windowVars, TypeOK, RuntimeTypeOK
  <2>3. quitPosted' \in BOOLEAN /\ windowQuit' \in BOOLEAN
    <3>1. CASE QuitStep
      BY <3>1, Zenon DEF QuitStep, LastWindowQuits, TypeOK, RuntimeTypeOK
    <3>2. CASE ExitStep \/ TimerStep \/ IdleStep
      <4>1. (\E frame : ShowBox(frame) \/ CloseBox(frame)) \/ UNCHANGED windowVars
        BY <3>2 DEF ExitStep, TimerStep, IdleStep, ProcessExit,
                    IdleWarningReturns, CheckForExit, CheckForExitBusy,
                    CheckForExitWarn, CheckForExitIdle, qtVars
      <4> QED
        BY <4>1, WindowTypes DEF TypeOK
    <3> QED
      BY <3>1, <3>2
  <2> QED
    BY <2>1, <2>2, <2>3 DEF RuntimeTypeOK
<1>4. AtSpec' /\ StandaloneTypeOK' /\ ServerRefsBalanced'
  BY <1>1, <1>2
     DEF standaloneVars, clientVars, TypeOK, StandaloneTypeOK, AtSpec,
         ServerRefsBalanced
<1> QED
  BY <1>1, <1>2, <1>3, <1>4 DEF clientVars, TypeOK

(* A CreateInstance whose control did not load gives its reference back.   *)
LEMMA LoadFailureReturnsIInv ==
    ASSUME IInv, LoadFailureReturns
    PROVE  IInv'
<1> USE DEF IInv
<1>1. Len(creating') = Len(creating) - 1 /\ Len(creating) \in Nat
      /\ Len(creating) > 0 /\ creating' \in Seq(Clients)
  BY StackTypes DEF LoadFailureReturns, TypeOK
<1>2. Cardinality(objects) \in Nat /\ Cardinality(locks) \in Nat
  BY ClientSets DEF TypeOK
<1>3. refs > 0
  BY <1>1, <1>2 DEF ServerRefsBalanced, TypeOK, ComTypeOK
<1>4. refs' = refs - 1 /\ ComTypeOK' /\ timer' \in BOOLEAN /\ exitPosted' \in BOOLEAN
  BY <1>3, ReleaseTypes DEF LoadFailureReturns
<1>5. loops' \in Seq(Frame)
  BY StackTypes DEF LoadFailureReturns, Pop, CloseBox, In, TypeOK,
                    RuntimeTypeOK
<1>6. ServerRefsBalanced'
  BY <1>1, <1>2, <1>4
     DEF LoadFailureReturns, ServerRefsBalanced, TypeOK, ComTypeOK
<1>7. AtSpec' /\ StandaloneTypeOK'
  BY DEF LoadFailureReturns, standaloneVars, AtSpec, TypeOK, StandaloneTypeOK
<1>8. quitPosted' \in BOOLEAN /\ windowQuit' \in BOOLEAN
  BY WindowTypes DEF LoadFailureReturns, TypeOK
<1> QED
  BY <1>1, <1>4, <1>5, <1>6, <1>7, <1>8 DEF LoadFailureReturns, TypeOK,
                                            RuntimeTypeOK

(* CreateInstance: the three outcomes, whatever happened to the table.     *)
LEMMA CreateIInv ==
    ASSUME IInv, NEW c \in Clients, c \notin objects,
           CreateContainer(c) \/ LoadFails(c),
           table' \in [Slots -> SlotState],
           UNCHANGED <<standaloneVars, locks, crashed>>,
           factories' \subseteq Clients
    PROVE  IInv'
<1> USE DEF IInv
<1>1. refs' = refs + 1 /\ refs' \in Nat /\ acquired' \in BOOLEAN
  <2>1. refs' = refs + 1 /\ acquired' = TRUE
    BY Zenon DEF CreateContainer, LoadFails, AddServerReference,
                 CoAddRefServerProcess
  <2> QED
    BY <2>1 DEF TypeOK, ComTypeOK
<1>2. Len(creating) \in Nat /\ Cardinality(objects) \in Nat
      /\ Cardinality(locks) \in Nat
  BY ClientSets DEF TypeOK
<1>3. loops' \in Seq(Frame) /\ creating' \in Seq(Clients)
  BY StackTypes DEF CreateContainer, LoadFails, qtVars, windowVars, Push,
                    ShowBox, Frame, TypeOK, RuntimeTypeOK
<1>4. Cardinality(objects') + Len(creating')
        = Cardinality(objects) + Len(creating) + 1
  <2>1. CASE CreateContainer(c)
    BY <1>2, <2>1, ClientAdded DEF CreateContainer, TypeOK
  <2>2. CASE LoadFails(c)
    BY <1>2, <2>2, StackTypes DEF LoadFails, TypeOK
  <2> QED
    BY <2>1, <2>2
<1>5. ServerRefsBalanced'
  <2>1. Cardinality(objects') \in Nat /\ Len(creating') \in Nat
    BY <1>3, ClientSets DEF CreateContainer, LoadFails, TypeOK
  <2> QED
    BY <1>1, <1>2, <1>4, <2>1 DEF ServerRefsBalanced
<1>6. AtSpec' /\ StandaloneTypeOK'
  BY DEF standaloneVars, AtSpec, TypeOK, StandaloneTypeOK
<1>7. RuntimeTypeOK'
  <2>1. quitPosted' \in BOOLEAN /\ windowQuit' \in BOOLEAN
    BY WindowTypes DEF CreateContainer, LoadFails, qtVars, windowVars, TypeOK
  <2> QED
    BY <1>1, <1>3, <2>1 DEF CreateContainer, LoadFails, qtVars, windowVars,
                            TypeOK, RuntimeTypeOK
<1> QED
  BY <1>1, <1>3, <1>5, <1>6, <1>7
     DEF CreateContainer, LoadFails, TypeOK, ComTypeOK

(* A container goes: its client releases it, or COM does for a dead client.*)
LEMMA DropContainerIInv ==
    ASSUME IInv, NEW c \in Clients, ReleaseContainer(c) \/ RundownContainer(c)
    PROVE  IInv'
<1> USE DEF IInv
<1>1. c \in objects /\ objects' = objects \ {c} /\ ReleaseServerReference
      /\ UNCHANGED <<loops, quitNow, windowVars, warned, acquired,
                     standaloneVars, creating, bare, factories, locks, crashed>>
  BY DEF ReleaseContainer, RundownContainer
<1>2. Cardinality(objects') = Cardinality(objects) - 1
      /\ Cardinality(objects) \in Nat /\ Cardinality(objects') \in Nat
  BY <1>1, ClientSets, ClientRemoved DEF TypeOK
<1>3. Len(creating) \in Nat /\ Cardinality(locks) \in Nat
  BY ClientSets DEF TypeOK
<1>4. refs > 0
  BY <1>2, <1>3 DEF ServerRefsBalanced
<1>5. refs' = refs - 1 /\ ComTypeOK' /\ timer' \in BOOLEAN /\ exitPosted' \in BOOLEAN
  BY <1>1, <1>4, ReleaseTypes
<1>6. ServerRefsBalanced'
  BY <1>1, <1>2, <1>3, <1>5 DEF ServerRefsBalanced
<1>7. AtSpec' /\ StandaloneTypeOK' /\ RuntimeTypeOK'
  BY <1>1, <1>5
     DEF windowVars, standaloneVars, AtSpec, TypeOK, StandaloneTypeOK,
         RuntimeTypeOK
<1> QED
  BY <1>1, <1>5, <1>6, <1>7 DEF TypeOK

(* LockServer, both ways.                                                  *)
LEMMA LockIInv ==
    ASSUME IInv, NEW c \in Clients, LockServer(c) \/ UnlockServer(c)
    PROVE  IInv'
<1> USE DEF IInv
<1>1. Len(creating) \in Nat /\ Cardinality(objects) \in Nat
      /\ Cardinality(locks) \in Nat
  BY ClientSets DEF TypeOK
<1>2. CASE LockServer(c)
  <2>1. refs' = refs + 1 /\ acquired' = TRUE /\ UNCHANGED table
    BY <1>2, Zenon DEF LockServer, AddServerReference, CoAddRefServerProcess
  <2>2. Cardinality(locks') = Cardinality(locks) + 1
    BY <1>2, ClientAdded DEF LockServer, TypeOK
  <2>3. ServerRefsBalanced' /\ ComTypeOK'
    BY <1>1, <1>2, <2>1, <2>2
       DEF LockServer, ServerRefsBalanced, TypeOK, ComTypeOK
  <2>4. AtSpec' /\ StandaloneTypeOK' /\ RuntimeTypeOK'
    BY <1>2, <2>1 DEF LockServer, qtVars, windowVars, standaloneVars, AtSpec,
                      TypeOK, StandaloneTypeOK, RuntimeTypeOK
  <2> QED
    BY <1>2, <2>3, <2>4 DEF LockServer, TypeOK
<1>3. CASE UnlockServer(c)
  <2>1. c \in locks /\ locks' = locks \ {c}
    BY <1>3 DEF UnlockServer
  <2>2. Cardinality(locks') = Cardinality(locks) - 1 /\ Cardinality(locks') \in Nat
    BY <2>1, ClientSets, ClientRemoved DEF TypeOK
  <2>3. refs > 0
    BY <1>1, <2>2 DEF ServerRefsBalanced
  <2>4. refs' = refs - 1 /\ ComTypeOK' /\ timer' \in BOOLEAN
        /\ exitPosted' \in BOOLEAN
    BY <1>3, <2>3, ReleaseTypes DEF UnlockServer
  <2>5. ServerRefsBalanced'
    BY <1>1, <1>3, <2>2, <2>4 DEF UnlockServer, ServerRefsBalanced
  <2>6. AtSpec' /\ StandaloneTypeOK' /\ RuntimeTypeOK'
    BY <1>3, <2>4 DEF UnlockServer, windowVars, standaloneVars, AtSpec, TypeOK,
                      StandaloneTypeOK, RuntimeTypeOK
  <2> QED
    BY <1>3, <2>1, <2>4, <2>5, <2>6 DEF UnlockServer, TypeOK
<1> QED
  BY <1>2, <1>3

(* An interface of the control: the container comes and goes in one call.  *)
LEMMA ControlOnlyIInv ==
    ASSUME IInv, NEW c \in Clients, CreateControlOnly(c),
           UNCHANGED <<standaloneVars, factories, locks, crashed>>
    PROVE  IInv'
<1> USE DEF IInv
<1>1. UNCHANGED refs /\ ComTypeOK'
  BY ProbeTypes DEF CreateControlOnly
<1>2. timer' \in BOOLEAN /\ exitPosted' \in BOOLEAN
  BY Zenon DEF CreateControlOnly, OnLastRelease, CheckForExitLater,
               ExitApplicationLater, TypeOK, RuntimeTypeOK
<1>3. RuntimeTypeOK'
  <2>1. acquired' = TRUE
    BY Zenon DEF CreateControlOnly
  <2> QED
    BY <1>2, <2>1 DEF CreateControlOnly, windowVars, TypeOK, RuntimeTypeOK
<1>4. AtSpec' /\ StandaloneTypeOK' /\ ServerRefsBalanced'
  BY <1>1 DEF CreateControlOnly, standaloneVars, AtSpec, TypeOK,
              StandaloneTypeOK, ServerRefsBalanced
<1> QED
  BY <1>1, <1>3, <1>4 DEF CreateControlOnly, TypeOK

LEMMA ClientCallIInv ==
    ASSUME IInv, NEW c \in Clients, ClientCall(c)
    PROVE  IInv'
<1>1. ASSUME NEW i \in Slots, Activate(c, i)
      PROVE  IInv'
  <2>1. table' \in [Slots -> SlotState]
    BY <1>1, HandOutTypes DEF Activate, IInv
  <2>2. c \notin objects /\ (CreateContainer(c) \/ LoadFails(c))
        /\ UNCHANGED <<standaloneVars, factories, locks, crashed>>
    BY <1>1 DEF Activate, HoldsNothing
  <2>3. factories' \subseteq Clients
    BY <2>2 DEF IInv, TypeOK
  <2> QED
    BY <2>1, <2>2, <2>3, CreateIInv
<1>2. ASSUME NEW i \in Slots, GetClassObject(c, i)
      PROVE  IInv'
  <2>1. table' \in [Slots -> SlotState]
    BY <1>2, HandOutTypes DEF GetClassObject, IInv
  <2> QED
    BY <1>2, <2>1
       DEF GetClassObject, runtimeVars, qtVars, windowVars, standaloneVars,
           IInv, AtSpec, TypeOK, ComTypeOK, RuntimeTypeOK, StandaloneTypeOK,
           ServerRefsBalanced
<1>3. CASE FactoryCreate(c)
  <2>1. CASE CreateControlOnly(c)
    BY <1>3, <2>1, ControlOnlyIInv DEF FactoryCreate
  <2>2. CASE UNCHANGED table /\ (CreateContainer(c) \/ LoadFails(c))
    <3>1. c \notin objects /\ factories' \subseteq Clients
          /\ table' \in [Slots -> SlotState]
      BY <1>3, <2>2 DEF FactoryCreate, HoldsNothing, IInv, TypeOK, ComTypeOK
    <3> QED
      BY <1>3, <2>2, <3>1, CreateIInv DEF FactoryCreate
  <2> QED
    BY <1>3, <2>1, <2>2 DEF FactoryCreate
<1>4. CASE ReleaseOther(c) \/ Crash(c) \/ RundownOther(c)
  BY <1>4
     DEF ReleaseOther, Crash, RundownOther, comVars, runtimeVars, qtVars,
         windowVars, standaloneVars, IInv, AtSpec, TypeOK, ComTypeOK,
         RuntimeTypeOK, StandaloneTypeOK, ServerRefsBalanced
<1> QED
  BY <1>1, <1>2, <1>3, <1>4, DropContainerIInv, LockIInv DEF ClientCall

LEMMA NextIInv == IInv /\ [Next]_vars => IInv'
<1> SUFFICES ASSUME IInv, [Next]_vars PROVE IInv'
  OBVIOUS
<1>1. CASE UNCHANGED vars
  BY <1>1 DEF vars, comVars, runtimeVars, qtVars, windowVars, standaloneVars,
              clientVars, IInv, AtSpec, TypeOK, ComTypeOK, RuntimeTypeOK,
              StandaloneTypeOK, ServerRefsBalanced
<1>2. CASE \E c \in Clients : ClientCall(c)
  BY <1>2, ClientCallIInv
<1> QED
  BY <1>1, <1>2, MainStepIInv, RuntimeStepIInv, LoadFailureReturnsIInv
     DEF Next, Ended

(* The inductive invariant holds in every state of every behaviour.        *)
THEOREM Inductive == Spec => []IInv
BY InitIInv, NextIInv, PTL DEF Spec

(* Every variable of the host stays in its range, for every set of clients *)
(* and command lines and every choice of faults and habits; in particular  *)
(* the process count is never released below zero.                         *)
THEOREM TypeCorrect == Spec => []TypeOK
<1>1. IInv => TypeOK
  BY DEF IInv
<1> QED
  BY <1>1, Inductive, PTL

(* The count of CoAddRefServerProcess is at any time the number of the     *)
(* containers that exist plus the locks that are held, message boxes,      *)
(* crashes of clients and failing loads included.                          *)
THEOREM RefsBalanced == Spec => []ServerRefsBalanced
<1>1. IInv => ServerRefsBalanced
  BY DEF IInv
<1> QED
  BY <1>1, Inductive, PTL

-----------------------------------------------------------------------------
(***************************************************************************)
(* The guard of the exit.  It can be lost only in a message box of the     *)
(* constructor, so the theorem is about hosts whose constructor shows      *)
(* none: the original class objects and the registrations do not fail.     *)
(***************************************************************************)
QuietStartup == Faults \cap {"original", "register"} = {}

Starting == {"construct", "lookup", "register", "finish", "start"}

(* Without a box the constructor's code runs in one go: no loop delivers   *)
(* anything, and the timer the base constructor started still runs.        *)
QuietConstructor ==
    /\ main # "noclass"
    /\ main = "finish" => HasRegisteredClass
    /\ main \in Starting => loops = <<>> /\ timer

GInv == IInv /\ QuietConstructor /\ ExitGuardArmed

(* A loop that starts or ends above it leaves the idle warning open.       *)
LEMMA IdleBoxStays ==
    ASSUME loops \in Seq(Frame), IdleBoxOpen,
           NEW f \in Frame, Push(f) \/ (f # "idle" /\ Pop(f))
    PROVE  IdleBoxOpen'
<1>1. PICK k \in DOMAIN loops : loops[k] = "idle"
  BY DEF IdleBoxOpen
<1>2. CASE Push(f)
  <2>1. k + 1 \in DOMAIN loops' /\ loops'[k + 1] = "idle"
    BY <1>1, <1>2 DEF Push, ShowBox
  <2> QED
    BY <2>1 DEF IdleBoxOpen
<1>3. CASE f # "idle" /\ Pop(f)
  <2>1. k # 1 /\ k \in 1 .. Len(loops)
    BY <1>1, <1>3 DEF Pop, CloseBox, In
  <2>2. k - 1 \in DOMAIN loops' /\ loops'[k - 1] = "idle"
    BY <1>1, <1>3, <2>1 DEF Pop, CloseBox, In
  <2> QED
    BY <2>2 DEF IdleBoxOpen
<1> QED
  BY <1>2, <1>3

(* A released reference that was the last one arms the timer or posts the  *)
(* exit; one that was not leaves references.                               *)
LEMMA ReleaseArms ==
    ASSUME ComTypeOK, refs > 0, ReleaseServerReference, refs' = 0
    PROVE  timer' \/ exitPosted'
BY DEF ReleaseServerReference, CoReleaseServerProcess, OnLastRelease,
       CheckForExitLater, ExitApplicationLater, ComTypeOK

LEMMA GuardMainStep ==
    ASSUME QuietStartup, GInv, MainStep
    PROVE  QuietConstructor' /\ ExitGuardArmed'
<1> USE DEF GInv
<1>1. CASE BeginRegistration
  BY <1>1 DEF BeginRegistration, At, runtimeVars, qtVars, windowVars,
              QuietConstructor, Starting, ExitGuardArmed, Serving,
              HasRegisteredClass
<1>2. CASE LookupOriginal
  <2>1. UNCHANGED loops
    BY <1>2 DEF LookupOriginal, Succeeds, QuietStartup, StartupBox
  <2> QED
    BY <1>2, <2>1 DEF LookupOriginal, At, QuietConstructor, Starting,
                      ExitGuardArmed, Serving, HasRegisteredClass
<1>3. CASE RegisterClass
  <2>1. cookies' # {}
    BY <1>3 DEF RegisterClass
  <2>2. main' \in {"lookup", "finish"}
    BY <1>3 DEF RegisterClass, AfterSpec
  <2> QED
    BY <1>3, <2>1, <2>2
       DEF RegisterClass, At, runtimeVars, qtVars, windowVars,
           QuietConstructor, Starting, ExitGuardArmed, Serving,
           HasRegisteredClass
<1>4. CASE RegisterClassFails
  BY <1>4 DEF RegisterClassFails, Succeeds, QuietStartup
<1>5. CASE FinishRegistration
  BY <1>5 DEF FinishRegistration, At, runtimeVars, qtVars, windowVars,
              QuietConstructor, Starting, ExitGuardArmed, Serving
<1>6. CASE NoClassRegistered \/ ExitWithoutClass
  BY <1>6 DEF NoClassRegistered, ExitWithoutClass, At, QuietConstructor
<1>7. CASE StartExec
  BY <1>7 DEF StartExec, At, QuietConstructor, Starting, ExitGuardArmed,
              ExitGuard, Serving
<1>8. CASE ExecReturns \/ Teardown
  BY <1>8 DEF ExecReturns, Teardown, QuietConstructor, Starting,
              ExitGuardArmed, Serving
<1>9. CASE StartupBoxReturns
  <2>1. UNCHANGED <<refs, main, cookies, timer, exitPosted, quitNow>>
    BY <1>9 DEF StartupBoxReturns, comVars, standaloneVars
  <2>2. IdleBoxOpen => IdleBoxOpen'
    BY <1>9, IdleBoxStays
       DEF StartupBoxReturns, CloseBox, Frame, IInv, TypeOK, RuntimeTypeOK
  <2>3. main \notin Starting
    BY <1>9 DEF StartupBoxReturns, Pop, CloseBox, In, QuietConstructor
  <2> QED
    BY <2>1, <2>2, <2>3 DEF QuietConstructor, ExitGuardArmed, ExitGuard,
                            Serving, HasRegisteredClass
<1> QED
  BY <1>1, <1>2, <1>3, <1>4, <1>5, <1>6, <1>7, <1>8, <1>9
     DEF MainStep, MainThread

(* What Qt delivers keeps the guard of a host without references.          *)
LEMMA DeliveryGuard ==
    ASSUME IInv, ExitStep \/ TimerStep \/ IdleStep \/ QuitStep, refs = 0
    PROVE  ExitGuard'
<1>1. CASE ExitStep
  BY <1>1 DEF ExitStep, ProcessExit, ExitGuard
<1>2. CASE IdleStep
  BY <1>2 DEF IdleStep, QuitStep, IdleWarningReturns, LastWindowQuits,
              ExitApplicationLater, ExitGuard
<1>3. CASE QuitStep
  BY <1>3 DEF QuitStep, LastWindowQuits, ExitGuard
<1>4. ASSUME CheckForExitWarn
      PROVE  IdleBoxOpen'
  <2>1. loops' = <<"idle">> \o loops /\ loops \in Seq(Frame)
    BY <1>4 DEF CheckForExitWarn, Push, ShowBox, IInv, TypeOK, RuntimeTypeOK
  <2>2. 1 \in DOMAIN loops' /\ loops'[1] = "idle"
    BY <2>1
  <2> QED
    BY <2>2 DEF IdleBoxOpen
<1>5. CASE TimerStep
  BY <1>4, <1>5 DEF TimerStep, CheckForExit, CheckForExitBusy,
                    CheckForExitIdle, ExitApplicationLater, ExitGuard
<1> QED
  BY <1>1, <1>2, <1>3, <1>5

(* In every other step the constructor is over, and the guard is kept.     *)
LEMMA GuardRuntimeStep ==
    ASSUME GInv, ExitStep \/ TimerStep \/ IdleStep \/ QuitStep
    PROVE  QuietConstructor' /\ ExitGuardArmed'
<1> USE DEF GInv
<1>1. UNCHANGED <<main, cookies, refs>>
  BY ProbeTypes
     DEF ExitStep, TimerStep, IdleStep, QuitStep, ProcessExit,
         IdleWarningReturns, LastWindowQuits, CheckForExit, CheckForExitBusy,
         CheckForExitWarn, CheckForExitIdle, comVars, standaloneVars, IInv
<1>2. loops # <<>>
  BY DEF ExitStep, TimerStep, IdleStep, QuitStep, ProcessExit,
         IdleWarningReturns, LastWindowQuits, CheckForExit, CheckForExitBusy,
         CheckForExitWarn, CheckForExitIdle, TimerFires, Pumping, Pop,
         CloseBox, In
<1>3. QuietConstructor'
  BY <1>1, <1>2 DEF QuietConstructor, Starting, HasRegisteredClass
<1> QED
  BY <1>1, <1>3, DeliveryGuard DEF ExitGuardArmed, Serving

(* The end of a failed load that leaves no references arms the guard.      *)
LEMMA LoadFailureGuard ==
    ASSUME IInv, LoadFailureReturns, refs' = 0
    PROVE  ExitGuard'
<1>1. refs > 0 /\ ComTypeOK
  <2>1. Len(creating) \in Nat /\ Len(creating) > 0
    BY DEF LoadFailureReturns, IInv, TypeOK
  <2>2. Cardinality(objects) \in Nat /\ Cardinality(locks) \in Nat
    BY ClientSets DEF IInv, TypeOK
  <2> QED
    BY <2>1, <2>2 DEF IInv, TypeOK, ServerRefsBalanced
<1> QED
  BY <1>1, ReleaseArms DEF LoadFailureReturns, ExitGuard

LEMMA GuardLoadFailureReturns ==
    ASSUME GInv, LoadFailureReturns
    PROVE  QuietConstructor' /\ ExitGuardArmed'
<1>1. UNCHANGED <<main, cookies, quitNow>> /\ loops # <<>>
  BY DEF LoadFailureReturns, standaloneVars, Pop, CloseBox, In
<1>2. QuietConstructor'
  BY <1>1 DEF GInv, QuietConstructor, Starting, HasRegisteredClass
<1> QED
  BY <1>2, LoadFailureGuard DEF GInv, ExitGuardArmed

(* A call of a client that leaves no references arms the guard as well,    *)
(* unless it has nothing to do with references.                            *)
LEMMA ClientCallGuard ==
    ASSUME IInv, NEW c \in Clients, ClientCall(c), refs' = 0
    PROVE  \/ ExitGuard'
           \/ UNCHANGED <<refs, acquired, loops, timer, exitPosted, quitNow>>
<1>1. ComTypeOK /\ refs \in Nat /\ Cardinality(objects) \in Nat
      /\ Cardinality(locks) \in Nat /\ Len(creating) \in Nat
  BY ClientSets DEF IInv, TypeOK, ComTypeOK
<1>2. ~AddServerReference
  BY <1>1 DEF AddServerReference, CoAddRefServerProcess
<1>3. ASSUME ReleaseServerReference, refs > 0
      PROVE  ExitGuard'
  BY <1>1, <1>3, ReleaseArms DEF ExitGuard
<1>4. CASE (\E i \in Slots : Activate(c, i)) \/ LockServer(c)
  BY <1>2, <1>4 DEF Activate, CreateContainer, LoadFails, LockServer
<1>5. CASE \/ \E i \in Slots : GetClassObject(c, i)
           \/ ReleaseOther(c) \/ RundownOther(c) \/ Crash(c)
  BY <1>5 DEF GetClassObject, ReleaseOther, RundownOther, Crash, comVars,
              runtimeVars, qtVars, windowVars
<1>6. CASE FactoryCreate(c)
  <2>1. CreateControlOnly(c)
    BY <1>2, <1>6 DEF FactoryCreate, CreateContainer, LoadFails
  <2>2. refs = 0
    BY <2>1 DEF CreateControlOnly, CoProbeServerProcess
  <2> QED
    BY <2>1, <2>2 DEF CreateControlOnly, OnLastRelease, CheckForExitLater,
                      ExitApplicationLater, ExitGuard
<1>7. CASE ReleaseContainer(c) \/ RundownContainer(c) \/ UnlockServer(c)
  <2>1. (c \in objects \/ c \in locks) /\ ReleaseServerReference
    BY <1>7 DEF ReleaseContainer, RundownContainer, UnlockServer
  <2>2. refs > 0
    <3>1. objects \subseteq Clients /\ locks \subseteq Clients
      BY DEF IInv, TypeOK
    <3>2. Cardinality(objects) > 0 \/ Cardinality(locks) > 0
      BY <2>1, <3>1, ClientCounted
    <3> QED
      BY <1>1, <3>2 DEF IInv, ServerRefsBalanced
  <2> QED
    BY <1>3, <2>1, <2>2
<1> QED
  BY <1>4, <1>5, <1>6, <1>7 DEF ClientCall

LEMMA GuardClientCall ==
    ASSUME GInv, NEW c \in Clients, ClientCall(c)
    PROVE  QuietConstructor' /\ ExitGuardArmed'
<1>1. UNCHANGED <<main, cookies>>
  BY DEF ClientCall, Activate, GetClassObject, FactoryCreate, ReleaseContainer,
         ReleaseOther, LockServer, UnlockServer, Crash, RundownContainer,
         RundownOther, standaloneVars
<1>2. QuietConstructor'
  <2>1. CASE Crash(c)
    BY <1>1, <2>1 DEF Crash, runtimeVars, qtVars, windowVars, GInv,
                      QuietConstructor, HasRegisteredClass
  <2>2. CASE ~Crash(c)
    <3>1. loops # <<>>
      BY <2>2 DEF ClientCall, Activate, GetClassObject, FactoryCreate, Calls,
                  ReleaseContainer, ReleaseOther, LockServer, UnlockServer,
                  RundownContainer, RundownOther, Pumping
    <3> QED
      BY <1>1, <3>1 DEF GInv, QuietConstructor, Starting, HasRegisteredClass
  <2> QED
    BY <2>1, <2>2
<1>3. ExitGuardArmed'
  <2> SUFFICES ASSUME refs' = 0, main' = "exec" PROVE ExitGuard'
    BY DEF ExitGuardArmed, Serving
  <2> QED
    BY <1>1, ClientCallGuard
       DEF GInv, ExitGuardArmed, ExitGuard, IdleBoxOpen, Serving
<1> QED
  BY <1>2, <1>3

LEMMA GuardNext == QuietStartup /\ GInv /\ [Next]_vars => GInv'
<1> SUFFICES ASSUME QuietStartup, GInv, [Next]_vars
             PROVE  QuietConstructor' /\ ExitGuardArmed'
  BY NextIInv DEF GInv
<1>1. CASE UNCHANGED vars
  BY <1>1 DEF vars, comVars, runtimeVars, qtVars, windowVars, standaloneVars,
              GInv, QuietConstructor, ExitGuardArmed, ExitGuard, IdleBoxOpen,
              Serving, HasRegisteredClass
<1> QED
  BY <1>1, GuardMainStep, GuardRuntimeStep, GuardLoadFailureReturns,
     GuardClientCall DEF Next, Ended

(* A host whose constructor showed no message box always has something     *)
(* that will end it once it has no references: the timer runs, the exit is *)
(* posted or being carried out, or the idle warning, which posts it, is    *)
(* open.  Failing loads, locks, crashes and class factories kept for later *)
(* do not change that.                                                     *)
THEOREM GuardArmed == QuietStartup => (Spec => []ExitGuardArmed)
<1> SUFFICES ASSUME QuietStartup PROVE Spec => []ExitGuardArmed
  OBVIOUS
<1>1. Init => GInv
  BY InitIInv
     DEF Init, RuntimeInit, StandaloneInit, GInv, QuietConstructor, Starting,
         ExitGuardArmed, Serving
<1>2. GInv /\ [Next]_vars => GInv'
  BY GuardNext
<1>3. GInv => ExitGuardArmed
  BY DEF GInv
<1> QED
  BY <1>1, <1>2, <1>3, PTL DEF Spec
=============================================================================
