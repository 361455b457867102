------------------------- MODULE StandaloneExit_proofs ------------------------
(***************************************************************************)
(* When a standalone host ends, and what its ready event is worth:         *)
(* theorems about StandaloneHost for every set of clients and command      *)
(* lines.  An assumption on the faults or habits is stated with the        *)
(* theorem that needs it.                                                  *)
(***************************************************************************)
EXTENDS StandaloneHost_proofs

-----------------------------------------------------------------------------
(***************************************************************************)
(* The stack of event loops.  A loop that serves the process is at its     *)
(* bottom; above it there is at most the idle warning, and above that one  *)
(* loop for each client whose control could not be loaded.                 *)
(***************************************************************************)
FrameFits(k) ==
    /\ loops[k] = "load" <=> k <= Len(creating)
    /\ loops[k] = "idle" => warned /\ k = Len(loops) - 1
    /\ loops[k] \in {"startup", "exec"} <=> k = Len(loops)
    /\ loops[k] = "exec" <=> k = Len(loops) /\ main = "exec"

Nested ==
    /\ Len(creating) <= Len(loops)
    /\ \A k \in 1 .. Len(loops) : FrameFits(k)
    /\ main = "exec" => loops # <<>>
    /\ main \in {"construct", "start", "teardown", "gone"} => loops = <<>>

(* What has become of the specifications the constructor is done with.     *)
Progress ==
    /\ main \in {"finish", "noclass", "start", "exec"} => idx = Len(cmd.specs) + 1
    /\ hr /\ main \notin {"teardown", "gone"} =>
          \A i \in 1 .. idx - 1 : <<i, "surrogate">> \in cookies
    /\ ready => hr /\ main \in {"start", "exec", "teardown", "gone"}

Ending == main \in {"teardown", "gone"}

(* Qt's quit is pending only above nothing but the main loop, and once it  *)
(* is delivered that loop serves no more and no exit is posted.            *)
Windows ==
    /\ quitPosted => loops = <<"exec">> \/ Ending
    /\ windowQuit =>
          /\ Ending \/ (main = "exec" /\ quitNow /\ loops = <<"exec">>)
          /\ ~exitPosted

SInv == IInv /\ Nested /\ Progress /\ Windows

LEMMA Pushed ==
    ASSUME NEW T, NEW s \in Seq(T), NEW e \in T
    PROVE  /\ <<e>> \o s \in Seq(T)
           /\ Len(<<e>> \o s) = Len(s) + 1
           /\ (<<e>> \o s)[1] = e
           /\ \A k \in 2 .. Len(s) + 1 : (<<e>> \o s)[k] = s[k - 1]
OBVIOUS

LEMMA Popped ==
    ASSUME NEW T, NEW s \in Seq(T), s # <<>>
    PROVE  /\ Tail(s) \in Seq(T)
           /\ Len(s) \in Nat /\ Len(s) > 0 /\ Len(Tail(s)) = Len(s) - 1
           /\ Head(s) = s[1]
           /\ \A k \in 1 .. Len(s) - 1 : Tail(s)[k] = s[k + 1]
OBVIOUS

(* The types the proofs below use most.                                    *)
LEMMA Types ==
    ASSUME IInv
    PROVE  /\ loops \in Seq(Frame) /\ Len(loops) \in Nat
           /\ creating \in Seq(Clients) /\ Len(creating) \in Nat
           /\ loops = <<>> <=> Len(loops) = 0
           /\ creating = <<>> <=> Len(creating) = 0
           /\ main \in Point /\ refs \in Nat /\ warned \in BOOLEAN
           /\ table \in [Slots -> SlotState]
BY DEF IInv, TypeOK, ComTypeOK, RuntimeTypeOK, StandaloneTypeOK

(* Without references there are no containers, no calls that show a box,   *)
(* and no locks.                                                           *)
LEMMA NobodyThere ==
    ASSUME IInv, refs = 0
    PROVE  objects = {} /\ creating = <<>> /\ locks = {}
<1>1. Len(creating) \in Nat /\ (creating = <<>> <=> Len(creating) = 0)
  BY Types
<1>2. Cardinality(objects) \in Nat /\ Cardinality(locks) \in Nat
      /\ objects \subseteq Clients /\ locks \subseteq Clients
  BY ClientSets DEF IInv, TypeOK
<1>3. Cardinality(objects) = 0 /\ Cardinality(locks) = 0 /\ Len(creating) = 0
  BY <1>1, <1>2 DEF IInv, ServerRefsBalanced
<1>4. ASSUME NEW S, S \subseteq Clients, Cardinality(S) = 0
      PROVE  S = {}
  <2>1. SUFFICES ASSUME NEW c \in S PROVE FALSE
    OBVIOUS
  <2>2. Cardinality(S) > 0
    BY <1>4, ClientCounted
  <2> QED
    BY <1>4, <2>2
<1> QED
  BY <1>1, <1>2, <1>3, <1>4

(* The innermost loop tells how many there are.                            *)
LEMMA Innermost ==
    ASSUME IInv, Nested, loops # <<>>
    PROVE  /\ Len(loops) > 0
           /\ loops[1] \in {"startup", "exec"} => Len(loops) = 1 /\ creating = <<>>
           /\ loops[1] = "idle" => Len(loops) = 2 /\ creating = <<>>
           /\ loops[1] = "load" => Len(loops) > 1 /\ creating # <<>>
<1>1. Len(loops) \in Nat /\ Len(loops) > 0 /\ Len(creating) \in Nat
      /\ (creating = <<>> <=> Len(creating) = 0)
  BY Types
<1>2. FrameFits(1)
  BY <1>1 DEF Nested
<1> QED
  BY <1>1, <1>2 DEF FrameFits

(* The main loop ends while the host serves, a box of the constructor      *)
(* while it does not.                                                      *)
LEMMA BottomTells ==
    ASSUME IInv, Nested, NEW f \in {"startup", "exec"}, Pop(f)
    PROVE  /\ f = "exec" <=> main = "exec"
           /\ main \notin {"construct", "start", "teardown", "gone"}
<1>1. loops # <<>> /\ loops[1] = f
  BY Types DEF Pop, In
<1>2. FrameFits(1) /\ Len(loops) = 1
  BY <1>1, Types, Innermost DEF Nested
<1> QED
  BY <1>1, <1>2 DEF FrameFits, Nested

-----------------------------------------------------------------------------
(* A step that starts or ends no loop.                                     *)
LEMMA StackStays ==
    ASSUME IInv, Nested, UNCHANGED <<loops, creating>>, warned => warned',
           main' = "exec" <=> main = "exec",
           main' \in {"construct", "start", "teardown", "gone"} => loops = <<>>
    PROVE  Nested'
<1>1. \A k \in 1 .. Len(loops) : FrameFits(k) => FrameFits(k)'
  BY DEF FrameFits
<1> QED
  BY <1>1, Types DEF Nested

(* A box of the constructor opens, or the main loop starts.                *)
LEMMA BottomStarts ==
    ASSUME IInv, Nested, loops = <<>>, NEW f \in {"startup", "exec"},
           Push(f), UNCHANGED creating, main' = "exec" <=> f = "exec",
           main' \notin {"construct", "start", "teardown", "gone"}
    PROVE  Nested'
<1>1. loops' = <<f>> /\ Len(loops') = 1 /\ loops'[1] = f
  BY DEF Push
<1>2. Len(creating') = 0
  BY Types DEF Nested
<1>3. FrameFits(1)'
  BY <1>1, <1>2 DEF FrameFits
<1> QED
  BY <1>1, <1>2, <1>3 DEF Nested

LEMMA BottomEnds ==
    ASSUME IInv, Nested, NEW f \in {"startup", "exec"}, Pop(f),
           UNCHANGED creating, main' # "exec"
    PROVE  Nested' /\ loops' = <<>>
<1>1. loops # <<>> /\ loops[1] = f /\ loops' = Tail(loops)
  BY Types DEF Pop, In
<1>2. Len(loops) = 1 /\ Len(creating) = 0
  BY <1>1, Innermost, Types
<1>3. loops' = <<>>
  BY <1>1, <1>2, Types
<1> QED
  BY <1>2, <1>3 DEF Nested

(* The idle warning opens above the loop that serves, once in a process.   *)
LEMMA WarningOpens ==
    ASSUME IInv, Nested, refs = 0, ~warned, loops # <<>>, Push("idle"), warned',
           UNCHANGED <<creating, main>>
    PROVE  Nested'
<1>1. creating = <<>>
  BY NobodyThere
<1>2. loops[1] \notin {"idle", "load"}
  <2>1. FrameFits(1)
    BY Types DEF Nested
  <2> QED
    BY <1>1, <2>1 DEF FrameFits
<1>3. loops[1] \in {"startup", "exec"} /\ Len(loops) = 1
  <2>1. loops[1] \in Frame
    BY Types
  <2> QED
    BY <1>2, <2>1, Innermost DEF Frame
<1>4. loops' = <<"idle">> \o loops /\ "idle" \in Frame
  BY DEF Push, Frame
<1>5. Len(loops') = 2 /\ loops'[1] = "idle" /\ loops'[2] = loops[1]
  BY <1>3, <1>4, Types, Pushed
<1>6. FrameFits(1)
  BY <1>3 DEF Nested
<1>7. FrameFits(1)'
  BY <1>1, <1>5 DEF FrameFits
<1>8. FrameFits(2)'
  BY <1>1, <1>3, <1>5, <1>6 DEF FrameFits
<1>9. loops' # <<>> /\ Len(creating') = 0
  BY <1>1, <1>4, <1>5
<1>10. \A k \in 1 .. Len(loops') : k = 1 \/ k = 2
  BY <1>5
<1>11. main' \notin {"construct", "start", "teardown", "gone"}
  BY DEF Nested
<1> QED
  BY <1>5, <1>7, <1>8, <1>9, <1>10, <1>11 DEF Nested

LEMMA WarningCloses ==
    ASSUME IInv, Nested, Pop("idle"), UNCHANGED <<creating, main, warned>>
    PROVE  Nested'
<1>1. loops # <<>> /\ loops[1] = "idle" /\ loops' = Tail(loops)
  BY Types DEF Pop, In
<1>2. Len(loops) = 2 /\ Len(creating) = 0
  BY <1>1, Innermost, Types
<1>3. Len(loops') = 1 /\ loops'[1] = loops[2]
  <2>1. /\ Len(Tail(loops)) = Len(loops) - 1
        /\ \A k \in 1 .. Len(loops) - 1 : Tail(loops)[k] = loops[k + 1]
    BY <1>1, Types, Popped
  <2>2. Len(loops) - 1 = 1 /\ 1 \in 1 .. 1 /\ 1 + 1 = 2
    BY <1>2
  <2>3. Len(Tail(loops)) = 1 /\ Tail(loops)[1] = loops[2]
    BY <2>1, <2>2
  <2> QED
    BY <1>1, <2>3
<1>4. FrameFits(2)
  BY <1>2 DEF Nested
<1>5. FrameFits(1)'
  BY <1>2, <1>3, <1>4 DEF FrameFits
<1>6. main' \notin {"construct", "start", "teardown", "gone"}
  BY <1>1 DEF Nested
<1>7. loops' # <<>>
  BY <1>3
<1>8. Len(creating') <= Len(loops') /\ \A k \in 1 .. Len(loops') : k = 1
  BY <1>2, <1>3
<1> QED
  BY <1>5, <1>6, <1>7, <1>8 DEF Nested

(* The boxes of failed loads and the calls that show them come and go      *)
(* together.                                                               *)
LEMMA LoadBoxOpens ==
    ASSUME IInv, Nested, loops # <<>>, Push("load"), NEW c \in Clients,
           creating' = <<c>> \o creating, UNCHANGED <<main, warned>>
    PROVE  Nested'
<1>1. loops' = <<"load">> \o loops /\ "load" \in Frame
  BY DEF Push, Frame
<1>2. /\ Len(loops') = Len(loops) + 1 /\ loops'[1] = "load"
      /\ \A k \in 2 .. Len(loops) + 1 : loops'[k] = loops[k - 1]
  BY <1>1, Types, Pushed
<1>3. Len(creating') = Len(creating) + 1
  BY Types, Pushed
<1>4. Len(loops) \in Nat /\ Len(loops) > 0 /\ Len(creating) \in Nat
      /\ Len(creating) <= Len(loops)
  BY Types DEF Nested
<1>5. FrameFits(1)'
  BY <1>2, <1>3, <1>4 DEF FrameFits
<1>6. ASSUME NEW k \in 2 .. Len(loops) + 1
      PROVE  FrameFits(k)'
  <2>1. k - 1 \in 1 .. Len(loops) /\ k \in Int
    BY <1>4
  <2>2. FrameFits(k - 1)
    BY <2>1 DEF Nested
  <2>3. loops'[k] = loops[k - 1]
    BY <1>2
  <2>4. k - 1 <= Len(creating) <=> k <= Len(creating')
    BY <1>3, <1>4, <2>1
  <2>5. /\ k - 1 = Len(loops) <=> k = Len(loops')
        /\ k - 1 = Len(loops) - 1 <=> k = Len(loops') - 1
    BY <1>2, <1>4, <2>1
  <2> QED
    BY <2>2, <2>3, <2>4, <2>5 DEF FrameFits
<1>7. \A k \in 1 .. Len(loops') : k = 1 \/ k \in 2 .. Len(loops) + 1
  BY <1>2, <1>4
<1>8. loops' # <<>> /\ main' \notin {"construct", "start", "teardown", "gone"}
  BY <1>1 DEF Nested
<1>9. Len(creating') <= Len(loops')
  BY <1>2, <1>3, <1>4
<1> QED
  BY <1>5, <1>6, <1>7, <1>8, <1>9 DEF Nested

LEMMA LoadBoxCloses ==
    ASSUME IInv, Nested, Pop("load"), creating' = Tail(creating),
           UNCHANGED <<main, warned>>
    PROVE  Nested'
<1>1. loops # <<>> /\ loops[1] = "load" /\ loops' = Tail(loops)
  BY Types DEF Pop, In
<1>2. Len(loops) > 1 /\ creating # <<>>
  BY <1>1, Innermost
<1>3. /\ Len(loops') = Len(loops) - 1
      /\ \A k \in 1 .. Len(loops) - 1 : loops'[k] = loops[k + 1]
  BY <1>1, Types, Popped
<1>4. Len(creating') = Len(creating) - 1
  BY <1>2, Types, Popped
<1>5. Len(loops) \in Nat /\ Len(creating) \in Nat /\ Len(creating) <= Len(loops)
  BY Types DEF Nested
<1>6. ASSUME NEW k \in 1 .. Len(loops')
      PROVE  FrameFits(k)'
  <2>1. k \in 1 .. Len(loops) - 1 /\ k + 1 \in 1 .. Len(loops) /\ k \in Int
    BY <1>3, <1>5
  <2>2. FrameFits(k + 1)
    BY <2>1 DEF Nested
  <2>3. loops'[k] = loops[k + 1]
    BY <1>3, <2>1
  <2>4. k + 1 <= Len(creating) <=> k <= Len(creating')
    BY <1>4, <1>5, <2>1
  <2>5. /\ k + 1 = Len(loops) <=> k = Len(loops')
        /\ k + 1 = Len(loops) - 1 <=> k = Len(loops') - 1
    BY <1>3, <1>5, <2>1
  <2> QED
    BY <2>2, <2>3, <2>4, <2>5 DEF FrameFits
<1>7. loops' # <<>> /\ main' \notin {"construct", "start", "teardown", "gone"}
  <2>1. Len(loops') > 0
    BY <1>2, <1>3, <1>5
  <2> QED
    BY <1>1, <2>1 DEF Nested
<1>8. Len(creating') <= Len(loops')
  BY <1>3, <1>4, <1>5
<1> QED
  BY <1>6, <1>7, <1>8 DEF Nested

-----------------------------------------------------------------------------
(* What no call of a client does, and what it does to the stack.           *)
LEMMA ClientCallFrame ==
    ASSUME NEW c \in Clients, ClientCall(c)
    PROVE  /\ UNCHANGED <<standaloneVars, warned, quitNow>>
           /\ \/ UNCHANGED <<loops, creating>>
              \/ loops # <<>> /\ Push("load") /\ creating' = <<c>> \o creating
BY DEF ClientCall, Activate, GetClassObject, FactoryCreate, Calls, Pumping,
       CreateContainer, LoadFails, CreateControlOnly, ReleaseContainer,
       ReleaseOther, LockServer, UnlockServer, Crash, RundownContainer,
       RundownOther, ShowBox, qtVars, windowVars, runtimeVars

LEMMA NestedMainStep ==
    ASSUME SInv, MainStep
    PROVE  Nested'
<1> USE DEF SInv, clientVars, runtimeVars, qtVars, windowVars
<1>1. CASE BeginRegistration \/ RegisterClass \/ FinishRegistration
           \/ ExitWithoutClass \/ Teardown
  <2>1. UNCHANGED <<loops, creating, warned>> /\ loops = <<>> /\ main # "exec"
        /\ main' # "exec"
    BY <1>1 DEF MainStep, BeginRegistration, RegisterClass, FinishRegistration,
                ExitWithoutClass, Teardown, At, AfterSpec
  <2> QED
    BY <2>1, StackStays
<1>2. CASE LookupOriginal
  <2>1. UNCHANGED <<creating, warned>> /\ loops = <<>> /\ main = "lookup"
        /\ main' = "register"
    BY <1>2 DEF MainStep, LookupOriginal, At
  <2>2. Push("startup") \/ UNCHANGED loops
    <3>1. \E show : StartupBox(show)
      BY <1>2, Zenon DEF LookupOriginal
    <3> QED
      BY <3>1, Zenon DEF StartupBox, ShowBox
  <2> QED
    BY <2>1, <2>2, StackStays, BottomStarts
<1>3. CASE RegisterClassFails \/ NoClassRegistered \/ StartExec
  <2>1. UNCHANGED creating /\ loops = <<>>
    BY <1>3 DEF MainStep, RegisterClassFails, NoClassRegistered, StartExec, At
  <2>2. \/ Push("startup") /\ main' \in {"lookup", "finish", "noclass"}
        \/ Push("exec") /\ main' = "exec"
    BY <1>3 DEF RegisterClassFails, NoClassRegistered, StartExec, AfterSpec,
                ShowBox
  <2> QED
    BY <2>1, <2>2, BottomStarts
<1>4. CASE ExecReturns
  <2>1. Pop("exec") /\ UNCHANGED creating /\ main' # "exec"
    BY <1>4 DEF MainStep, ExecReturns
  <2> QED
    BY <2>1, BottomEnds
<1>5. CASE StartupBoxReturns
  <2>1. Pop("startup") /\ UNCHANGED <<creating, main>>
    BY <1>5 DEF MainStep, StartupBoxReturns, CloseBox, standaloneVars
  <2>2. main # "exec"
    BY <2>1, BottomTells
  <2> QED
    BY <2>1, <2>2, BottomEnds
<1> QED
  BY <1>1, <1>2, <1>3, <1>4, <1>5 DEF MainStep, MainThread

LEMMA NestedNext ==
    ASSUME SInv, [Next]_vars
    PROVE  Nested'
<1> USE DEF SInv
<1>1. CASE ExitStep
  BY <1>1, StackStays DEF ExitStep, ProcessExit, standaloneVars, clientVars,
                          Nested
<1>2. CASE TimerStep
  <2>1. loops # <<>> /\ UNCHANGED <<main, creating>>
    BY <1>2 DEF TimerStep, CheckForExit, CheckForExitBusy, CheckForExitWarn,
                CheckForExitIdle, TimerFires, Pumping, standaloneVars,
                clientVars
  <2>2. CASE CheckForExitWarn
    <3>1. refs = 0 /\ ~warned /\ Push("idle") /\ warned'
      BY <2>2 DEF CheckForExitWarn, ShowBox
    <3> QED
      BY <2>1, <3>1, WarningOpens
  <2>3. CASE CheckForExitBusy \/ CheckForExitIdle
    <3>1. UNCHANGED <<loops, warned>>
      BY <2>3 DEF CheckForExitBusy, CheckForExitIdle, qtVars, windowVars
    <3> QED
      BY <2>1, <3>1, StackStays DEF Nested
  <2> QED
    BY <1>2, <2>2, <2>3 DEF TimerStep, CheckForExit
<1>3. CASE IdleStep
  BY <1>3, WarningCloses DEF IdleStep, IdleWarningReturns, CloseBox,
                             standaloneVars, clientVars
<1>4. CASE LoadFailureReturns
  BY <1>4, LoadBoxCloses DEF LoadFailureReturns, CloseBox, standaloneVars
<1>5. ASSUME NEW c \in Clients, ClientCall(c)
      PROVE  Nested'
  <2>1. UNCHANGED <<main, warned>>
    BY <1>5, ClientCallFrame DEF standaloneVars
  <2>2. CASE UNCHANGED <<loops, creating>>
    BY <2>1, <2>2, StackStays DEF Nested
  <2>3. CASE loops # <<>> /\ Push("load") /\ creating' = <<c>> \o creating
    BY <2>1, <2>3, LoadBoxOpens
  <2> QED
    BY <1>5, <2>2, <2>3, ClientCallFrame
<1>6. CASE UNCHANGED vars
  BY <1>6, StackStays DEF vars, runtimeVars, qtVars, windowVars,
                          standaloneVars, clientVars, Nested
<1>7. CASE QuitStep
  BY <1>7, StackStays DEF QuitStep, LastWindowQuits, standaloneVars, clientVars,
                          Nested
<1> QED
  BY <1>1, <1>2, <1>3, <1>4, <1>5, <1>6, <1>7, NestedMainStep DEF Next, Ended

-----------------------------------------------------------------------------
(* A loop that delivers has not been told to quit, and a box is closed     *)
(* before Qt's quit is pending.                                            *)
LEMMA NotQuitYet ==
    ASSUME SInv
    PROVE  /\ Pumping => ~windowQuit
           /\ \A f \in Frame : f # "exec" /\ In(f) => ~windowQuit /\ ~quitPosted
           /\ loops = <<>> /\ ~Ending => ~windowQuit /\ ~quitPosted
BY DEF SInv, Nested, Windows, Ending, Pumping, In

LEMMA WindowsBox ==
    ASSUME SInv, ~windowQuit, NEW f \in Frame \ {"exec"},
           ShowBox(f) \/ CloseBox(f)
    PROVE  Windows'
<1>1. ~windowQuit'
  BY DEF ShowBox, CloseBox
<1>2. quitPosted' => loops' = <<"exec">>
  BY NotQuitYet DEF ShowBox, CloseBox, Pop
<1> QED
  BY <1>1, <1>2 DEF Windows

LEMMA WindowsMainStep ==
    ASSUME SInv, MainStep
    PROVE  Windows'
<1> USE DEF runtimeVars, qtVars, windowVars
<1>1. CASE Teardown
  BY <1>1 DEF Teardown, At, SInv, Windows, Ending
<1>2. CASE ExecReturns
  <2>1. main = "exec"
    BY <1>2, BottomTells DEF ExecReturns, SInv
  <2> QED
    BY <1>2, <2>1 DEF ExecReturns, SInv, Windows, Ending
<1>3. CASE \/ BeginRegistration \/ RegisterClass \/ FinishRegistration
           \/ ExitWithoutClass \/ StartExec
  <2>1. loops = <<>> /\ ~Ending /\ UNCHANGED windowVars
    BY <1>3 DEF BeginRegistration, RegisterClass, FinishRegistration,
                ExitWithoutClass, StartExec, At, Ending
  <2> QED
    BY <2>1, NotQuitYet DEF Windows
<1>4. CASE LookupOriginal \/ RegisterClassFails \/ NoClassRegistered
  <2>1. loops = <<>> /\ ~Ending
    BY <1>4 DEF LookupOriginal, RegisterClassFails, NoClassRegistered, At,
                Ending
  <2>2. ShowBox("startup") \/ UNCHANGED windowVars
    <3>1. CASE LookupOriginal
      <4>1. \E show : StartupBox(show)
        BY <3>1, Zenon DEF LookupOriginal
      <4> QED
        BY <4>1, Zenon DEF StartupBox, windowVars
    <3>2. CASE RegisterClassFails \/ NoClassRegistered
      BY <3>2 DEF RegisterClassFails, NoClassRegistered
    <3> QED
      BY <1>4, <3>1, <3>2
  <2>3. CASE UNCHANGED windowVars
    BY <2>1, <2>3, NotQuitYet DEF Windows
  <2> QED
    BY <2>1, <2>2, <2>3, NotQuitYet, WindowsBox DEF Frame
<1>5. CASE StartupBoxReturns
  <2>1. CloseBox("startup")
    BY <1>5 DEF StartupBoxReturns
  <2> QED
    BY <2>1, NotQuitYet, WindowsBox DEF Frame, CloseBox, Pop
<1> QED
  BY <1>1, <1>2, <1>3, <1>4, <1>5 DEF MainStep, MainThread

LEMMA WindowsNext ==
    ASSUME SInv, [Next]_vars
    PROVE  Windows'
<1>1. CASE ExitStep
  BY <1>1, NotQuitYet
     DEF ExitStep, ProcessExit, standaloneVars, windowVars, SInv, Windows, Ending
<1>2. CASE QuitStep
  <2>1. Pumping /\ quitPosted /\ UNCHANGED <<main, loops>> /\ quitNow'
        /\ ~quitPosted'
    BY <1>2 DEF QuitStep, LastWindowQuits, standaloneVars
  <2>2. windowQuit' => ~exitPosted'
    BY <1>2, Zenon DEF QuitStep, LastWindowQuits
  <2>3. ~Ending /\ loops = <<"exec">>
    BY <2>1 DEF SInv, Nested, Windows, Ending, Pumping
  <2>4. main = "exec"
    <3>1. FrameFits(1)
      BY <2>3 DEF SInv, Nested
    <3> QED
      BY <2>3, <3>1 DEF FrameFits
  <2> QED
    BY <2>1, <2>2, <2>3, <2>4 DEF Windows
<1>3. CASE TimerStep
  <2>1. Pumping /\ UNCHANGED main
    BY <1>3 DEF TimerStep, CheckForExit, CheckForExitBusy, CheckForExitWarn,
                CheckForExitIdle, TimerFires, standaloneVars
  <2>2. ShowBox("idle") \/ UNCHANGED <<loops, windowVars>>
    BY <1>3 DEF TimerStep, CheckForExit, CheckForExitBusy, CheckForExitWarn,
                CheckForExitIdle, qtVars
  <2>3. CASE UNCHANGED <<loops, windowVars>>
    BY <2>1, <2>3, NotQuitYet DEF SInv, Windows, Ending, windowVars
  <2> QED
    BY <2>1, <2>2, <2>3, NotQuitYet, WindowsBox DEF Frame
<1>4. CASE IdleStep \/ LoadFailureReturns
  <2>1. CloseBox("idle") \/ CloseBox("load")
    BY <1>4 DEF IdleStep, IdleWarningReturns, LoadFailureReturns
  <2> QED
    BY <2>1, NotQuitYet, WindowsBox DEF Frame, CloseBox, Pop
<1>5. ASSUME NEW c \in Clients, ClientCall(c)
      PROVE  Windows'
  <2>1. /\ UNCHANGED <<main, quitNow>>
        /\ \/ Pumping /\ (ShowBox("load") \/ UNCHANGED <<loops, windowVars>>)
           \/ UNCHANGED <<loops, windowVars, exitPosted>>
    BY <1>5
       DEF ClientCall, Activate, GetClassObject, FactoryCreate, Calls,
           CreateContainer, LoadFails, CreateControlOnly, ReleaseContainer,
           ReleaseOther, LockServer, UnlockServer, Crash, RundownContainer,
           RundownOther, standaloneVars, runtimeVars, qtVars
  <2>2. CASE Pumping /\ UNCHANGED <<loops, windowVars>>
    BY <2>1, <2>2, NotQuitYet DEF SInv, Windows, Ending, windowVars
  <2>3. CASE Pumping /\ ShowBox("load")
    BY <2>3, NotQuitYet, WindowsBox DEF Frame
  <2>4. CASE UNCHANGED <<loops, windowVars, exitPosted>>
    BY <2>1, <2>4 DEF SInv, Windows, Ending, windowVars
  <2> QED
    BY <2>1, <2>2, <2>3, <2>4
<1>6. CASE UNCHANGED vars
  BY <1>6 DEF vars, runtimeVars, qtVars, windowVars, standaloneVars, SInv,
              Windows, Ending
<1> QED
  BY <1>1, <1>2, <1>3, <1>4, <1>5, <1>6, WindowsMainStep DEF Next, Ended

-----------------------------------------------------------------------------
LEMMA ProgressMainStep ==
    ASSUME SInv, MainThread
    PROVE  Progress'
<1>1. cmd \in Commands /\ idx \in Nat /\ hr \in BOOLEAN
  BY DEF SInv, IInv, TypeOK, StandaloneTypeOK
<1>2. DOMAIN cmd.specs = 1 .. Len(cmd.specs) /\ Len(cmd.specs) \in Nat
  BY <1>1, CommandsAssumption DEF Command
<1>3. CASE BeginRegistration
  BY <1>3 DEF BeginRegistration, At, SInv, IInv, AtSpec, Progress
<1>4. CASE LookupOriginal
  BY <1>4 DEF LookupOriginal, At, SInv, Progress
<1>5. CASE RegisterClass \/ RegisterClassFails
  <2>1. /\ main = "register" /\ idx' = idx + 1 /\ UNCHANGED <<cmd, ready>>
        /\ main' = AfterSpec
    BY <1>5 DEF RegisterClass, RegisterClassFails, At
  <2>2. idx \in 1 .. Len(cmd.specs)
    BY <1>2, <2>1 DEF SInv, IInv, AtSpec
  <2>3. /\ main' \in {"lookup", "finish"}
        /\ main' = "finish" => idx' = Len(cmd'.specs) + 1
    BY <1>2, <2>1, <2>2 DEF AfterSpec
  <2>4. hr' => \A i \in 1 .. idx' - 1 : <<i, "surrogate">> \in cookies'
    <3>1. CASE RegisterClass
      <4>1. UNCHANGED hr /\ cookies \subseteq cookies'
            /\ <<idx, "surrogate">> \in cookies'
        BY <3>1 DEF RegisterClass
      <4>2. \A i \in 1 .. idx' - 1 : i = idx \/ i \in 1 .. idx - 1
        BY <2>1, <2>2
      <4> QED
        BY <2>1, <4>1, <4>2 DEF SInv, Progress
    <3>2. CASE RegisterClassFails
      BY <3>2 DEF RegisterClassFails
    <3> QED
      BY <1>5, <3>1, <3>2
  <2> QED
    BY <2>1, <2>3, <2>4 DEF SInv, Progress
<1>6. CASE FinishRegistration \/ NoClassRegistered \/ ExitWithoutClass
  BY <1>6 DEF FinishRegistration, NoClassRegistered, ExitWithoutClass, At,
              SInv, Progress
<1>7. CASE StartExec \/ ExecReturns \/ Teardown
  <2>1. UNCHANGED <<cmd, idx, hr, ready>>
    BY <1>7 DEF StartExec, ExecReturns, Teardown
  <2>2. \/ main \in {"start", "exec"} /\ main' = "exec" /\ UNCHANGED cookies
        \/ main' \in {"teardown", "gone"}
    BY <1>7 DEF StartExec, ExecReturns, Teardown, At
  <2> QED
    BY <2>1, <2>2 DEF SInv, Progress
<1> QED
  BY <1>3, <1>4, <1>5, <1>6, <1>7 DEF MainThread

LEMMA NextSInv == SInv /\ [Next]_vars => SInv'
<1> SUFFICES ASSUME SInv, [Next]_vars PROVE SInv'
  OBVIOUS
<1>1. IInv'
  BY NextIInv DEF SInv
<1>2. Progress'
  <2>1. CASE UNCHANGED standaloneVars
    BY <2>1 DEF SInv, Progress, standaloneVars
  <2>2. CASE MainThread
    BY <2>2, ProgressMainStep
  <2> QED
    BY <2>1, <2>2, ClientCallFrame
       DEF Next, MainStep, StartupBoxReturns, ExitStep, TimerStep, IdleStep,
           QuitStep, LoadFailureReturns, Ended, vars
<1> QED
  BY <1>1, <1>2, NestedNext, WindowsNext DEF SInv

LEMMA InitSInv == Init => SInv
<1> SUFFICES ASSUME Init PROVE SInv
  OBVIOUS
<1>1. Nested
  BY DEF Init, RuntimeInit, StandaloneInit, Nested
<1>2. Progress
  BY DEF Init, StandaloneInit, Progress
<1>3. Windows
  BY DEF Init, RuntimeInit, Windows
<1> QED
  BY <1>1, <1>2, <1>3, InitIInv DEF SInv

THEOREM Structure == Spec => []SInv
BY InitSInv, NextSInv, PTL DEF Spec

(* Message boxes nest in one way only, with any faults and habits: loops   *)
(* of the constructor and the main loop never meet, there is one idle      *)
(* warning, and it is not shown above the box of a failed load.            *)
THEOREM BoxesNest == Spec => []ModalNesting
<1>1. SInv => ModalNesting
  <2> SUFFICES ASSUME SInv, NEW j \in DOMAIN loops, NEW k \in DOMAIN loops, j < k
               PROVE  /\ loops[j] \in {"idle", "load"}
                      /\ loops[j] = "idle" => loops[k] \in {"startup", "exec"}
    BY DEF ModalNesting
  <2>1. /\ loops \in Seq(Frame) /\ Len(loops) \in Nat
        /\ j \in 1 .. Len(loops) /\ k \in 1 .. Len(loops)
    BY Types DEF SInv
  <2>2. FrameFits(j) /\ FrameFits(k) /\ loops[j] \in Frame
    BY <2>1 DEF SInv, Nested
  <2> QED
    BY <2>1, <2>2 DEF FrameFits, Frame
<1> QED
  BY <1>1, Structure, PTL

(* The ready event is set only when every class of the command line has    *)
(* been registered, whatever fails.                                        *)
THEOREM ReadyRegistered == Spec => []ReadyMeansRegistered
<1>1. SInv => ReadyMeansRegistered
  <2> SUFFICES ASSUME SInv, ready, main \in {"start", "exec"},
                      NEW i \in DOMAIN cmd.specs
               PROVE  <<i, "surrogate">> \in cookies
    BY DEF ReadyMeansRegistered
  <2>1. DOMAIN cmd.specs = 1 .. Len(cmd.specs) /\ Len(cmd.specs) \in Nat
    BY CommandsAssumption DEF SInv, IInv, TypeOK, StandaloneTypeOK, Command
  <2> QED
    BY <2>1 DEF SInv, Progress
<1> QED
  BY <1>1, Structure, PTL

-----------------------------------------------------------------------------
(***************************************************************************)
(* The guard of the exit, when calls fail and message boxes are shown in   *)
(* the constructor.  No client can come before the main loop, because the  *)
(* classes are suspended till then; and the timer can have fired only for  *)
(* the warning.                                                            *)
(***************************************************************************)
Constructing ==
    main \in {"construct", "lookup", "register", "finish", "noclass", "start"}

Unvisited == refs = 0 /\ ~acquired /\ factories = {}

NobodyYet ==
    /\ main = "construct" => Unvisited /\ ~SomeClassActive /\ timer
    /\ Constructing /\ SuspendedStart =>
          /\ Unvisited
          /\ timer \/ warned
          /\ main = "start" \/ ~SomeClassActive

WInv == SInv /\ NobodyYet /\ GuardLostOnlyUnused

(* A host without clients, and without a way in for them.                  *)
LEMMA NoWayIn ==
    ASSUME IInv, Unvisited, ~SomeClassActive \/ loops = <<>>,
           NEW c \in Clients, ClientCall(c)
    PROVE  UNCHANGED <<comVars, runtimeVars, standaloneVars, factories>>
<1>1. objects = {} /\ locks = {} /\ factories = {}
  BY NobodyThere DEF Unvisited
<1>2. ~\E i \in Slots : Activate(c, i) \/ GetClassObject(c, i)
  BY DEF Activate, GetClassObject, HandOut, SomeClassActive, Calls, Pumping
<1>3. ReleaseOther(c) \/ Crash(c) \/ RundownOther(c)
  BY <1>1, <1>2 DEF ClientCall, FactoryCreate, ReleaseContainer, LockServer,
                    UnlockServer, RundownContainer
<1> QED
  BY <1>1, <1>3 DEF ReleaseOther, Crash, RundownOther

(* What suspends class objects makes none of them active.                  *)
LEMMA NoneActivated ==
    ASSUME IInv, ~SomeClassActive, table' = Suspended(table) \/ UNCHANGED table
    PROVE  ~SomeClassActive'
BY Types DEF SomeClassActive, Suspended

LEMMA SuspendedIsClosed ==
    ASSUME IInv, table' = Suspended(table)
    PROVE  ~SomeClassActive'
BY Types DEF SomeClassActive, Suspended

(* A class without flags of its own is registered suspended, when the      *)
(* class objects of the process are.                                       *)
LEMMA RegisteredSuspended ==
    ASSUME SuspendedStart, NEW i \in DOMAIN cmd.specs
    PROVE  Registered(Sanitized(i)) = "suspended"
<1>1. "SUSPENDED" \in GlobalRegcls(cmd.regcls, sus)
  BY DEF SuspendedStart, GlobalRegcls
<1>2. Sanitized(i).regcls = GlobalRegcls(cmd.regcls, sus)
  BY <1>1 DEF SuspendedStart, Sanitized, Sanitize
<1> QED
  BY <1>1, <1>2 DEF Registered

(* The constructor goes on, and opens no class before its end.             *)
LEMMA StillNobody ==
    ASSUME NobodyYet, Constructing, main \notin {"construct", "start"},
           Constructing', main' # "construct",
           UNCHANGED <<refs, acquired, factories, sus, cmd>>,
           timer \/ warned => timer' \/ warned',
           \/ main' = "start"
           \/ SuspendedStart /\ ~SomeClassActive => ~SomeClassActive'
    PROVE  NobodyYet' /\ GuardLostOnlyUnused'
BY DEF NobodyYet, Constructing, SuspendedStart, Unvisited, GuardLostOnlyUnused,
       Serving

LEMMA NobodyYetMainStep ==
    ASSUME WInv, MainStep
    PROVE  NobodyYet' /\ GuardLostOnlyUnused'
<1> USE DEF WInv, SInv, runtimeVars, qtVars, windowVars, comVars, clientVars
<1>1. /\ NobodyYet /\ UNCHANGED factories
      /\ main = "register" => idx \in DOMAIN cmd.specs
  BY DEF MainStep, IInv, AtSpec
<1>2. CASE BeginRegistration
  <2>1. main = "construct" /\ main' = "lookup" /\ UNCHANGED <<refs, acquired, timer>>
        /\ (table' = Suspended(table) \/ UNCHANGED table)
    BY <1>2 DEF BeginRegistration, At
  <2>2. Unvisited /\ ~SomeClassActive /\ timer
    BY <2>1 DEF NobodyYet
  <2>3. ~SomeClassActive'
    BY <2>1, <2>2, NoneActivated
  <2> QED
    BY <1>1, <2>1, <2>2, <2>3 DEF NobodyYet, Unvisited, GuardLostOnlyUnused,
                                  Serving
<1>3. CASE LookupOriginal
  BY <1>1, <1>3, StillNobody
     DEF LookupOriginal, At, Constructing, SomeClassActive
<1>4. CASE RegisterClass
  <2>1. /\ main = "register" /\ main' \in {"lookup", "finish"}
        /\ UNCHANGED <<refs, acquired, timer, warned, sus, cmd>>
        /\ \/ UNCHANGED table
           \/ table' = [table EXCEPT ![idx] = Registered(Sanitized(idx))]
    BY <1>4 DEF RegisterClass, At, AfterSpec
  <2>2. SuspendedStart /\ ~SomeClassActive => ~SomeClassActive'
    <3>1. SuspendedStart => Registered(Sanitized(idx)) = "suspended"
      BY <1>1, <2>1, RegisteredSuspended
    <3>2. table \in [Slots -> SlotState]
      BY Types
    <3> QED
      BY <2>1, <3>1, <3>2 DEF SomeClassActive
  <2> QED
    BY <1>1, <2>1, <2>2, StillNobody DEF Constructing
<1>5. CASE RegisterClassFails
  BY <1>1, <1>5, StillNobody
     DEF RegisterClassFails, At, AfterSpec, Constructing, SomeClassActive
<1>6. CASE FinishRegistration \/ NoClassRegistered \/ ExitWithoutClass
  BY <1>1, <1>6, StillNobody
     DEF FinishRegistration, NoClassRegistered, ExitWithoutClass, At,
         Constructing, SomeClassActive
<1>7. CASE StartExec
  <2>1. main = "start" /\ main' = "exec"
        /\ UNCHANGED <<refs, acquired, timer, warned, sus, cmd>>
    BY <1>7 DEF StartExec, At
  <2>2. SuspendedStart' => Unvisited /\ (timer \/ warned)
    BY <1>1, <2>1 DEF NobodyYet, Constructing, SuspendedStart
  <2> QED
    BY <2>1, <2>2 DEF NobodyYet, Constructing, Unvisited, GuardLostOnlyUnused,
                      ExitGuard
<1>8. CASE ExecReturns \/ Teardown
  BY <1>8 DEF ExecReturns, Teardown, NobodyYet, Constructing,
              GuardLostOnlyUnused, Serving
<1>9. CASE StartupBoxReturns
  <2>1. UNCHANGED <<comVars, standaloneVars, acquired, timer, warned>>
        /\ Pop("startup")
    BY <1>9 DEF StartupBoxReturns, CloseBox
  <2>2. main # "exec"
    BY <2>1, BottomTells
  <2> QED
    BY <1>1, <2>1, <2>2
       DEF standaloneVars, NobodyYet, Constructing, SuspendedStart, Unvisited,
           SomeClassActive, GuardLostOnlyUnused, Serving
<1> QED
  BY <1>2, <1>3, <1>4, <1>5, <1>6, <1>7, <1>8, <1>9 DEF MainStep, MainThread

LEMMA NobodyYetNext ==
    ASSUME WInv, [Next]_vars
    PROVE  NobodyYet' /\ GuardLostOnlyUnused'
<1> USE DEF WInv, SInv
<1>1. CASE ExitStep \/ TimerStep \/ IdleStep \/ QuitStep
  <2>1. /\ UNCHANGED <<standaloneVars, factories, refs, acquired>>
        /\ table' = Suspended(table) \/ UNCHANGED table
        /\ loops # <<>>
    BY <1>1 DEF ExitStep, TimerStep, IdleStep, QuitStep, ProcessExit,
                CheckForExit, CheckForExitBusy, CheckForExitWarn,
                CheckForExitIdle, CoProbeServerProcess, IdleWarningReturns,
                LastWindowQuits, TimerFires, Pumping, CloseBox, Pop,
                In, comVars, clientVars
  <2>2. main \notin {"construct", "start"}
    BY <2>1 DEF Nested
  <2>3. timer \/ warned => timer' \/ warned' \/ acquired
    BY <1>1 DEF ExitStep, TimerStep, IdleStep, QuitStep, ProcessExit,
                CheckForExit, CheckForExitBusy, CheckForExitWarn,
                CheckForExitIdle, CheckForExitLater, IdleWarningReturns,
                LastWindowQuits
  <2>4. NobodyYet'
    BY <2>1, <2>2, <2>3, NoneActivated
       DEF NobodyYet, Constructing, SuspendedStart, Unvisited, standaloneVars
  <2> QED
    BY <1>1, <2>1, <2>4, DeliveryGuard DEF GuardLostOnlyUnused
<1>2. CASE LoadFailureReturns
  <2>1. /\ UNCHANGED standaloneVars /\ refs # 0
    BY <1>2, NobodyThere DEF LoadFailureReturns
  <2>2. NobodyYet'
    BY <2>1 DEF NobodyYet, Constructing, SuspendedStart, Unvisited,
                standaloneVars
  <2> QED
    BY <1>2, <2>2, LoadFailureGuard DEF GuardLostOnlyUnused
<1>3. ASSUME NEW c \in Clients, ClientCall(c)
      PROVE  NobodyYet' /\ GuardLostOnlyUnused'
  <2>1. UNCHANGED <<main, sus, cmd, warned>>
    BY <1>3, ClientCallFrame DEF standaloneVars
  <2>2. NobodyYet'
    <3> SUFFICES ASSUME Unvisited, ~SomeClassActive \/ main = "start"
                 PROVE  UNCHANGED <<refs, acquired, factories, table, timer>>
      BY <2>1 DEF NobodyYet, Constructing, SuspendedStart, Unvisited,
                  SomeClassActive
    <3>1. ~SomeClassActive \/ loops = <<>>
      BY DEF Nested
    <3> QED
      BY <1>3, <3>1, NoWayIn DEF comVars, runtimeVars, qtVars, windowVars
  <2>3. GuardLostOnlyUnused'
    BY <1>3, <2>1, ClientCallGuard
       DEF GuardLostOnlyUnused, Serving, SuspendedStart, ExitGuard, IdleBoxOpen
  <2> QED
    BY <2>2, <2>3
<1>4. CASE UNCHANGED vars
  BY <1>4 DEF vars, comVars, runtimeVars, qtVars, windowVars, standaloneVars,
              clientVars, NobodyYet, Constructing, SuspendedStart, Unvisited,
              SomeClassActive, GuardLostOnlyUnused, Serving, ExitGuard,
              IdleBoxOpen
<1> QED
  BY <1>1, <1>2, <1>3, <1>4, NobodyYetMainStep DEF Next, Ended

(* Whatever fails in the constructor and whatever boxes are shown there: a *)
(* serving host that has lost the guard of its exit has warned that nobody *)
(* came, and nobody has come since.  The first reference brings it back.   *)
THEOREM GuardLost == Spec => []GuardLostOnlyUnused
<1>1. Init => WInv
  <2> SUFFICES ASSUME Init PROVE WInv
    OBVIOUS
  <2>1. Unvisited /\ ~SomeClassActive /\ timer /\ main = "construct"
    BY DEF Init, ComInit, RuntimeInit, StandaloneInit, Unvisited,
           SomeClassActive
  <2> QED
    BY <2>1, InitSInv DEF WInv, NobodyYet, GuardLostOnlyUnused, Serving
<1>2. WInv /\ [Next]_vars => WInv'
  BY NextSInv, NobodyYetNext DEF WInv
<1>3. WInv => GuardLostOnlyUnused
  BY DEF WInv
<1> QED
  BY <1>1, <1>2, <1>3, PTL DEF Spec

-----------------------------------------------------------------------------
(***************************************************************************)
(* What the ready event is worth.  It promises that the classes can be     *)
(* reached, which fails for a class that stays suspended: when the resume  *)
(* fails, or when CoSuspendClassObjects failed before and either a message *)
(* box of the constructor lets the timer suspend what is registered, or    *)
(* the command line itself asks for a suspended class.                     *)
(***************************************************************************)
AsksSuspended(c) ==
    \/ "SUSPENDED" \in c.regcls
    \/ \E i \in DOMAIN c.specs :
          c.specs[i].explicit /\ "SUSPENDED" \in c.specs[i].regcls

ResumedOnce ==
    /\ "resume" \notin Faults
    /\ \/ "suspend" \notin Faults
       \/ QuietStartup /\ \A c \in Commands : ~AsksSuspended(c)

(* The states of a class object that a client can reach, or has reached,   *)
(* or will reach with the resume at the end of the constructor.            *)
Opening ==
    {"active", "withdrawn"} \cup (IF sus /\ main # "start" THEN {"suspended"}
                                                           ELSE {})

Reachable ==
    /\ main = "noclass" => ~hr
    /\ "suspend" \notin Faults /\ main # "construct" => sus
    /\ hr /\ main \in {"lookup", "register", "finish", "start"} =>
          \A i \in 1 .. idx - 1 :
             "LOCAL_SERVER" \in Sanitized(i).register => table[i] \in Opening

AInv == SInv /\ (QuietStartup => GInv) /\ Reachable

(* Only the constructor's thread opens a class; whatever is delivered by a *)
(* running loop leaves a class object as it is, or closes it.              *)
LEMMA OnlyCloses ==
    ASSUME IInv,
           \/ ExitStep \/ TimerStep \/ IdleStep \/ QuitStep \/ LoadFailureReturns
           \/ \E c \in Clients : ClientCall(c)
           \/ UNCHANGED vars
    PROVE  /\ UNCHANGED standaloneVars
           /\ \/ UNCHANGED table
              \/ /\ loops # <<>>
                 /\ \A i \in Slots : \/ table'[i] = table[i]
                                     \/ /\ table[i] = "active"
                                        /\ table'[i] \in {"suspended", "withdrawn"}
<1>1. table \in [Slots -> SlotState]
  BY Types
<1>2. \A i \in Slots : \/ Suspended(table)[i] = table[i]
                       \/ table[i] = "active" /\ Suspended(table)[i] = "suspended"
  BY DEF Suspended
<1>3. ASSUME NEW i \in Slots, HandOut(i)
      PROVE  \A k \in Slots : \/ table'[k] = table[k]
                              \/ table[k] = "active" /\ table'[k] = "withdrawn"
  BY <1>1, <1>3 DEF HandOut
<1>4. ASSUME ReleaseServerReference \/ CoProbeServerProcess
      PROVE  table' = Suspended(table) \/ UNCHANGED table
  BY <1>4 DEF ReleaseServerReference, CoReleaseServerProcess,
              CoProbeServerProcess
<1>5. CASE ExitStep \/ TimerStep \/ IdleStep \/ QuitStep \/ LoadFailureReturns
  <2>1. UNCHANGED standaloneVars /\ loops # <<>>
    BY <1>5 DEF ExitStep, TimerStep, IdleStep, QuitStep, ProcessExit,
                CheckForExit, CheckForExitBusy, CheckForExitWarn,
                CheckForExitIdle, TimerFires, Pumping, IdleWarningReturns,
                LastWindowQuits, LoadFailureReturns, CloseBox, Pop, In
  <2>2. UNCHANGED table \/ ReleaseServerReference \/ CoProbeServerProcess
    BY <1>5 DEF ExitStep, TimerStep, IdleStep, QuitStep, ProcessExit,
                CheckForExit, CheckForExitBusy, CheckForExitWarn,
                CheckForExitIdle, IdleWarningReturns, LastWindowQuits,
                LoadFailureReturns, comVars
  <2> QED
    BY <1>2, <1>4, <2>1, <2>2
<1>6. ASSUME NEW c \in Clients, ClientCall(c)
      PROVE  /\ UNCHANGED standaloneVars
             /\ \/ UNCHANGED table
                \/ /\ loops # <<>>
                   /\ \/ ReleaseServerReference \/ CoProbeServerProcess
                      \/ \E i \in Slots : HandOut(i)
  BY <1>6 DEF ClientCall, Activate, GetClassObject, FactoryCreate, Calls,
              Pumping, CreateControlOnly, ReleaseContainer, ReleaseOther,
              LockServer, UnlockServer, Crash, RundownContainer, RundownOther,
              comVars
<1>7. CASE \E c \in Clients : ClientCall(c)
  BY <1>2, <1>3, <1>4, <1>6, <1>7
<1>8. CASE UNCHANGED vars
  BY <1>8 DEF vars, comVars, standaloneVars
<1> QED
  BY <1>5, <1>7, <1>8

(* A class that is registered suspended will be resumed.                   *)
LEMMA RegisteredOpening ==
    ASSUME ResumedOnce, AInv, main = "register", NEW i \in DOMAIN cmd.specs
    PROVE  Registered(Sanitized(i)) \in {"active"} \cup (IF sus THEN {"suspended"} ELSE {})
<1>1. cmd \in Commands
  BY DEF AInv, SInv, IInv, TypeOK, StandaloneTypeOK
<1>2. CASE sus
  BY <1>2 DEF Registered
<1>3. CASE ~sus
  <2>1. ~AsksSuspended(cmd)
    BY <1>1, <1>3 DEF ResumedOnce, AInv, Reachable
  <2>2. "SUSPENDED" \notin GlobalRegcls(cmd.regcls, sus)
        /\ GlobalRegcls(cmd.regcls, sus) # {}
    BY <1>3, <2>1 DEF AsksSuspended, GlobalRegcls
  <2>3. "SUSPENDED" \notin Sanitized(i).regcls
    BY <2>1, <2>2 DEF AsksSuspended, Sanitized, Sanitize
  <2> QED
    BY <2>3 DEF Registered
<1> QED
  BY <1>2, <1>3

LEMMA ReachableMainStep ==
    ASSUME ResumedOnce, AInv, MainStep
    PROVE  Reachable'
<1> USE DEF AInv, SInv, comVars, runtimeVars, qtVars, windowVars
<1>1. /\ cmd \in Commands /\ idx \in Nat /\ table \in [Slots -> SlotState]
      /\ DOMAIN cmd.specs \subseteq Slots
      /\ main = "construct" => idx = 1
      /\ main = "register" => idx \in DOMAIN cmd.specs
      /\ DOMAIN cmd.specs = 1 .. Len(cmd.specs) /\ Len(cmd.specs) \in Nat
      /\ Len(cmd.specs) > 0
  BY CommandsAssumption DEF IInv, TypeOK, ComTypeOK, StandaloneTypeOK, AtSpec,
                            Command
<1>2. CASE BeginRegistration
  <2>1. main' = "lookup" /\ UNCHANGED idx /\ idx = 1
    BY <1>1, <1>2 DEF BeginRegistration, At
  <2>2. "suspend" \notin Faults => sus'
    BY <1>2 DEF BeginRegistration, Succeeds
  <2> QED
    BY <2>1, <2>2 DEF Reachable
<1>3. CASE LookupOriginal
  BY <1>3 DEF LookupOriginal, At, Reachable, Opening, Sanitized
<1>4. CASE RegisterClass
  <2>1. /\ main = "register" /\ main' \in {"lookup", "finish"} /\ idx' = idx + 1
        /\ UNCHANGED <<sus, hr, cmd>>
        /\ table' = IF "LOCAL_SERVER" \in Sanitized(idx).register
                    THEN [table EXCEPT ![idx] = Registered(Sanitized(idx))]
                    ELSE table
    BY <1>4 DEF RegisterClass, At, AfterSpec
  <2>2. SUFFICES ASSUME hr, NEW i \in 1 .. idx,
                        "LOCAL_SERVER" \in Sanitized(i).register
                 PROVE  table'[i] \in Opening
    BY <1>1, <2>1 DEF Reachable, Opening, Sanitized
  <2>3. CASE i = idx
    BY <1>1, <2>1, <2>2, <2>3, RegisteredOpening DEF Opening
  <2>4. CASE i # idx
    <3>1. i \in 1 .. idx - 1 /\ table'[i] = table[i]
      BY <1>1, <2>1, <2>4
    <3> QED
      BY <2>1, <2>2, <3>1 DEF Reachable
  <2> QED
    BY <2>3, <2>4
<1>5. CASE RegisterClassFails
  BY <1>5 DEF RegisterClassFails, At, AfterSpec, Reachable
<1>6. CASE FinishRegistration
  <2>1. /\ main = "finish" /\ main' = "start" /\ UNCHANGED <<idx, sus, hr, cmd>>
        /\ table' = IF sus THEN Resumed(table) ELSE table
    BY <1>6 DEF FinishRegistration, At, ResumedOnce, Succeeds
  <2>2. SUFFICES ASSUME hr, NEW i \in 1 .. idx - 1,
                        "LOCAL_SERVER" \in Sanitized(i).register
                 PROVE  table'[i] \in {"active", "withdrawn"}
    BY <2>1 DEF Reachable, Opening, Sanitized
  <2>3. table[i] \in Opening
    BY <2>1, <2>2 DEF Reachable
  <2>4. i \in Slots
    BY <1>1, <2>1 DEF Progress
  <2> QED
    BY <2>1, <2>3, <2>4 DEF Opening, Resumed
<1>7. CASE NoClassRegistered
  <2>1. main = "finish" /\ cookies = {} /\ main' = "noclass"
        /\ UNCHANGED <<idx, sus, hr, cmd, table>>
    BY <1>7 DEF NoClassRegistered, At, HasRegisteredClass
  <2>2. 1 \in 1 .. idx - 1
    BY <1>1, <2>1 DEF Progress
  <2>3. ~hr
    BY <2>1, <2>2 DEF Progress
  <2> QED
    BY <2>1, <2>3 DEF Reachable
<1>8. CASE ExitWithoutClass
  BY <1>8 DEF ExitWithoutClass, At, Reachable
<1>9. CASE StartExec \/ ExecReturns \/ Teardown
  <2>1. main' \in {"exec", "teardown", "gone"} /\ main # "construct" /\ UNCHANGED sus
    <3>1. ExecReturns => main # "construct"
      BY DEF ExecReturns, Pop, In, Nested
    <3> QED
      BY <1>9, <3>1 DEF StartExec, ExecReturns, Teardown, At
  <2> QED
    BY <2>1 DEF Reachable
<1>10. CASE StartupBoxReturns
  BY <1>10 DEF StartupBoxReturns, standaloneVars, Reachable, Opening, Sanitized
<1> QED
  BY <1>2, <1>3, <1>4, <1>5, <1>6, <1>7, <1>8, <1>9, <1>10
     DEF MainStep, MainThread

LEMMA ReachableNext ==
    ASSUME ResumedOnce, AInv, [Next]_vars
    PROVE  Reachable'
<1> USE DEF AInv, SInv
<1>1. CASE MainStep
  BY <1>1, ReachableMainStep
<1>2. CASE \/ ExitStep \/ TimerStep \/ IdleStep \/ QuitStep \/ LoadFailureReturns
           \/ \E c \in Clients : ClientCall(c)
           \/ UNCHANGED vars
  <2>1. UNCHANGED <<main, cmd, idx, sus, hr>>
    BY <1>2, OnlyCloses DEF standaloneVars
  <2>2. SUFFICES ASSUME hr, main \in {"lookup", "register", "finish", "start"},
                        NEW i \in 1 .. idx - 1,
                        "LOCAL_SERVER" \in Sanitized(i).register
                 PROVE  table'[i] \in Opening
    BY <2>1 DEF Reachable, Opening, Sanitized
  <2>3. table[i] \in Opening /\ i \in Slots
    <3>1. /\ cmd \in Commands /\ idx \in Nat
          /\ main \in {"lookup", "register"} => idx \in DOMAIN cmd.specs
      BY DEF IInv, TypeOK, StandaloneTypeOK, AtSpec
    <3>2. DOMAIN cmd.specs = 1 .. Len(cmd.specs) /\ Len(cmd.specs) \in Nat
          /\ DOMAIN cmd.specs \subseteq Slots
      BY <3>1, CommandsAssumption DEF Command
    <3>3. i \in DOMAIN cmd.specs
      BY <2>2, <3>1, <3>2 DEF Progress
    <3> QED
      BY <2>2, <3>2, <3>3 DEF Reachable
  <2>4. CASE UNCHANGED table
    BY <2>3, <2>4
  <2>5. CASE /\ loops # <<>>
             /\ \/ table'[i] = table[i]
                \/ /\ table[i] = "active"
                   /\ table'[i] \in {"suspended", "withdrawn"}
    <3>1. main # "start" /\ (QuietStartup => main \notin Starting)
      BY <2>5 DEF Nested, GInv, QuietConstructor
    <3>2. sus
      BY <2>2, <3>1 DEF ResumedOnce, Reachable, Starting
    <3> QED
      BY <2>3, <2>5, <3>1, <3>2 DEF Opening
  <2> QED
    BY <1>2, <2>3, <2>4, <2>5, OnlyCloses
<1> QED
  BY <1>1, <1>2 DEF Next, Ended

(* The ready event of a host that resumes what it suspended tells the      *)
(* truth: when the constructor ends, every class can be reached or has     *)
(* been handed out already.  The other failures may happen.                *)
THEOREM ReadyReachable == ResumedOnce => (Spec => []ReadyMeansReachable)
<1> SUFFICES ASSUME ResumedOnce PROVE Spec => []ReadyMeansReachable
  OBVIOUS
<1>1. Init => AInv
  <2> SUFFICES ASSUME Init PROVE AInv
    OBVIOUS
  <2>1. QuietConstructor /\ ExitGuardArmed
    BY DEF Init, RuntimeInit, StandaloneInit, QuietConstructor, Starting,
           ExitGuardArmed, Serving
  <2>2. Reachable
    BY DEF Init, StandaloneInit, Reachable
  <2> QED
    BY <2>1, <2>2, InitSInv DEF AInv, SInv, GInv
<1>2. AInv /\ [Next]_vars => AInv'
  <2> SUFFICES ASSUME AInv, [Next]_vars PROVE AInv'
    OBVIOUS
  <2>1. QuietStartup => GInv'
    BY GuardNext DEF AInv
  <2> QED
    BY <2>1, NextSInv, ReachableNext DEF AInv
<1>3. AInv => ReadyMeansReachable
  <2> SUFFICES ASSUME AInv, main = "start", ready, NEW i \in DOMAIN cmd.specs,
                      "LOCAL_SERVER" \in Sanitized(i).register
               PROVE  table[i] \in {"active", "withdrawn"}
    BY DEF ReadyMeansReachable
  <2>1. hr /\ idx = Len(cmd.specs) + 1
    BY DEF AInv, SInv, Progress
  <2>2. DOMAIN cmd.specs = 1 .. Len(cmd.specs) /\ Len(cmd.specs) \in Nat
    BY CommandsAssumption
       DEF AInv, SInv, IInv, TypeOK, StandaloneTypeOK, Command
  <2> QED
    BY <2>1, <2>2 DEF AInv, Reachable, Opening
<1> QED
  BY <1>1, <1>2, <1>3, PTL DEF Spec
=============================================================================
