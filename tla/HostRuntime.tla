---------------------------- MODULE HostRuntime ------------------------------
(***************************************************************************)
(* HostSurrogateRuntime (surrogate_runtime.cc) on the one GUI thread of    *)
(* the process: the exit-condition timer, the idle warning and the way     *)
(* out, on top of Qt's event loops.                                        *)
(*                                                                         *)
(* Qt is external.  "loops" is the stack of event loops that are running   *)
(* on the thread, the innermost first: a QMessageBox runs a loop of its    *)
(* own inside the call that shows it, and that loop delivers the timer,    *)
(* posted calls and incoming COM calls like any other.                     *)
(*   "exec"     QApplication::exec                                         *)
(*   "startup"  a message box shown by the runtime's constructor           *)
(*   "idle"     the message box of CheckForExit                            *)
(*   "load"     the message box of HostContainer's constructor             *)
(***************************************************************************)
EXTENDS ComServer, Sequences

VARIABLES
    loops,      \* stack of running event loops
    quitNow,    \* Qt's per-thread flag: every running loop has been told to exit
    exitPosted, \* a queued call of QCoreApplication::exit is pending
    quitPosted, \* Qt's own QEvent::Quit for the last closed window is pending
    windowQuit, \* that event ended the loops, no call of exit (history)
    timer,      \* m_checkForExitTimer is running
    warned,     \* m_warnedIdle
    acquired    \* m_acquisitionCount # 0

windowVars == <<quitPosted, windowQuit>>
qtVars == <<loops, quitNow, exitPosted, windowVars>>
runtimeVars == <<qtVars, timer, warned, acquired>>

Frame == {"exec", "startup", "idle", "load"}

(* Something is delivered only by a running loop that has not been told    *)
(* to exit: QCoreApplication::exit interrupts the event dispatcher.        *)
Pumping == loops # <<>> /\ ~quitNow

In(frame) == loops # <<>> /\ Head(loops) = frame

Push(frame) == loops' = <<frame>> \o loops

Pop(frame) ==
    /\ In(frame)
    /\ loops' = Tail(loops)

(* A window that is shown takes a pending QEvent::Quit back.               *)
ShowBox(frame) ==
    /\ Push(frame)
    /\ quitPosted' = FALSE
    /\ UNCHANGED windowQuit

(* A message box is closed by the user, or because its loop was told to    *)
(* exit; either way control returns to the code below it.  The boxes have  *)
(* no parent and the application keeps quitOnLastWindowClosed: when the    *)
(* last window goes while QApplication::exec runs, Qt posts a QEvent::Quit.*)
CloseBox(frame) ==
    /\ Pop(frame)
    /\ quitPosted' = (quitPosted \/ (Tail(loops) = <<"exec">> /\ ~quitNow))
    /\ UNCHANGED windowQuit

ExitApplicationLater == exitPosted' = TRUE

CheckForExitLater == timer' = TRUE

(* The posted call is delivered: QCoreApplication::exit sets the thread's  *)
(* flag and stops every loop of the stack.                                 *)
ProcessExit ==
    /\ Pumping
    /\ exitPosted
    /\ quitNow' = TRUE
    /\ exitPosted' = FALSE
    /\ UNCHANGED <<comVars, loops, windowVars, timer, warned, acquired>>

(* QEvent::Quit is delivered, which is a QCoreApplication::exit as well.   *)
LastWindowQuits ==
    /\ Pumping
    /\ quitPosted
    /\ quitNow' = TRUE
    /\ quitPosted' = FALSE
    /\ windowQuit' = ~exitPosted
    /\ UNCHANGED <<comVars, loops, exitPosted, timer, warned, acquired>>

(***************************************************************************)
(* CheckForExit, the slot of the single-shot timer, in its three outcomes. *)
(***************************************************************************)
TimerFires == Pumping /\ timer

CheckForExitBusy ==
    /\ TimerFires
    /\ refs # 0
    /\ CoProbeServerProcess
    /\ CheckForExitLater
    /\ UNCHANGED <<qtVars, warned, acquired>>

(* Mutant: the warning is shown whoever has used the host.                 *)
CheckForExitWarnAlways ==
    /\ TimerFires
    /\ refs = 0
    /\ CoProbeServerProcess
    /\ timer' = FALSE
    /\ warned' = TRUE
    /\ ShowBox("idle")
    /\ UNCHANGED <<quitNow, exitPosted, acquired>>

(* Mutant: the count is read without the Release that suspends.            *)
CheckForExitWarnOpen ==
    /\ TimerFires
    /\ refs = 0
    /\ ~acquired /\ ~warned
    /\ timer' = FALSE
    /\ warned' = TRUE
    /\ ShowBox("idle")
    /\ UNCHANGED <<comVars, quitNow, exitPosted, acquired>>

CheckForExitWarn ==
    /\ TimerFires
    /\ refs = 0
    /\ ~acquired /\ ~warned
    /\ CoProbeServerProcess
    /\ timer' = FALSE
    /\ warned' = TRUE
    /\ ShowBox("idle")
    /\ UNCHANGED <<quitNow, exitPosted, acquired>>

(* Mutant: a host that has been used looks again later.                    *)
CheckForExitIdleRearms ==
    /\ TimerFires
    /\ refs = 0
    /\ acquired \/ warned
    /\ CoProbeServerProcess
    /\ CheckForExitLater
    /\ UNCHANGED <<qtVars, warned, acquired>>

CheckForExitIdle ==
    /\ TimerFires
    /\ refs = 0
    /\ acquired \/ warned
    /\ CoProbeServerProcess
    /\ timer' = FALSE
    /\ ExitApplicationLater
    /\ UNCHANGED <<loops, quitNow, windowVars, warned, acquired>>

CheckForExit == CheckForExitBusy \/ CheckForExitWarn \/ CheckForExitIdle

(* Mutant: the function ends with the warning.                             *)
IdleWarningReturnsOnly ==
    /\ CloseBox("idle")
    /\ UNCHANGED <<comVars, quitNow, exitPosted, timer, warned, acquired>>

(* The warning is closed: CheckForExit goes on to its last statement,      *)
(* whatever happened while the box was open.                               *)
IdleWarningReturns ==
    /\ CloseBox("idle")
    /\ ExitApplicationLater
    /\ UNCHANGED <<comVars, quitNow, timer, warned, acquired>>

RuntimeTypeOK ==
    /\ loops \in Seq(Frame)
    /\ quitNow \in BOOLEAN /\ exitPosted \in BOOLEAN /\ timer \in BOOLEAN
    /\ quitPosted \in BOOLEAN /\ windowQuit \in BOOLEAN
    /\ warned \in BOOLEAN /\ acquired \in BOOLEAN

(* The base constructor: the timer is running before the derived           *)
(* constructor's body starts, and no loop is.                              *)
RuntimeInit ==
    /\ loops = <<>>
    /\ quitNow = FALSE
    /\ exitPosted = FALSE
    /\ quitPosted = FALSE
    /\ windowQuit = FALSE
    /\ timer = TRUE
    /\ warned = FALSE
    /\ acquired = FALSE
=============================================================================
