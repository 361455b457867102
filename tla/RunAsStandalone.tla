-------------------------- MODULE RunAsStandalone ----------------------------
(***************************************************************************)
(* RunAsStandalone (surrogate_runtime.cc) with the part of HostSurrogate   *)
(* it drives (surrogate.cc): the constructor that registers the classes    *)
(* of the command line, QApplication::exec in main, and the destructor.    *)
(* "main" is the point the GUI thread has reached; while a message box of  *)
(* the constructor is open the constructor waits below it on the stack.    *)
(***************************************************************************)
EXTENDS HostRuntime, ClassSpecs

CONSTANTS
    Commands,   \* the command lines the host may be started with
    Faults      \* the calls of the COM library that may fail in this instance

FaultKinds == {"suspend", "original", "register", "reregister", "resume",
               "revoke", "load"}

ASSUME CommandsAssumption ==
    \A c \in Commands : c \in Command /\ c.specs # <<>> /\ DOMAIN c.specs \subseteq Slots

ASSUME FaultsAssumption == Faults \subseteq FaultKinds

VARIABLES
    main,       \* where the GUI thread is
    cmd,        \* the command line: parsed.specs and parsed.regcls
    idx,        \* the specification RegisterAllClassFactories is at
    sus,        \* CoSuspendClassObjects succeeded in the constructor
    original,   \* LoadDllServerEx holds the original in-process class factory
    hr,         \* hrOverall of RegisterAllClassFactories is still S_OK
    cookies,    \* m_cookies of the HostSurrogate
    ready       \* the ready event is set

standaloneVars == <<main, cmd, idx, sus, original, hr, cookies, ready>>

Point == {"construct", "lookup", "register", "finish", "noclass",
          "start", "exec", "teardown", "gone"}

CookieKind == Slots \X {"surrogate", "original"}

(* The results a call of the COM library may have.                         *)
Succeeds(call) == IF call \in Faults THEN BOOLEAN ELSE {TRUE}

(* Constructor code runs only while no message box of it is open.          *)
At(point) == main = point /\ loops = <<>>

Sanitized(i) == Sanitize(cmd.specs[i], GlobalRegcls(cmd.regcls, sus))

HasRegisteredClass == cookies # {}

AfterSpec == IF idx + 1 \in DOMAIN cmd.specs THEN "lookup" ELSE "finish"

StartupBox(show) ==
    IF show THEN ShowBox("startup") ELSE UNCHANGED <<loops, windowVars>>

BeginRegistration ==
    /\ At("construct")
    /\ \E ok \in Succeeds("suspend") :
          /\ sus' = ok
          /\ table' = IF ok THEN Suspended(table) ELSE table
    /\ main' = "lookup"
    /\ UNCHANGED <<refs, runtimeVars, cmd, idx, original, hr, cookies, ready>>

(* The original in-process factory is looked up first when COM would       *)
(* otherwise resolve the class to this very process.                       *)
LookupOriginal ==
    /\ At("lookup")
    /\ LET found == IF LooksUpOriginal(Sanitized(idx)) THEN Succeeds("original")
                                                   ELSE {FALSE}
       IN \E ok \in found :
            /\ original' = ok
            /\ StartupBox(/\ LooksUpOriginal(Sanitized(idx)) /\ ~ok
                          /\ Sanitized(idx).alias = "clsid")
    /\ main' = "register"
    /\ UNCHANGED <<comVars, quitNow, exitPosted, timer, warned, acquired,
                   cmd, idx, sus, hr, cookies, ready>>

RegisterClass ==
    /\ At("register")
    /\ \E again \in (IF original THEN Succeeds("reregister") ELSE {FALSE}) :
          cookies' = cookies \cup {<<idx, "surrogate">>}
                             \cup (IF again THEN {<<idx, "original">>} ELSE {})
    /\ table' = IF "LOCAL_SERVER" \in Sanitized(idx).register
                THEN [table EXCEPT ![idx] = Registered(Sanitized(idx))]
                ELSE table
    /\ original' = FALSE
    /\ main' = AfterSpec
    /\ idx' = idx + 1
    /\ UNCHANGED <<refs, runtimeVars, cmd, sus, hr, ready>>

(* Mutant: the failure is shown and forgotten.                             *)
RegisterClassFailsSilently ==
    /\ At("register")
    /\ FALSE \in Succeeds("register")
    /\ ShowBox("startup")
    /\ original' = FALSE
    /\ main' = AfterSpec
    /\ idx' = idx + 1
    /\ UNCHANGED <<comVars, quitNow, exitPosted, timer, warned, acquired,
                   cmd, sus, hr, cookies, ready>>

(* CoRegisterClassObject fails: a message box, and on to the next one.     *)
RegisterClassFails ==
    /\ At("register")
    /\ FALSE \in Succeeds("register")
    /\ ShowBox("startup")
    /\ original' = FALSE
    /\ hr' = FALSE
    /\ main' = AfterSpec
    /\ idx' = idx + 1
    /\ UNCHANGED <<comVars, quitNow, exitPosted, timer, warned, acquired,
                   cmd, sus, cookies, ready>>

(* Mutant: the ready event is set before the classes are resumed, and the  *)
(* resume is left out.                                                     *)
FinishWithoutResume ==
    /\ At("finish")
    /\ HasRegisteredClass
    /\ ready' = hr
    /\ main' = "start"
    /\ UNCHANGED <<comVars, runtimeVars, cmd, idx, sus, original, hr, cookies>>

(* The end of the constructor: resume and signal, when a class was         *)
(* registered ...                                                          *)
FinishRegistration ==
    /\ At("finish")
    /\ HasRegisteredClass
    /\ \E ok \in Succeeds("resume") :
          table' = IF sus /\ ok THEN Resumed(table) ELSE table
    /\ ready' = hr
    /\ main' = "start"
    /\ UNCHANGED <<refs, runtimeVars, cmd, idx, sus, original, hr, cookies>>

(* ... or the message box and the exit, when none was.                     *)
NoClassRegistered ==
    /\ At("finish")
    /\ ~HasRegisteredClass
    /\ ShowBox("startup")
    /\ main' = "noclass"
    /\ UNCHANGED <<comVars, quitNow, exitPosted, timer, warned, acquired,
                   cmd, idx, sus, original, hr, cookies, ready>>

ExitWithoutClass ==
    /\ At("noclass")
    /\ ExitApplicationLater
    /\ ready' = hr
    /\ main' = "start"
    /\ UNCHANGED <<comVars, loops, quitNow, windowVars, timer, warned, acquired,
                   cmd, idx, sus, original, hr, cookies>>

StartupBoxReturns ==
    /\ CloseBox("startup")
    /\ UNCHANGED <<comVars, quitNow, exitPosted, timer, warned, acquired,
                   standaloneVars>>

(* app.exec(): Qt clears the quit flag, then runs the outermost loop.      *)
StartExec ==
    /\ At("start")
    /\ quitNow' = FALSE
    /\ Push("exec")
    /\ main' = "exec"
    /\ UNCHANGED <<comVars, exitPosted, windowVars, timer, warned, acquired,
                   cmd, idx, sus, original, hr, cookies, ready>>

(* Mutant: the main loop is left only when no client is connected.         *)
ExecReturnsWhenFree ==
    /\ quitNow /\ refs = 0
    /\ Pop("exec")
    /\ quitNow' = FALSE
    /\ main' = "teardown"
    /\ UNCHANGED <<comVars, exitPosted, windowVars, timer, warned, acquired,
                   cmd, idx, sus, original, hr, cookies, ready>>

ExecReturns ==
    /\ quitNow
    /\ Pop("exec")
    /\ quitNow' = FALSE
    /\ main' = "teardown"
    /\ UNCHANGED <<comVars, exitPosted, windowVars, timer, warned, acquired,
                   cmd, idx, sus, original, hr, cookies, ready>>

(* The destructor: suspend, revoke every cookie, and resume whatever could *)
(* not be revoked; then s_instance is cleared and the process ends.        *)
Teardown ==
    /\ At("teardown")
    /\ \E kept \in SUBSET (IF "revoke" \in Faults THEN cookies ELSE {}),
          ok \in Succeeds("suspend"), again \in Succeeds("resume") :
          LET revoked(t) == [i \in Slots |-> IF <<i, "surrogate">> \in kept
                                             THEN t[i] ELSE "absent"]
              left == revoked(IF ok THEN Suspended(table) ELSE table)
          IN /\ cookies' = kept
             /\ table' = IF ok /\ kept # {} /\ again THEN Resumed(left) ELSE left
    /\ main' = "gone"
    /\ timer' = FALSE
    /\ UNCHANGED <<refs, qtVars, warned, acquired, cmd, idx, sus, original, hr,
                   ready>>

MainThread ==
    \/ BeginRegistration
    \/ LookupOriginal
    \/ RegisterClass
    \/ RegisterClassFails
    \/ FinishRegistration
    \/ NoClassRegistered
    \/ ExitWithoutClass
    \/ StartExec
    \/ ExecReturns
    \/ Teardown

(***************************************************************************)
(* The overrides the containers and the class factory call.  The timer is  *)
(* restarted by a multiple-use host; a single-use host leaves at once.     *)
(***************************************************************************)
AddServerReference ==
    /\ CoAddRefServerProcess
    /\ acquired' = TRUE

(* Mutants: a multiple-use host trusts the timer to be running; a          *)
(* single-use host waits like a multiple-use one.                          *)
OnLastReleaseNoTimer ==
    IF HasMultipleUse(cmd)
    THEN UNCHANGED <<timer, exitPosted>>
    ELSE ExitApplicationLater /\ UNCHANGED timer

OnLastReleaseWaits == CheckForExitLater /\ UNCHANGED exitPosted

OnLastRelease ==
    IF HasMultipleUse(cmd)
    THEN CheckForExitLater /\ UNCHANGED exitPosted
    ELSE ExitApplicationLater /\ UNCHANGED timer

ReleaseServerReference ==
    /\ CoReleaseServerProcess
    /\ IF refs = 1 THEN OnLastRelease ELSE UNCHANGED <<timer, exitPosted>>

StandaloneTypeOK ==
    /\ main \in Point
    /\ cmd \in Commands
    /\ idx \in Nat
    /\ sus \in BOOLEAN /\ original \in BOOLEAN
    /\ hr \in BOOLEAN /\ ready \in BOOLEAN
    /\ cookies \subseteq CookieKind

StandaloneInit ==
    /\ main = "construct"
    /\ cmd \in Commands
    /\ idx = 1
    /\ sus = FALSE
    /\ original = FALSE
    /\ hr = TRUE
    /\ cookies = {}
    /\ ready = FALSE
=============================================================================
