# A verification project for axhost

axhost is a Windows process that hosts in-process ActiveX/COM controls in a Qt
application of its own, so that clients can use them out of process. This
directory models the parts of it that carry its logic in TLA+, checks them with
TLC on small instances, and proves some of the results with TLAPS for all
instances. Source paths are relative to the repository; `file.cc:n` means
`src/src/file.cc` line n, and `README:n` is `src/README.md`.

## 1. Inventory

| Component | State | Operations | Talks to |
|---|---|---|---|
| Exit timer and process exit (`surrogate_runtime.cc`, `utils.cc`) | single-shot timer, `m_warnedIdle`, `m_acquisitionCount` | `CheckForExit`, `CheckForExitLater`, `ExitApplicationLater` | COM process count; Qt event loops |
| Standalone runtime (`RunAsStandalone`, `HostSurrogate`) | cookies, flags, ready event | constructor, destructor, `AddServerReference`, `ReleaseServerReference`, `RegisterAllClassFactories`, `RevokeAllClassFactories` | COM class table; `QMessageBox` |
| Surrogate runtime (`RunAsSurrogate`, `HostSurrogate`) | cookies | constructor, `LoadDllServer`, `FreeSurrogate` | called by COM |
| Class specification (`class_spec.cc`) | flags of one class | `fromString`, `sanitize` | command line |
| Class factory, container (`container_factory.cc`, `container.cc`) | reference counts, the hosted control | `CreateInstance`, `LockServer`, `QueryInterface`, `Release` | runtime's server references; clients |
| Event sinks (`sink.cc`) | cookie in the global interface table, thread pool | `Invoke`, registration, removal | control calls in, client is called |
| Connection points (`connection_point*.cc`, `enum_*.cc`) | proxies, cookie maps, enumerators | `Advise`, `Unadvise`, `Find`, `Enum`, `Next`, `Clone` | control's own connection points |
| Class info (`provide_class_info.cc`) | none of its own | type library lookup, default source interface | the control, registry |
| Registry (`registry_helper.cc`) | registry keys | `RegisterSurrogate`, `UnregisterSurrogate`, logging settings | registry |
| Command line (`command_line_parser.cc`, `main.cc`) | parsed options | `tryParse`, `parse`, dispatch | everything |
| Logged command line (`command_line.cc`) | none | `CreateCommandLine` | logging |
| Logging (`logging.cc`) | default logger, handlers | `InitializeLoggingStandalone`, `InitializeLoggingSurrogate` | command line, registry |
| Help text and dialog (`command_line_formatter.h`, `help_dialog.cc`) | a window | - | command line |

What is hard here: everything runs on one apartment thread, but that thread is
re-entrant. A message box, a wait for an event handler and `app.exec` each run
an event loop that delivers the exit timer, posted calls and incoming COM calls;
so code "on one thread" is interleaved at every message box, and the stack of
loops decides who gets an exit. Qt has an exit of its own, after the last window has
been closed, and every message box is a window. COM takes part with side effects of its own
(a count of zero suspends all class objects), calls fail, clients die holding
references, and the pool that delivers events has a limited number of threads.
`PROJECT.json` lists the individual hazards with their lines.

What makes the parts correct:
* the host ends when nobody needs it, and on its own account only then; it always has
  something that will end it; once told to end it does;
* each server reference has an owner, on every path of `CreateInstance`;
* the ready event tells the truth about the classes;
* an event reaches the sink it was raised for, while the sink is registered; each
  `Invoke` returns; registrations are neither leaked nor revoked early;
* a client that enumerates connections sees the sinks clients have advised; every
  object lives as long as somebody holds it;
* a success report of the configuring process is true, and nothing it does takes a
  surrogate away from a class it was not about;
* classes are registered as the command line says, the process logs as its role asks,
  and one that has a log file does not end without a trace;
* the logged command line is the command line;
* a client is given the latest type information whose name the code can read.

## 2. Modules

| Module | Models | Used by |
|---|---|---|
| `ComServer` | COM's process count and class table (external) | `HostRuntime` |
| `ClassSpecs` | `ClassSpec::fromString`, `sanitize`, the registration flags | `RunAsStandalone`, `Startup` |
| `HostRuntime` | the exit timer, `CheckForExit`, Qt's stack of loops | both runtimes |
| `RunAsStandalone` | constructor, main loop, destructor, server references | `StandaloneHost` |
| `StandaloneHost` | the runtime with class factories, containers and clients | `MCStandaloneHost`, proofs |
| `ServerLifetime` | what a standalone host promises, without COM, Qt or timers | refined by `StandaloneHost` |
| `StandaloneHost_proofs` | theorems about `StandaloneHost`: types, server references, the guard of the exit | `StandaloneExit_proofs` |
| `StandaloneExit_proofs` | its loops, when it ends, what its ready event is worth | `StandaloneLifetime_proofs` |
| `StandaloneLifetime_proofs` | how it ends, and that it implements `ServerLifetime` | - |
| `SurrogateHost` | `RunAsSurrogate` driven by COM (`LoadDllServer`, `FreeSurrogate`) | `MCSurrogateHost` |
| `EventSinks` | `Advise`, `Unadvise`, `HostEventSink::Invoke`, thread pool, global interface table | `MCEventSinks` |
| `ConnectionPoints` | proxies, enumerators, cookie maps and all reference counts | `MCConnectionPoints` |
| `SurrogateRegistry` | register, unregister and logging settings, one registry call per step, and a surrogate that reads them | `MCSurrogateRegistry` |
| `Startup` | `main` up to its message loop: both parses, logging, initialisation, dispatch | `HostProcess` |
| `CommandLineText` | `CreateCommandLine` against the rules of its reader | `HostProcess` |
| `ClassInfo` | `HostProvideClassInfo`: the control, the registered type libraries, the source interfaces | `HostProcess` |
| `HostProcess` | a process that starts, logs its command line and answers for its type information | `MCHostProcess` |
| `HostProcess_proofs` | theorems about `HostProcess` and its three parts | - |
| `EventSinks_proofs`, `ConnectionPoints_proofs`, `SurrogateHost_proofs`, `SurrogateRegistry_proofs` | theorems about the module each is named after | - |

`HostRuntime` extends `ComServer`; `RunAsStandalone` extends `HostRuntime` and
`ClassSpecs`; `StandaloneHost` and `SurrogateHost` are the two compositions. `HostProcess`
composes `Startup`, in which the command line is written and logged, with
`CommandLineText`, and puts `ClassInfo` behind it; where `Startup` ends with the role
"standalone", `RunAsStandalone` begins with the `Command` that `HostedCommand` names.
`EventSinks`, `ConnectionPoints` and `SurrogateRegistry` stand by themselves: they share
no state with the lifetime of the host. The `MC` modules only give constants their values.

### State and actions

**Host.** `refs` is the count of `CoAddRefServerProcess`, `table` what the service
control manager sees of each class object. `timer` is `m_checkForExitTimer` running,
`warned` and `acquired` are `m_warnedIdle` and `m_acquisitionCount > 0`, `exitPosted`
a queued `QCoreApplication::exit`, `quitNow` Qt's flag, and `loops` the stack of event
loops on the GUI thread, the innermost first. None of the boxes has a parent and `main`
leaves `quitOnLastWindowClosed` as it is: when the last box over `app.exec` is closed
(`CloseBox`), Qt posts a quit (`quitPosted`), which ends the loops like an exit
(`LastWindowQuits`) unless another box is shown first (`ShowBox`). `windowQuit` remembers
that this, and no call of `exit`, ended them. The containers of the controls are never
shown, so the boxes are the only windows. A function that shows a message box is
two actions, the part before it (which pushes a loop) and the part after it (which
pops it); everything that a loop delivers is enabled in between. All other functions
are one action. `main` says which statement of the constructor, of `main` or of the
destructor comes next. `objects` are clients with a `HostContainer`, `creating` the
clients whose `CreateInstance` shows the load-failure box, `bare` clients that hold
only an interface of the control, `locks` those with `LockServer(TRUE)`. A crashed
client's objects are given back by COM one at a time. In the refinement, `windowQuit` is
what `ServerLifetime` calls `interrupted`: an interrupted server serves nobody any more
and ends, under whomever it was serving.

**Surrogate.** The same runtime, but `AddServerReference` is the empty one of the base
class. Whether COM counts the clients of a surrogate itself is not in the repository;
`counts` is chosen initially and stays, so both answers are covered. `FreeSurrogate`
leaves the class objects whose revocation fails (`kept`) in the table, posts the exit all
the same, and answers with the error; `freed` is the last answer COM got, and after an
error it may ask again.

**Sinks.** `stack` is the nesting of `Invoke` calls on the apartment, each with the
state of its job in the pool; `git` is the global interface table, `cookie` the field
`m_cookie`. A registration that fails leaves `m_cookie` with any value, since no
constructor writes it. `Hung` says that neither the innermost `Invoke` nor a thread of
the pool can go on, `Starved` that handlers waiting for nested `Invoke`s have all threads.

**Connection points.** `objects` is the heap: each object has a count, the number of
references clients hold, and the one object it keeps. `cache` is
`m_proxyConnectionPoints`; `maps` stands for the two cookie maps, which are always
changed together; `table` is the control's. A client is never made to use the freed
clone it may hold: what that does is undefined.

**Registry.** `class` and `app` are the values below `CLSID` and `AppID`, `tools` the
configuring processes with the registry call each is about to make. A call may be
refused, a process killed, and `UnregisterSurrogate` may have to pass over a key
(`"skips"`). Missing administrator rights end a process before its first call and
change nothing, which is what a failing first call does.

**Start.** `asked` is the command line, by what it decides, without the options of Qt;
`parsed` the `ParsedResult` of the parse that ran last. `QApplication` takes Qt's options
(`-reverse`, `-style fusion`) out of `argc` between the two parses, so `parse` reads
`asked`, and `tryParse` reads `Whole(asked)`: CLI11 does not know those options, and takes
the value of one for the positional CLSID where there is none. Qt's options stand at the
end of the line. CLI11 is external, but the order in which it runs the
callbacks of the options decides what a failed first parse leaves behind, and
`Assigned` follows that order. `at` is the statement of `main` that comes next, `logger`
and `handlers` what `InitializeLogging...` has set up, `boxes` what the user has been told,
`logged` whether the reason of the end is in a log file (a message on stderr is lost, the
program being one of the windows subsystem). An exception that leaves `main` is `Terminates`. A message box
opened in the first parse ends the process: Qt aborts an application that makes a
window before its `QApplication` (external).

**Text.** A step of the writer emits a number of backslashes and one other character,
and the reader takes both at once, so that `argv`, `word` and `inQuotes` are always what
the reader has made of the line so far. Characters are abstracted to how writer and
reader treat them.

**Class info.** A call goes `step` by step; `index` and `best` are the loop's variables.
A key name is two sequences of hexadecimal digits, as COM reads it; `Scanned` is what
the decimal `swscanf_s` makes of it, `Stored` the cast to `USHORT`. `Install` and
`Uninstall` change the keys between any two steps.

## 3. Runs

| Run | Instance | Shows |
|---|---|---|
| `standalone_scm` | 3 clients, 2 classes, 12 command lines; controls fail to load, COM calls fail that show no box | a host ends when it should: immediately in single-use mode, by the timer otherwise, and under a client only by Qt's own quit; it refines `ServerLifetime` |
| `standalone_full` | 2 clients, every habit, every fault but the two of `standalone_scm` (a failing `CoSuspendClassObjects`, a failing new registration of the original server) | the counts balance, boxes nest in one way only, the exit guard is lost only by an unused host, an exit is carried out |
| `standalone_lost_exit` | 1 client, a failing registration | *violation*, see below |
| `standalone_window` | 1 client, defaults | *violation* |
| `standalone_quit` | 2 clients, defaults, controls that fail to load | *violation* |
| `surrogate` | 2 clients, 2 classes, both readings of COM's counting | a process ends under a client only if COM loaded a class after the end had been decided, if `FreeSurrogate` left a class behind, or by Qt's own quit; after a `FreeSurrogate` that succeeded nobody is served; an unused surrogate ends |
| `surrogate_warning` | 1 client | *violation* |
| `sinks` | 2 sinks, 3 nested events; pools of 1, 2 and 3 threads, handlers that call back or not, controls that hold their sinks or not, failing registrations, dying clients | each event reaches its own sink and no registration is leaked, under the conditions the properties name; `Invoke`s hang only over a lost sink, or when waiting handlers have all threads of the pool; in a sound setting every `Invoke` returns |
| `points` | 2 connection points, 2 sinks, 1 cookie, 4 objects | counts, cookie maps, what enumerators return, and what is left at the end |
| `registry` | 2 processes, 2 classes that may share an AppID, 1 starting surrogate | success reports are true; who can take a surrogate away; a surrogate logs as it was told |
| `registry_unregister` | 1 process, keys that cannot be opened | *violation* |
| `startup` | 2,937 command lines, with and without options of Qt, 2,110 argument lists, 41 states of what is installed, each varied with the others fixed; every initialisation and registry call may fail | classes as documented, logging by role and as asked, no silent end where there is a log file, the logged line reads back, the latest type library and the declared source interface |

**Bounds.** Two classes are enough for one to fail and the other not, and for COM to
load a second one; three clients for one to be served while another releases and a
third is in a load-failure box. Three nested events exceed the smaller pools. One
cookie forces its reuse, and four objects are a container, two proxies and an
enumerator, or a container, a proxy, an enumerator and its clone; `MaxHeld` is one
reference of a client on each object. Two processes are needed for an overlap, and
every wrong order of two can be had with one call of each in between. Arguments of up to
three characters hold every order of a backslash, a quote and a third character, and one
of four holds an odd run of backslashes before a quote; the theorems below need no bound.
Six version keys are one for each way a name can be read: rightly, before and after a
later one in the order of the registry, half, as another number, and too large.
`MaxDepth`, `MaxObjects`, `MaxHeld` are the only bounds in guards; all counters of the
host are bounded by its clients. `Word` is 65,536, the real one.

`CHECK_DEADLOCK FALSE` is set where the system really may stop: when all sinks have
been used or all references released, for a host whose exit is lost, and for a process
that has ended.

**Fairness.** The GUI thread runs what it has to run, Qt delivers the timer and posted
calls to a running loop, and somebody closes the message boxes (an attended desktop;
on an unattended one a message box stops the host for ever). In `EventSinks` the
pool starts queued jobs while it has threads, and a handler returns; as a handler may
call back in between, and is then not always able to return, this takes strong
fairness, meaning that it does not call back for ever. Nothing is assumed of clients,
of COM's calls to a surrogate, or of configuring processes.

### Disagreements with the documentation

* *An exit spent on a message box* (`standalone_lost_exit`). The timer already runs
  while the constructor shows its boxes. If it fires there, the posted
  `QCoreApplication::exit` ends the loops of the boxes; `app.exec` starts afterwards
  with neither timer nor exit, and the process stays (README:114 promises its end).
* *No window in multiple-use mode* (`standalone_window`). COM suspends all class
  objects when the count reaches zero, the code restarts its timer and resumes
  nothing, so no client can be activated in the window README:178 describes.
* *Gone with the last box* (`standalone_quit`). A client is being served, the control of
  another cannot be loaded, and the user closes the box that says so (`container.cc:86`).
  It was the last window, and Qt quits: the process ends under the first client, although
  COM's reference count, by which README:151 says the lifetime is controlled, is not zero.
* *A warning that is not true* (`surrogate_warning`). A surrogate never counts its
  clients, so "No COM interaction has occurred" is shown after clients were served.
* *Unregistered, or not* (`registry_unregister`). A key that cannot be opened is
  passed over and success is reported with the values listed as removed.

More show in the model without a run of their own:

* *Single use is not single.* `REGCLS_MULTI_SEPARATE` is always added (`surrogate.cc:95`),
  and with it a local class object goes on serving (README:130, 168). That bit's meaning is
  COM's, stated in `ServesMany`; the host refines `ServerLifetime` with any number of
  sessions, and not with one.
* *A bare `axhost`.* README:48 and README:157 call no arguments the surrogate mode that
  stays alive. `main` serves as a surrogate only with a CLSID and `-Embedding`, and returns
  at once with no arguments (`main.cc:137`; `NothingAsked`, which `NoSilentEnd` excepts).
* *Ends without a trace.* README:188 has initialization errors displayed in message boxes.
  A malformed `--clsid` in the first parse and a log file that cannot be opened end the
  process with neither box nor log (`EndedEarly`); failures of COM's initialization are
  only logged, and the default logger writes to the stderr of a windows program
  (`logging.cc:107`, `src/CMakeLists.txt:97`), where nobody sees it: `NoSilentEnd` is about
  processes with a log file.
* *An option of Qt silences the log.* With `--clsid {C} --log-file f -style fusion` the
  first parse takes `fusion` for a CLSID and fails, and logging is set up from nothing; the
  second passes, and the classes are served without the log file (`Misled`, which
  `LoggingAsAsked` excepts).
* *The timeout.* `--timeout`, of which README:177 speaks, is parsed and used nowhere.
* *Versions of type libraries.* The code reads hexadecimal version names as decimal numbers,
  so that version 16 (`10.0`) counts as 10; it does not see names such as `b.0` and `1.b` at
  all; and a version removed during the enumeration hides another. `LatestVersion` excepts
  these three, and `SourceAsDeclared` where the type library cannot be found for one of them.

## 4. Proofs

Every invariant and every action property a passing run checks is also a theorem, for
every value of the constants: any number of clients, sinks, points, cookies, processes,
classes and keys, all command lines, and every choice of faults. The assumptions are the
named `ASSUME`s of the modules (clients are finitely many, a command line of a standalone
host names at least one class, the program's path is a file name, ...), which TLC
evaluates on every run. Where a theorem has a further hypothesis, it is in the
statement, and a run or an example below shows that it is needed:

| Hypothesis | Meaning | Why |
|---|---|---|
| `QuietStartup` | the calls whose failure shows a box in the constructor succeed | without it `standalone_lost_exit` is a counterexample |
| `NoFactories` | no client keeps a class factory | such a client can create an instance behind the closed door; `ExitClosesDoor` speaks of activation only, and needs no such hypothesis |
| `ResumedOnce` | resuming works, and if suspending may fail, no box is shown in the constructor and no class asks to be suspended | a class that stays suspended is registered and not reachable |
| `LoadsSucceed` | every control can be loaded | without it `standalone_quit` is a counterexample to `EndsWhenUnused`; the other theorems about the end of a host do not need it and except Qt's quit instead |
| `NothingSkipped` | `UnregisterSurrogate` passes over no key | without it `registry_unregister` is a counterexample |

**Standalone host.** Four invariants, each on top of the one before:

* `IInv` (`StandaloneHost_proofs`): the types, the balance of the server references and
  `AtSpec`, which says that the specification the constructor works on exists. They need
  each other: a decrement keeps `refs` a natural number only because the container or lock
  that gives the reference back is still counted, and the registration loop keeps its index
  in range only by `AtSpec`. `TypeCorrect` and `RefsBalanced` follow; `GuardArmed` adds that
  a constructor without boxes runs with an empty stack and the timer running.
* `SInv` (`StandaloneExit_proofs`): which loop may stand where on the stack, one load box
  for each client whose control cannot be loaded (`FrameFits`), and how far the constructor
  has come with the class table (`Progress`). It gives `BoxesNest` and `ReadyRegistered`,
  `GuardLost` with what is known of a host that nobody has used, and `ReadyReachable` with
  the states of a class object from which a client will reach it (`Opening`).
* `XInv` and `RInv` (`StandaloneLifetime_proofs`): from the moment an exit is on its way
  there is no way in (`DoorInv`), and nobody is inside (`Deserted`), as long as it is the
  host's own exit and not Qt's quit. They give `LeavesAtOnce`, `NoWayInAtExit` and
  `NobodyAbandoned`. `QuitCovered` says when Qt's quit can do no harm: if every control
  loads, the only box over the main loop is the idle warning, which has an exit behind it
  (`NoWindowQuit`), and `EndsWhenUnused` needs no exception.
* `ImplementsLifetime`: with the mapping of `StandaloneHost`, the initial states of a host
  are initial states of `ServerLifetime`, and each of its steps is a step there or a
  stutter. `RInv` is what rules out a client that arrives after the abstract host has begun
  to end; Qt's quit is `Interrupt`.

**Surrogate.** `SurrogateInv` counts: open load boxes are the calls in progress, and COM's
count, if it counts, is containers plus calls; once an end has been decided, and no class
loaded since and none left by a failing revocation, there is no client and no active class
(`Decided`, `EndingServesNobody`); and what a successful `FreeSurrogate` has revoked stays
revoked, whether the exit, the timer or Qt's quit comes next. `FreedStaysFree` and
`AbandonedOnlyAfterLoad` follow.

**Registry.** `CallInv` follows each process from call to call (the parts of its command
that its next call uses are there); `AloneInv`, what a process that has run alone has
written or removed so far is still in the registry; `LogInv`, which settings stand, through
which grants, and what a reader that was not disturbed has read of them. They give
`RegistrationsHold`, `UnregistrationsHold` and `LogsAsGranted`; `OnlyWhoMeansTo` is proved
from `CallInv` action by action.

**Events and connections.** `EInv`: a sink is wrapped before it is connected or called, the
cookie it got then is the one every job uses, and, where registrations succeed, the table
is the set of living wrappers. `HangsHaveCauses` goes through the states of the innermost
job: one that runs and is not waiting can go on, one that is queued finds a thread unless
all are with waiting handlers, and one that has failed has lost its sink. `HInv`: the kinds of objects with what each refers to, and
every count the number of holders, where the counting lemmas (one holder more, one fewer,
an object and what it releases) are shared by all actions. `MInv`: what a proxy
remembers of the connections of the control. `OnlyTheCycleStays` follows from the balance:
a count above zero needs a holder, and only the container and its proxies hold each other.

**The process.** `HostProcess_proofs` is about the composition, whose three parts keep to
themselves.

* The logged line: `ReadSoFar`, the invariant of `TextInvariant`, is inductive together with
  the types; `TextRoundTrip` and `LineReadsBack` are what it is for. The reader has all
  the finished arguments, and of the one being written all but the backslashes the writer
  has counted and not written. It needs that twice as many backslashes before a quote are
  halved again (`Halves`), and that an argument written without quotes has no blank, quote
  or backslash in it (`ArgumentIs`).
* The start: `StartupInv` ties what the first parse left to what the second will find
  (`ParsedAsAsked`, `RoleAsParsed`), as the logger is chosen after the first and the role
  taken after the second: `FirstParseAccepts` says that a line the second parse accepts,
  read with Qt's options, leaves the first with everything that concerns the logger, or, where
  Qt's value is taken for the CLSID, with nothing. `EndsAreTraced`, `LogsAsAsked` and `HostsAsDocumented` follow, the
  last with lemmas about what the parsing of one specification and its sanitizing give.
* Class info: `InfoInv` says of an enumeration that the version kept so far is no older
  than any usable version counted before the next index, and that it is registered
  (`BestRead`); that an installer can only push keys further back (`CountsGrow`) keeps it.
  So a library that can be found (`LibraryThere`) is found, for either kind of call.
  `FindsTheLatest`, `FindsTheSource` and `ProcessIsTyped` follow.
* A number is a fold over its digits. That the fold is defined at all, and is a natural
  number, takes an induction over sets of positions. The library's induction theorems cannot
  be used here, so it is done by least counterexample: a set of naturals has a least
  element (`Least`, from the library's theorem that `<` is well-founded), and the
  least size of a set of positions at which the fold fails does not exist (`FoldExists`,
  `ValueTyped`).

Only model-checked: the liveness properties (`IdleHostExits`, `ExitIsCarriedOut`,
`EveryInvokeReturns`, `UnusedSurrogateEnds` and the fairness part of `LifetimeSpec`), which
are out of the prover's reach, as is `ENABLED`.

## 5. Not modelled

* The layout of help text (`command_line_formatter.h`), the help dialog beyond the fact
  that it opens and ends the process, and the wording of log messages: no state depends on
  them. The legacy spellings of options stand for the same option, except `-ClassId`,
  which assigns the list of `--clsid` anew. CLI11 itself is external.
* Blanks inside a class specification, and key names of 64 characters and more.
* Forwarding objects without state (`external_connection.cc`), marshalling, `CoFreeUnusedLibraries`.
* A `CoWaitForMultipleHandles` that fails, and objects that outlive `QApplication`.
* Options of Qt between those of the program, where CLI11 and Qt could divide the line
  differently, and windows a control may open by itself, which would keep Qt from quitting.
* Allocation failures, which end in an early return everywhere.

## 6. Plan

1. Proofs: weaker hypotheses for `NobodyAbandoned` and `ImplementsLifetime`, for a host some
   of whose clients keep class factories and do not use them once an exit is on its way.
2. A composition of `EventSinks` with the host's exit: a hung `Invoke` keeps a loop on the
   stack and its container alive.
