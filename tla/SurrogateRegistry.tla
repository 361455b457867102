--------------------------- MODULE SurrogateRegistry -------------------------
(***************************************************************************)
(* axhost run by an administrator to configure surrogates                  *)
(* (registry_helper.cc, and the part of main.cc that calls it), and the    *)
(* surrogate that reads its logging settings when it starts (logging.cc).  *)
(* Each registry call is a step of its own: calls are refused, processes   *)
(* are killed between two of them and run side by side, and nothing is     *)
(* ever rolled back.  Message boxes change nothing here and are left out.  *)
(***************************************************************************)
EXTENDS FiniteSets

CONSTANTS
    Tools,          \* processes of axhost started for this purpose
    Classes,        \* CLSIDs
    AppIds,         \* AppIDs; a CLSID serves as one too
    None,           \* an option that is not given, a value that is not there
    NoKey,          \* the CLSID key does not exist
    Levels, Dirs,   \* values of LogLevel and LogDirectory
    CommandLines,   \* the command lines in use
    Faults          \* what may go wrong: see FaultKinds

(* "fails": a call returns an error.  "killed": the process dies.  "skips": *)
(* UnregisterSurrogate cannot read or open a key and goes on without it,   *)
(* as with a system-owned key that administrators may only read.           *)
FaultKinds == {"fails", "killed", "skips"}

Ids == Classes \cup AppIds

(* The registry options of a command line.                                 *)
Options == [register : Classes \cup {None}, appid : Ids \cup {None},
            logging : BOOLEAN, level : Levels \cup {None},
            directory : Dirs \cup {None}, unregister : Classes \cup {None}]

ASSUME RegistryAssumption ==
    /\ None \notin Ids \cup Levels \cup Dirs
    /\ "stderr" \notin Dirs  \* the name of a place, not of a directory
    /\ NoKey \notin Ids \cup {None}
    /\ CommandLines \subseteq Options
    /\ \A line \in CommandLines :
          line.register # None \/ line.appid # None \/ line.unregister # None
    /\ Faults \subseteq FaultKinds

VARIABLES
    class,  \* CLSID\{clsid}\AppID, or None without the value
    app,    \* AppID\{appid} and its values
    tools,  \* the processes
    reader, \* a surrogate that is starting
    granted \* history: the settings of an AppID as the last process that
            \* wrote them, alone and with success, was given them, or None

vars == <<class, app, tools, reader, granted>>

AppKey == [key : BOOLEAN, DllSurrogate : BOOLEAN, LogEnabled : BOOLEAN \cup {None},
           LogLevel : Levels \cup {None}, LogDirectory : Dirs \cup {None}]

(* Where a process is: the registry call it makes next.                    *)
Call == {"createClassKey", "setAppId", "createAppKey", "setDllSurrogate",
         "openAppKey", "setLogEnabled", "setLogLevel", "setLogDirectory",
         "readAppId", "deleteAppId", "deleteDllSurrogate"}

(* "appid" is what UnregisterSurrogate has read; "alone" and "had" are     *)
(* history: whether no other process ran meanwhile, and the AppID the      *)
(* class to unregister had at the start.                                   *)
Tool == [at : Call \cup {"idle"}, cmd : Options, appid : Ids \cup {None},
         alone : BOOLEAN, had : Ids \cup {None, NoKey}, ok : BOOLEAN]

(* Nothing given.                                                          *)
NoOptions == [register |-> None, appid |-> None, logging |-> FALSE, level |-> None,
              directory |-> None, unregister |-> None]

Done(ok) == [at |-> "idle", cmd |-> NoOptions, appid |-> None, alone |-> FALSE,
             had |-> None, ok |-> ok]

Idle(t) == tools[t].at = "idle"

At(t, call) == tools[t].at = call

Cmd(t) == tools[t].cmd

(* The callback of --register; --register-appid is parsed after it.        *)
Parsed(line) ==
    IF line.register # None /\ line.appid = None
    THEN [line EXCEPT !.appid = line.register] ELSE line

(* The order in which main looks at the options.                           *)
FirstCall(cmd) ==
    CASE cmd.appid # None /\ cmd.register # None -> "createClassKey"
      [] cmd.appid # None /\ cmd.register = None -> "openAppKey"
      [] OTHER -> "readAppId"

(* Nothing has been read yet; and what the reading comes to.               *)
Settings == [enabled : BOOLEAN, level : Levels \cup {None}, directory : Dirs \cup {None}]

Logger == [file : Dirs \cup {"stderr", "default"}, level : Levels \cup {"info"}]

(* "clean" is history: no process has run during the reading.              *)
Reader == [at : {"idle", "readAppId", "readEnabled", "readLevel", "readDirectory"},
           class : Classes \cup {None}, appid : Ids \cup {None},
           settings : Settings, clean : BOOLEAN, logger : Logger]

main(t, line) ==
    /\ Idle(t)
    /\ LET cmd == Parsed(line)
           quiet == \A u \in Tools : Idle(u)
       IN /\ tools' = [u \in Tools |->
            IF u = t
            THEN [at |-> FirstCall(cmd), cmd |-> cmd, appid |-> None,
                  alone |-> quiet, ok |-> FALSE,
                  had |-> IF cmd.unregister = None THEN None
                                                   ELSE class[cmd.unregister]]
            ELSE [tools[u] EXCEPT !.alone = FALSE]]
          /\ granted' = IF cmd.appid = None THEN granted
                        ELSE [granted EXCEPT ![cmd.appid] = None]
    /\ reader' = [reader EXCEPT !.clean = FALSE]
    /\ UNCHANGED <<class, app>>

App(t) == app[Cmd(t).appid]

SetApp(t, value) == app' = [app EXCEPT ![Cmd(t).appid] = value]

Goes(t, call) == tools' = [tools EXCEPT ![t].at = call] /\ UNCHANGED granted

Ends(t, ok) ==
    /\ tools' = [tools EXCEPT ![t] = Done(ok)]
    /\ granted' = IF ok /\ tools[t].alone /\ Cmd(t).appid # None
                  THEN [granted EXCEPT ![Cmd(t).appid] = Cmd(t)] ELSE granted

(* Logging settings are not written for an AppID without a key.            *)
Refused(t) == At(t, "openAppKey") /\ ~App(t).key

(* The call returns an error, the function returns it, and main throws.    *)
Fails(t) ==
    /\ Refused(t) \/ ("fails" \in Faults /\ ~Idle(t) /\ ~At(t, "readAppId"))
    /\ Ends(t, FALSE)
    /\ UNCHANGED <<class, app>>

Killed(t) ==
    /\ "killed" \in Faults /\ ~Idle(t)
    /\ Ends(t, FALSE)
    /\ UNCHANGED <<class, app>>
-----------------------------------------------------------------------------
(* Mutant: a registration starts from a clean key.                         *)
CreateClassKeyAfresh(t) ==
    /\ At(t, "createClassKey")
    /\ class' = [class EXCEPT ![Cmd(t).register] = None]
    /\ Goes(t, "setAppId")
    /\ UNCHANGED app

(* RegisterSurrogate, four calls.                                          *)
CreateClassKey(t) ==
    /\ At(t, "createClassKey")
    /\ class' = [class EXCEPT ![Cmd(t).register] = IF @ = NoKey THEN None ELSE @]
    /\ Goes(t, "setAppId")
    /\ UNCHANGED app

(* Mutant: an AppID that is there is kept.                                 *)
SetAppIdOnce(t) ==
    /\ At(t, "setAppId")
    /\ class' = [class EXCEPT ![Cmd(t).register] = IF @ = None THEN Cmd(t).appid ELSE @]
    /\ Goes(t, "createAppKey")
    /\ UNCHANGED app

SetAppId(t) ==
    /\ At(t, "setAppId")
    /\ class' = [class EXCEPT ![Cmd(t).register] = Cmd(t).appid]
    /\ Goes(t, "createAppKey")
    /\ UNCHANGED app

CreateAppKey(t) ==
    /\ At(t, "createAppKey")
    /\ SetApp(t, [App(t) EXCEPT !.key = TRUE])
    /\ Goes(t, "setDllSurrogate")
    /\ UNCHANGED class

SetDllSurrogate(t) ==
    /\ At(t, "setDllSurrogate")
    /\ SetApp(t, [App(t) EXCEPT !.DllSurrogate = TRUE])
    /\ Goes(t, "openAppKey")
    /\ UNCHANGED class
-----------------------------------------------------------------------------
(* WriteLoggingSettings: LogEnabled always, the others if they are given.  *)
OpenAppKey(t) ==
    /\ At(t, "openAppKey") /\ ~Refused(t)
    /\ Goes(t, "setLogEnabled")
    /\ UNCHANGED <<class, app>>

WriteDirectoryNext(t) ==
    IF Cmd(t).directory # None THEN Goes(t, "setLogDirectory") ELSE Ends(t, TRUE)

(* Mutant: the value is written if it is given, like the others.           *)
SetLogEnabledIfGiven(t) ==
    /\ At(t, "setLogEnabled")
    /\ SetApp(t, [App(t) EXCEPT !.LogEnabled = IF Cmd(t).logging THEN TRUE ELSE @])
    /\ IF Cmd(t).level # None THEN Goes(t, "setLogLevel") ELSE WriteDirectoryNext(t)
    /\ UNCHANGED class

SetLogEnabled(t) ==
    /\ At(t, "setLogEnabled")
    /\ SetApp(t, [App(t) EXCEPT !.LogEnabled = Cmd(t).logging])
    /\ IF Cmd(t).level # None THEN Goes(t, "setLogLevel") ELSE WriteDirectoryNext(t)
    /\ UNCHANGED class

SetLogLevel(t) ==
    /\ At(t, "setLogLevel")
    /\ SetApp(t, [App(t) EXCEPT !.LogLevel = Cmd(t).level])
    /\ WriteDirectoryNext(t)
    /\ UNCHANGED class

SetLogDirectory(t) ==
    /\ At(t, "setLogDirectory")
    /\ SetApp(t, [App(t) EXCEPT !.LogDirectory = Cmd(t).directory])
    /\ Ends(t, TRUE)
    /\ UNCHANGED class
-----------------------------------------------------------------------------
(* Mutant: a missing key is taken for an AppID.                            *)
ReadAppIdUnchecked(t) ==
    /\ At(t, "readAppId")
    /\ tools' = [tools EXCEPT ![t].at = "deleteAppId",
                             ![t].appid = class[Cmd(t).unregister]]
    /\ UNCHANGED <<class, app, granted>>

(* UnregisterSurrogate: an AppID that cannot be read is none.              *)
ReadAppId(t) ==
    /\ At(t, "readAppId")
    /\ \E id \in {class[Cmd(t).unregister]} \cup {n \in {None} : "skips" \in Faults} :
          tools' = [tools EXCEPT ![t].at = "deleteAppId",
                                 ![t].appid = IF id = NoKey THEN None ELSE id]
    /\ UNCHANGED <<class, app, granted>>

(* Mutant: the value is deleted and nothing else is done.                  *)
DeleteAppIdOnly(t) ==
    /\ At(t, "deleteAppId")
    /\ class' = [class EXCEPT ![Cmd(t).unregister] = IF @ = NoKey THEN @ ELSE None]
    /\ Ends(t, TRUE)
    /\ UNCHANGED app

DeleteAppId(t) ==
    /\ At(t, "deleteAppId")
    /\ \/ class' = [class EXCEPT ![Cmd(t).unregister] = IF @ = NoKey THEN @ ELSE None]
       \/ "skips" \in Faults /\ UNCHANGED class
    /\ IF tools[t].appid # None THEN Goes(t, "deleteDllSurrogate") ELSE Ends(t, TRUE)
    /\ UNCHANGED app

DeleteDllSurrogate(t) ==
    /\ At(t, "deleteDllSurrogate")
    /\ \/ app' = [app EXCEPT ![tools[t].appid].DllSurrogate = FALSE]
       \/ "skips" \in Faults /\ UNCHANGED app
    /\ Ends(t, TRUE)
    /\ UNCHANGED class
-----------------------------------------------------------------------------
(* COM runs axhost for a class whose AppID names it as the surrogate.      *)
Launched(c) == class[c] \in Ids /\ app[class[c]].DllSurrogate

Unread == [enabled |-> FALSE, level |-> None, directory |-> None]

(* InitializeLoggingSurrogate: level and directory count only with logging *)
(* enabled.                                                                *)
LoggerFor(settings) ==
    IF ~settings.enabled THEN [file |-> "stderr", level |-> "info"]
    ELSE [file  |-> IF settings.directory = None THEN "default" ELSE settings.directory,
          level |-> IF settings.level = None THEN "info" ELSE settings.level]

NotReading(logger) == [at |-> "idle", class |-> None, appid |-> None,
                       settings |-> Unread, clean |-> FALSE, logger |-> logger]

Launch(c) ==
    /\ reader.at = "idle" /\ Launched(c)
    /\ reader' = [NotReading(LoggerFor(Unread)) EXCEPT
                    !.at = "readAppId", !.class = c,
                    !.clean = \A t \in Tools : Idle(t)]

(* ReadLoggingSettings: no AppID, or no key of it, leaves the defaults.    *)
ReadAppIdOfClass ==
    /\ reader.at = "readAppId"
    /\ LET id == class[reader.class]
       IN reader' = IF id \in Ids /\ app[id].key
                    THEN [reader EXCEPT !.at = "readEnabled", !.class = None, !.appid = id]
                    ELSE NotReading(LoggerFor(Unread))

ReadLogEnabled ==
    /\ reader.at = "readEnabled"
    /\ reader' = [reader EXCEPT !.at = "readLevel",
                      !.settings.enabled = app[reader.appid].LogEnabled = TRUE]

ReadLogLevel ==
    /\ reader.at = "readLevel"
    /\ reader' = [reader EXCEPT !.at = "readDirectory",
                                !.settings.level = app[reader.appid].LogLevel]

ReadLogDirectory ==
    /\ reader.at = "readDirectory"
    /\ reader' = NotReading(LoggerFor([reader.settings EXCEPT
                                          !.directory = app[reader.appid].LogDirectory]))

Reading ==
    /\ \/ \E c \in Classes : Launch(c)
       \/ ReadAppIdOfClass \/ ReadLogEnabled \/ ReadLogLevel \/ ReadLogDirectory
    /\ UNCHANGED <<class, app, tools, granted>>
-----------------------------------------------------------------------------
(* AppIDs may have been set before, also with this surrogate.              *)
Init ==
    /\ class \in [Classes -> Ids \cup {None, NoKey}]
    /\ \E named \in SUBSET {a \in Ids : \E c \in Classes : class[c] = a} :
          app = [a \in Ids |->
                   [key |-> \E c \in Classes : class[c] = a,
                    DllSurrogate |-> a \in named,
                    LogEnabled |-> None, LogLevel |-> None, LogDirectory |-> None]]
    /\ tools = [t \in Tools |-> Done(FALSE)]
    /\ reader = NotReading(LoggerFor(Unread))
    /\ granted = [a \in Ids |-> None]

RegistryCall(t) ==
    /\ \/ Fails(t) \/ Killed(t)
       \/ CreateClassKey(t) \/ SetAppId(t) \/ CreateAppKey(t) \/ SetDllSurrogate(t)
       \/ OpenAppKey(t) \/ SetLogEnabled(t) \/ SetLogLevel(t) \/ SetLogDirectory(t)
       \/ ReadAppId(t) \/ DeleteAppId(t) \/ DeleteDllSurrogate(t)
    /\ UNCHANGED reader

Next ==
    \/ \E t \in Tools :
          \/ \E line \in CommandLines : main(t, line)
          \/ RegistryCall(t)
    \/ Reading

Spec == Init /\ [][Next]_vars
-----------------------------------------------------------------------------
(* The variables stay in their ranges.                                     *)
TypeOK ==
    /\ class \in [Classes -> Ids \cup {None, NoKey}]
    /\ app \in [Ids -> AppKey]
    /\ tools \in [Tools -> Tool]
    /\ reader \in Reader
    /\ granted \in [Ids -> Options \cup {None}]

Reports(t) == ~Idle(t) /\ Idle(t)' /\ tools'[t].ok /\ tools[t].alone

(* A registration that reports success, and had the registry to itself,    *)
(* has taken effect, from whatever state killed and failed processes have  *)
(* left behind (RegisterSurrogate).                                        *)
RegisterReportIsTrue ==
    [][\A t \in Tools, c \in Classes :
          Reports(t) /\ Cmd(t).register = c =>
                Launched(c)' /\ class'[c] = Cmd(t).appid]_vars

(* An UnregisterSurrogate that reports success, and had the registry to    *)
(* itself, has removed the AppID of the class and the DllSurrogate of that *)
(* AppID, as its declaration and its message say.                          *)
UnregisterReportIsTrue ==
    [][\A t \in Tools, c \in Classes :
          Reports(t) /\ Cmd(t).appid = None /\ Cmd(t).unregister = c =>
                /\ class'[c] \in {None, NoKey}
                /\ tools[t].had \in Ids => ~app'[tools[t].had].DllSurrogate]_vars

(* A class loses its surrogate only to a process that unregisters it, or a *)
(* class with the same AppID, or registers it anew under another AppID;    *)
(* registering it again as it is leaves no gap, also where it fails.       *)
SurrogateLostOnlyTo ==
    [][\A c \in Classes :
          Launched(c) /\ ~Launched(c)' =>
            \E t \in Tools :
               \/ tools[t].at \in {"deleteAppId", "deleteDllSurrogate"}
                  /\ (Cmd(t).unregister = c \/ tools[t].appid = class[c])
               \/ At(t, "setAppId") /\ Cmd(t).register = c /\ Cmd(t).appid # class[c]
      ]_vars

(* A surrogate logs as the last process that wrote the settings of its     *)
(* AppID with success was told, if it has read them in peace: into a file  *)
(* exactly if logging was asked for, in the directory and with the level   *)
(* that were given, whatever older values are left in the registry         *)
(* (WriteLoggingSettings, ReadLoggingSettings, InitializeLoggingSurrogate).*)
SurrogateLogsAsTold ==
    [][LET told == granted[reader.appid]
           logger == reader'.logger
       IN ReadLogDirectory /\ reader.clean /\ told # None =>
            /\ (logger.file # "stderr") = told.logging
            /\ told.logging =>
                  /\ told.directory \in {None, logger.file}
                  /\ told.level \in {None, logger.level}]_vars
=============================================================================
