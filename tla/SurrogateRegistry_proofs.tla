----------------------- MODULE SurrogateRegistry_proofs -----------------------
(***************************************************************************)
(* What processes of axhost that configure surrogates do to the registry,  *)
(* for any number of them, any classes, AppIDs and command lines, and any  *)
(* of the faults.  The inductive invariant follows each process from call  *)
(* to call: the parts of its command that its next call uses are there,    *)
(* and, as long as no other process has run, what its earlier calls have   *)
(* written is still in the registry.                                       *)
(***************************************************************************)
EXTENDS SurrogateRegistry, TLAPS

RegisterCalls == {"createClassKey", "setAppId", "createAppKey", "setDllSurrogate"}

LoggingCalls == {"openAppKey", "setLogEnabled", "setLogLevel", "setLogDirectory"}

UnregisterCalls == {"readAppId", "deleteAppId", "deleteDllSurrogate"}

(* A process makes the calls of a function its command asks for: what the  *)
(* call uses was given, or read before.                                    *)
CommandFits(tool) ==
    /\ tool.at \in RegisterCalls =>
          tool.cmd.register \in Classes /\ tool.cmd.appid \in Ids
    /\ tool.at \in LoggingCalls => tool.cmd.appid \in Ids
    /\ tool.at \in UnregisterCalls =>
          /\ tool.cmd.unregister \in Classes
          /\ tool.cmd.appid = None /\ tool.cmd.register = None
    /\ tool.at = "deleteDllSurrogate" => tool.appid \in Ids
    /\ tool.at = "idle" => tool.cmd.appid = None

(* The surrogate reads the value of a key it has found.                    *)
ReaderFits ==
    /\ reader.at = "readAppId" => reader.class \in Classes
    /\ reader.at \in {"readEnabled", "readLevel", "readDirectory"} => reader.appid \in Ids

CallInv == TypeOK /\ (\A t \in Tools : CommandFits(tools[t])) /\ ReaderFits

Writing == RegisterCalls \cup LoggingCalls

(* Whoever has run alone so far is at work, and nobody else is.            *)
AloneMeansAlone ==
    \A t \in Tools : tools[t].alone => ~Idle(t) /\ \A u \in Tools \ {t} : Idle(u)

(* What the calls of a registration have written so far.                   *)
Written(tool) ==
    /\ /\ tool.at \in Writing \ {"createClassKey", "setAppId"}
       /\ tool.cmd.register # None
       => class[tool.cmd.register] = tool.cmd.appid
    /\ tool.at \in LoggingCalls /\ tool.cmd.register # None =>
          app[tool.cmd.appid].DllSurrogate
    /\ tool.at \in {"setLogLevel", "setLogDirectory"} =>
          app[tool.cmd.appid].LogEnabled = tool.cmd.logging
    /\ tool.at = "setLogDirectory" =>
          tool.cmd.level \in {None, app[tool.cmd.appid].LogLevel}

(* What UnregisterSurrogate has read and removed so far, if no call skips. *)
Removed(tool) ==
    /\ tool.at = "readAppId" => tool.had = class[tool.cmd.unregister]
    /\ tool.at = "deleteAppId" =>
          tool.appid = IF tool.had = NoKey THEN None ELSE tool.had
    /\ tool.at = "deleteDllSurrogate" =>
          class[tool.cmd.unregister] \in {None, NoKey} /\ tool.appid = tool.had

(* Settings that were granted are in the registry, and nobody is about to  *)
(* write others.                                                           *)
GrantedIsWritten ==
    \A a \in Ids : granted[a] # None =>
       /\ app[a].LogEnabled = granted[a].logging
       /\ granted[a].level \in {None, app[a].LogLevel}
       /\ granted[a].directory \in {None, app[a].LogDirectory}
       /\ \A t \in Tools : Cmd(t).appid # a

(* A surrogate that reads in peace has read what was granted.              *)
ReadInPeace ==
    reader.at # "idle" /\ reader.clean =>
       /\ \A t \in Tools : Idle(t)
       /\ reader.at \in {"readLevel", "readDirectory"} /\ granted[reader.appid] # None
          => reader.settings.enabled = granted[reader.appid].logging
       /\ reader.at = "readDirectory" =>
             reader.settings.level = app[reader.appid].LogLevel

AloneInv == AloneMeansAlone /\ \A t \in Tools : tools[t].alone => Written(tools[t])

RemovedInv == \A t \in Tools : tools[t].alone => Removed(tools[t])

LogInv == GrantedIsWritten /\ ReadInPeace
-----------------------------------------------------------------------------
(* After --register an AppID is set, so that without one there is          *)
(* something to unregister.                                                *)
LEMMA ParsedFits ==
    ASSUME NEW line \in CommandLines
    PROVE  /\ Parsed(line) \in Options
           /\ Parsed(line).appid = None =>
                 Parsed(line).register = None /\ Parsed(line).unregister \in Classes
<1>1. line \in Options
      /\ (line.register # None \/ line.appid # None \/ line.unregister # None)
  BY RegistryAssumption
<1>2. CASE line.register # None /\ line.appid = None
  <2>1. Parsed(line) = [line EXCEPT !.appid = line.register]  BY <1>2 DEF Parsed
  <2>2. line.register \in Classes  BY <1>1, <1>2 DEF Options
  <2> QED  BY <2>1, <2>2, <1>1, RegistryAssumption DEF Options, Ids
<1>3. CASE ~(line.register # None /\ line.appid = None)
  <2>1. Parsed(line) = line  BY <1>3 DEF Parsed
  <2> QED  BY <2>1, <1>1, <1>3 DEF Options
<1> QED  BY <1>2, <1>3

LEMMA ParsedStarts ==
    ASSUME NEW line \in CommandLines, NEW tool \in Tool,
           tool.at = FirstCall(Parsed(line)), tool.cmd = Parsed(line)
    PROVE  CommandFits(tool)
<1> DEFINE cmd == Parsed(line)
<1>1. cmd \in Options /\ (cmd.appid = None => cmd.register = None /\ cmd.unregister \in Classes)
  BY ParsedFits
<1> HIDE DEF cmd
<1>2. tool.cmd = cmd /\ tool.at = FirstCall(cmd)  BY DEF cmd
<1>3. CASE cmd.appid # None /\ cmd.register # None
  <2>1. tool.at = "createClassKey"  BY <1>2, <1>3 DEF FirstCall
  <2> QED  BY <1>1, <1>2, <1>3, <2>1 DEF CommandFits, Options, RegisterCalls,
              LoggingCalls, UnregisterCalls
<1>4. CASE cmd.appid # None /\ cmd.register = None
  <2>1. tool.at = "openAppKey"  BY <1>2, <1>4 DEF FirstCall
  <2> QED  BY <1>1, <1>2, <1>4, <2>1 DEF CommandFits, Options, RegisterCalls,
              LoggingCalls, UnregisterCalls
<1>5. CASE cmd.appid = None
  <2>1. tool.at = "readAppId"  BY <1>2, <1>5 DEF FirstCall
  <2> QED  BY <1>1, <1>2, <1>5, <2>1 DEF CommandFits, Options, RegisterCalls,
              LoggingCalls, UnregisterCalls
<1> QED  BY <1>3, <1>4, <1>5

LEMMA DoneFits ==
    ASSUME NEW ok \in BOOLEAN
    PROVE  /\ Done(ok) \in Tool /\ CommandFits(Done(ok))
           /\ Done(ok).at = "idle" /\ ~Done(ok).alone /\ Done(ok).ok = ok
           /\ Done(ok).cmd = NoOptions
BY DEF Done, Tool, Options, NoOptions, CommandFits, Call, RegisterCalls, LoggingCalls,
       UnregisterCalls
-----------------------------------------------------------------------------
RegistryTyped ==
    class \in [Classes -> Ids \cup {None, NoKey}] /\ app \in [Ids -> AppKey]

ToolsTyped ==
    /\ tools \in [Tools -> Tool]
    /\ \A t \in Tools : CommandFits(tools[t])
    /\ granted \in [Ids -> Options \cup {None}]

LEMMA Parts == CallInv <=> RegistryTyped /\ ToolsTyped /\ reader \in Reader /\ ReaderFits
BY DEF CallInv, TypeOK, RegistryTyped, ToolsTyped

LEMMA GoesKeeps ==
    ASSUME ToolsTyped, NEW t \in Tools, NEW call \in Call, Goes(t, call),
           CommandFits([tools[t] EXCEPT !.at = call])
    PROVE  ToolsTyped'
<1>1. [tools[t] EXCEPT !.at = call] \in Tool  BY DEF ToolsTyped, Tool
<1>2. tools' = [tools EXCEPT ![t] = [tools[t] EXCEPT !.at = call]]  BY DEF Goes
<1>3. tools' \in [Tools -> Tool]  BY <1>1, <1>2 DEF ToolsTyped
<1>4. \A u \in Tools : CommandFits(tools'[u])  BY <1>2 DEF ToolsTyped
<1> QED  BY <1>3, <1>4 DEF ToolsTyped, Goes, CommandFits

LEMMA EndsKeeps ==
    ASSUME ToolsTyped, NEW t \in Tools, NEW ok \in BOOLEAN, Ends(t, ok)
    PROVE  ToolsTyped'
<1>1. tools' \in [Tools -> Tool]  BY DoneFits DEF ToolsTyped, Ends
<1>2. \A u \in Tools : CommandFits(tools'[u])  BY DoneFits DEF ToolsTyped, Ends
<1>3. Cmd(t) \in Options  BY DEF ToolsTyped, Cmd, Tool
<1>4. granted' \in [Ids -> Options \cup {None}]  BY <1>3 DEF ToolsTyped, Ends
<1> QED  BY <1>1, <1>2, <1>4 DEF ToolsTyped, CommandFits

LEMMA SetAppKeeps ==
    ASSUME RegistryTyped, NEW t \in Tools, NEW value \in AppKey, SetApp(t, value), UNCHANGED class
    PROVE  RegistryTyped'
BY DEF RegistryTyped, SetApp

LEMMA AppTyped ==
    ASSUME RegistryTyped, NEW t \in Tools, Cmd(t).appid \in Ids
    PROVE  App(t) \in AppKey
BY DEF RegistryTyped, App

LEMMA SetClassKeeps ==
    ASSUME RegistryTyped, NEW c \in Classes, NEW v \in Ids \cup {None, NoKey},
           class' = [class EXCEPT ![c] = v], UNCHANGED app
    PROVE  RegistryTyped'
BY DEF RegistryTyped

LEMMA CallKeeps ==
    ASSUME RegistryTyped, ToolsTyped, NEW t \in Tools, RegistryCall(t)
    PROVE  RegistryTyped' /\ ToolsTyped'
<1>t. tools[t] \in Tool /\ CommandFits(tools[t])  BY DEF ToolsTyped
<1>o. Cmd(t) \in Options  BY <1>t DEF Cmd, Tool
<1> USE DEF At, Cmd
<1>1. CASE Fails(t) \/ Killed(t)
  BY <1>1, EndsKeeps DEF Fails, Killed, RegistryTyped
<1>2. CASE CreateClassKey(t)
  <2>1. Cmd(t).register \in Classes /\ Cmd(t).appid \in Ids
    BY <1>2, <1>t DEF CreateClassKey, CommandFits, RegisterCalls
  <2>2. RegistryTyped'
    <3>1. class' = [class EXCEPT ![Cmd(t).register] =
                      IF class[Cmd(t).register] = NoKey THEN None ELSE class[Cmd(t).register]]
      BY <1>2 DEF CreateClassKey
    <3> QED  BY <1>2, <2>1, <3>1 DEF CreateClassKey, RegistryTyped
  <2>3. CommandFits([tools[t] EXCEPT !.at = "setAppId"])
    BY <1>t, <2>1 DEF CommandFits, Tool, RegisterCalls, LoggingCalls, UnregisterCalls
  <2> QED  BY <1>2, <2>2, <2>3, GoesKeeps DEF CreateClassKey, Call
<1>3. CASE SetAppId(t)
  <2>1. Cmd(t).register \in Classes /\ Cmd(t).appid \in Ids
    BY <1>3, <1>t DEF SetAppId, CommandFits, RegisterCalls
  <2>2. RegistryTyped'  BY <1>3, <2>1 DEF SetAppId, RegistryTyped
  <2>3. CommandFits([tools[t] EXCEPT !.at = "createAppKey"])
    BY <1>t, <2>1 DEF CommandFits, Tool, RegisterCalls, LoggingCalls, UnregisterCalls
  <2> QED  BY <1>3, <2>2, <2>3, GoesKeeps DEF SetAppId, Call
<1>4. CASE CreateAppKey(t)
  <2>1. Cmd(t).register \in Classes /\ Cmd(t).appid \in Ids
    BY <1>4, <1>t DEF CreateAppKey, CommandFits, RegisterCalls
  <2>2. [App(t) EXCEPT !.key = TRUE] \in AppKey  BY <2>1, AppTyped DEF AppKey
  <2>3. CommandFits([tools[t] EXCEPT !.at = "setDllSurrogate"])
    BY <1>t, <2>1 DEF CommandFits, Tool, RegisterCalls, LoggingCalls, UnregisterCalls
  <2> QED  BY <1>4, <2>2, <2>3, GoesKeeps, SetAppKeeps DEF CreateAppKey, Call
<1>5. CASE SetDllSurrogate(t)
  <2>1. Cmd(t).register \in Classes /\ Cmd(t).appid \in Ids
    BY <1>5, <1>t DEF SetDllSurrogate, CommandFits, RegisterCalls
  <2>2. [App(t) EXCEPT !.DllSurrogate = TRUE] \in AppKey  BY <2>1, AppTyped DEF AppKey
  <2>3. CommandFits([tools[t] EXCEPT !.at = "openAppKey"])
    BY <1>t, <2>1 DEF CommandFits, Tool, RegisterCalls, LoggingCalls, UnregisterCalls
  <2> QED  BY <1>5, <2>2, <2>3, GoesKeeps, SetAppKeeps DEF SetDllSurrogate, Call
<1>w. ASSUME tools[t].at \in LoggingCalls
      PROVE  /\ Cmd(t).appid \in Ids /\ App(t) \in AppKey
             /\ \A call \in LoggingCalls : CommandFits([tools[t] EXCEPT !.at = call])
             /\ WriteDirectoryNext(t) => ToolsTyped'
  <2>1. Cmd(t).appid \in Ids  BY <1>w, <1>t DEF CommandFits
  <2>2. App(t) \in AppKey  BY <2>1, AppTyped
  <2>3. \A call \in LoggingCalls : CommandFits([tools[t] EXCEPT !.at = call])
    BY <1>t, <2>1 DEF CommandFits, Tool, RegisterCalls, LoggingCalls, UnregisterCalls
  <2>4. "setLogDirectory" \in LoggingCalls \cap Call  BY DEF LoggingCalls, Call
  <2>5. ASSUME WriteDirectoryNext(t) PROVE ToolsTyped'
    <3>1. Goes(t, "setLogDirectory") \/ Ends(t, TRUE)  BY <2>5 DEF WriteDirectoryNext
    <3> QED  BY <3>1, <2>3, <2>4, GoesKeeps, EndsKeeps
  <2> QED  BY <2>1, <2>2, <2>3, <2>5
<1>6. CASE OpenAppKey(t)
  <2>1. tools[t].at \in LoggingCalls  BY <1>6 DEF OpenAppKey, LoggingCalls
  <2>2. CommandFits([tools[t] EXCEPT !.at = "setLogEnabled"])
    BY <1>w, <2>1 DEF LoggingCalls
  <2> QED  BY <1>6, <2>2, GoesKeeps DEF OpenAppKey, Call, RegistryTyped
<1>7. CASE SetLogEnabled(t)
  <2>1. tools[t].at \in LoggingCalls  BY <1>7 DEF SetLogEnabled, LoggingCalls
  <2>2. CommandFits([tools[t] EXCEPT !.at = "setLogLevel"])
    BY <1>w, <2>1 DEF LoggingCalls
  <2>3. [App(t) EXCEPT !.LogEnabled = Cmd(t).logging] \in AppKey
    BY <1>w, <2>1, <1>o DEF AppKey, Options
  <2>4. ToolsTyped'  BY <1>7, <1>w, <2>1, <2>2, GoesKeeps DEF SetLogEnabled, Call
  <2> QED  BY <1>7, <2>3, <2>4, SetAppKeeps DEF SetLogEnabled
<1>8. CASE SetLogLevel(t)
  <2>1. tools[t].at \in LoggingCalls  BY <1>8 DEF SetLogLevel, LoggingCalls
  <2>2. [App(t) EXCEPT !.LogLevel = Cmd(t).level] \in AppKey
    BY <1>w, <2>1, <1>o DEF AppKey, Options
  <2> QED  BY <1>8, <1>w, <2>1, <2>2, SetAppKeeps DEF SetLogLevel
<1>9. CASE SetLogDirectory(t)
  <2>1. tools[t].at \in LoggingCalls  BY <1>9 DEF SetLogDirectory, LoggingCalls
  <2>2. [App(t) EXCEPT !.LogDirectory = Cmd(t).directory] \in AppKey
    BY <1>w, <2>1, <1>o DEF AppKey, Options
  <2> QED  BY <1>9, <2>2, SetAppKeeps, EndsKeeps DEF SetLogDirectory
<1>10. CASE ReadAppId(t)
  <2>1. tools[t].at \in UnregisterCalls  BY <1>10 DEF ReadAppId, UnregisterCalls
  <2>2. class[Cmd(t).unregister] \in Ids \cup {None, NoKey}
    BY <2>1, <1>t DEF CommandFits, RegistryTyped
  <2>3. PICK id \in Ids \cup {None, NoKey} :
          tools' = [tools EXCEPT ![t].at = "deleteAppId",
                                 ![t].appid = IF id = NoKey THEN None ELSE id]
    BY <1>10, <2>2 DEF ReadAppId
  <2> DEFINE tool == [tools[t] EXCEPT !.at = "deleteAppId",
                                      !.appid = IF id = NoKey THEN None ELSE id]
  <2>4. tool \in Tool  BY <1>t DEF Tool, Call
  <2>5. CommandFits(tool)
    BY <1>t, <2>1 DEF CommandFits, Tool, RegisterCalls, LoggingCalls, UnregisterCalls
  <2>6. tools' = [tools EXCEPT ![t] = tool]  BY <2>3
  <2> HIDE DEF tool
  <2>7. tools' \in [Tools -> Tool] /\ \A u \in Tools : CommandFits(tools'[u])
    BY <2>4, <2>5, <2>6 DEF ToolsTyped
  <2> QED  BY <1>10, <2>7 DEF ReadAppId, ToolsTyped, RegistryTyped, CommandFits
<1>11. CASE DeleteAppId(t)
  <2>1. tools[t].at \in UnregisterCalls  BY <1>11 DEF DeleteAppId, UnregisterCalls
  <2>2. RegistryTyped'
    BY <1>11, <2>1, <1>t DEF DeleteAppId, CommandFits, RegistryTyped
  <2>3. CASE tools[t].appid # None
    <3>1. CommandFits([tools[t] EXCEPT !.at = "deleteDllSurrogate"])
      BY <1>t, <2>1, <2>3 DEF CommandFits, Tool, RegisterCalls, LoggingCalls, UnregisterCalls
    <3> QED  BY <1>11, <2>2, <2>3, <3>1, GoesKeeps DEF DeleteAppId, Call
  <2> QED  BY <1>11, <2>2, <2>3, EndsKeeps DEF DeleteAppId
<1>12. CASE DeleteDllSurrogate(t)
  <2>1. tools[t].appid \in Ids
    BY <1>12, <1>t DEF DeleteDllSurrogate, CommandFits
  <2>2. [app[tools[t].appid] EXCEPT !.DllSurrogate = FALSE] \in AppKey
    BY <2>1 DEF RegistryTyped, AppKey
  <2>3. RegistryTyped'  BY <1>12, <2>1, <2>2 DEF DeleteDllSurrogate, RegistryTyped
  <2> QED  BY <1>12, <2>3, EndsKeeps DEF DeleteDllSurrogate
<1> QED  BY <1>1, <1>2, <1>3, <1>4, <1>5, <1>6, <1>7, <1>8, <1>9, <1>10, <1>11, <1>12
         DEF RegistryCall

(* The record main starts with, and the AppID it is about to write to.     *)
Started(line, t) ==
    [at |-> FirstCall(Parsed(line)), cmd |-> Parsed(line), appid |-> None,
     alone |-> \A u \in Tools : Idle(u), ok |-> FALSE,
     had |-> IF Parsed(line).unregister = None THEN None
             ELSE class[Parsed(line).unregister]]

LEMMA StartedTyped ==
    ASSUME RegistryTyped, NEW t \in Tools, NEW line \in CommandLines
    PROVE  Started(line, t) \in Tool /\ CommandFits(Started(line, t))
           /\ Started(line, t).at # "idle"
<1>1. FirstCall(Parsed(line)) \in Call /\ FirstCall(Parsed(line)) # "idle"
  BY DEF FirstCall, Call
<1>2. Parsed(line) \in Options  BY ParsedFits
<1>3. Started(line, t).had \in Ids \cup {None, NoKey}
  <2>1. Parsed(line).unregister \in Classes \cup {None}  BY <1>2 DEF Options
  <2> QED  BY <2>1 DEF Started, RegistryTyped
<1>4. Started(line, t) \in Tool
  BY <1>1, <1>2, <1>3 DEF Started, Tool
<1> QED  BY <1>1, <1>4, ParsedStarts DEF Started

LEMMA MainChanges ==
    ASSUME ToolsTyped, NEW t \in Tools, NEW line \in CommandLines, main(t, line)
    PROVE  /\ tools'[t] = Started(line, t)
           /\ \A u \in Tools \ {t} : tools'[u] = [tools[u] EXCEPT !.alone = FALSE]
           /\ tools' = [u \in Tools |-> tools'[u]]
           /\ reader' = [reader EXCEPT !.clean = FALSE]
           /\ granted' = IF Parsed(line).appid = None THEN granted
                         ELSE [granted EXCEPT ![Parsed(line).appid] = None]
           /\ UNCHANGED <<class, app>>
           /\ Idle(t)
BY DEF main, Started

LEMMA MainKeeps ==
    ASSUME RegistryTyped, ToolsTyped, reader \in Reader, ReaderFits,
           NEW t \in Tools, NEW line \in CommandLines, main(t, line)
    PROVE  RegistryTyped' /\ ToolsTyped' /\ reader' \in Reader /\ ReaderFits'
<1>1. RegistryTyped'  BY MainChanges DEF RegistryTyped
<1>2. \A u \in Tools : tools'[u] \in Tool /\ CommandFits(tools'[u])
  <2>1. tools'[t] \in Tool /\ CommandFits(tools'[t])  BY MainChanges, StartedTyped
  <2>2. ASSUME NEW u \in Tools \ {t} PROVE tools'[u] \in Tool /\ CommandFits(tools'[u])
    <3>1. tools[u] \in Tool /\ CommandFits(tools[u])  BY DEF ToolsTyped
    <3>2. tools'[u] = [tools[u] EXCEPT !.alone = FALSE]  BY MainChanges
    <3>3. tools'[u] \in Tool  BY <3>1, <3>2 DEF Tool
    <3>4. tools'[u].at = tools[u].at /\ tools'[u].cmd = tools[u].cmd
          /\ tools'[u].appid = tools[u].appid
      BY <3>1, <3>2 DEF Tool
    <3> QED  BY <3>1, <3>3, <3>4 DEF CommandFits
  <2> QED  BY <2>1, <2>2
<1>3. tools' \in [Tools -> Tool]  BY <1>2, MainChanges
<1>4. granted' \in [Ids -> Options \cup {None}]
  BY MainChanges DEF ToolsTyped
<1>5. reader' \in Reader /\ ReaderFits'
  <2>1. reader' = [reader EXCEPT !.clean = FALSE]  BY MainChanges
  <2> QED  BY <2>1 DEF Reader, ReaderFits
<1>6. ToolsTyped'  BY <1>2, <1>3, <1>4 DEF ToolsTyped, CommandFits
<1> QED  BY <1>1, <1>5, <1>6

LEMMA LoggerTyped ==
    ASSUME NEW settings \in Settings
    PROVE  /\ LoggerFor(settings) \in Logger
           /\ NotReading(LoggerFor(settings)) \in Reader
           /\ NotReading(LoggerFor(settings)).at = "idle"
           /\ NotReading(LoggerFor(settings)).logger = LoggerFor(settings)
<1>1. LoggerFor(settings) \in Logger  BY DEF LoggerFor, Logger, Settings
<1>2. Unread \in Settings  BY DEF Unread, Settings
<1> QED  BY <1>1, <1>2 DEF NotReading, Reader

LEMMA UnreadTyped == Unread \in Settings
BY DEF Unread, Settings

LEMMA ReadingKeeps ==
    ASSUME RegistryTyped, reader \in Reader, ReaderFits, Reading
    PROVE  reader' \in Reader /\ ReaderFits'
<1>1. CASE \E c \in Classes : Launch(c)
  <2>1. PICK c \in Classes : Launch(c)  BY <1>1
  <2>2. PICK n : n = NotReading(LoggerFor(Unread))  OBVIOUS
  <2>3. n \in Reader  BY <2>2, LoggerTyped, UnreadTyped
  <2>4. PICK quiet \in BOOLEAN : quiet = (\A t \in Tools : Idle(t))  OBVIOUS
  <2>5. reader' = [n EXCEPT !.at = "readAppId", !.class = c, !.clean = quiet]
    BY <2>1, <2>2, <2>4 DEF Launch
  <2> QED  BY <2>3, <2>5 DEF Reader, ReaderFits
<1>2. CASE ReadAppIdOfClass
  <2>1. CASE reader' = NotReading(LoggerFor(Unread))
    BY <2>1, LoggerTyped, UnreadTyped DEF ReaderFits
  <2>2. CASE class[reader.class] \in Ids /\ app[class[reader.class]].key
    BY <1>2, <2>2 DEF ReadAppIdOfClass, Reader, ReaderFits
  <2> QED  BY <1>2, <2>1, <2>2 DEF ReadAppIdOfClass
<1>3. CASE ReadLogEnabled
  <2>1. PICK b \in BOOLEAN : b = (app[reader.appid].LogEnabled = TRUE)  OBVIOUS
  <2>2. reader' = [reader EXCEPT !.at = "readLevel", !.settings = [reader.settings EXCEPT !.enabled = b]]
    BY <1>3, <2>1 DEF ReadLogEnabled
  <2>3. [reader.settings EXCEPT !.enabled = b] \in Settings  BY DEF Reader, Settings
  <2> QED  BY <1>3, <2>2, <2>3 DEF Reader, ReaderFits, ReadLogEnabled
<1>4. CASE ReadLogLevel
  <2>1. app[reader.appid] \in AppKey  BY <1>4 DEF ReadLogLevel, ReaderFits, RegistryTyped
  <2>2. [reader.settings EXCEPT !.level = app[reader.appid].LogLevel] \in Settings
    BY <2>1 DEF Reader, Settings, AppKey
  <2>3. reader' = [reader EXCEPT !.at = "readDirectory",
                      !.settings = [reader.settings EXCEPT !.level = app[reader.appid].LogLevel]]
    BY <1>4 DEF ReadLogLevel
  <2> QED  BY <1>4, <2>2, <2>3 DEF Reader, ReaderFits, ReadLogLevel
<1>5. CASE ReadLogDirectory
  <2>1. app[reader.appid] \in AppKey  BY <1>5 DEF ReadLogDirectory, ReaderFits, RegistryTyped
  <2>2. [reader.settings EXCEPT !.directory = app[reader.appid].LogDirectory] \in Settings
    BY <2>1 DEF Reader, Settings, AppKey
  <2> QED  BY <1>5, <2>2, LoggerTyped DEF ReadLogDirectory, ReaderFits
<1> QED  BY <1>1, <1>2, <1>3, <1>4, <1>5 DEF Reading

LEMMA InitTyped == Init => CallInv
<1> SUFFICES ASSUME Init PROVE CallInv  OBVIOUS
<1>1. RegistryTyped
  <2>1. PICK named \in SUBSET {a \in Ids : \E c \in Classes : class[c] = a} :
          app = [a \in Ids |->
                   [key |-> \E c \in Classes : class[c] = a,
                    DllSurrogate |-> a \in named,
                    LogEnabled |-> None, LogLevel |-> None, LogDirectory |-> None]]
    BY DEF Init
  <2>2. app \in [Ids -> AppKey]  BY <2>1 DEF AppKey
  <2> QED  BY <2>2 DEF Init, RegistryTyped
<1>2. ToolsTyped
  BY DoneFits DEF Init, ToolsTyped
<1>3. reader \in Reader /\ ReaderFits
  BY LoggerTyped, UnreadTyped DEF Init, ReaderFits
<1> QED  BY <1>1, <1>2, <1>3, Parts

LEMMA StepTyped ==
    ASSUME CallInv, [Next]_vars
    PROVE  CallInv'
<1>b. RegistryTyped /\ ToolsTyped /\ reader \in Reader /\ ReaderFits  BY Parts
<1>a. RegistryTyped' /\ ToolsTyped' /\ reader' \in Reader /\ ReaderFits' => CallInv'
  BY DEF CallInv, TypeOK, RegistryTyped, ToolsTyped
<1> USE <1>a, <1>b
<1>1. ASSUME NEW t \in Tools, NEW line \in CommandLines, main(t, line) PROVE CallInv'
  BY <1>1, MainKeeps
<1>2. ASSUME NEW t \in Tools, RegistryCall(t) PROVE CallInv'
  BY <1>2, CallKeeps DEF RegistryCall, ReaderFits
<1>3. CASE Reading
  BY <1>3, ReadingKeeps DEF Reading, RegistryTyped, ToolsTyped, CommandFits
<1>4. CASE UNCHANGED vars
  BY <1>4 DEF vars, RegistryTyped, ToolsTyped, ReaderFits, CommandFits
<1> QED  BY <1>1, <1>2, <1>3, <1>4 DEF Next

(* A call uses only what its command gives, or what was read before.       *)
THEOREM CallsInductive == Spec => []CallInv
BY InitTyped, StepTyped, PTL DEF Spec

(* The variables stay in their ranges, whatever is killed or fails.        *)
THEOREM RegistryIsTyped == Spec => []TypeOK
<1>1. CallInv => TypeOK  BY DEF CallInv
<1> QED  BY <1>1, CallsInductive, PTL
-----------------------------------------------------------------------------
(* Taking a surrogate away from a class needs no invariant beyond the      *)
(* types: it depends on what each single call does.                        *)
LostOnlyTo(c) ==
    \E t \in Tools :
       \/ tools[t].at \in {"deleteAppId", "deleteDllSurrogate"}
          /\ (Cmd(t).unregister = c \/ tools[t].appid = class[c])
       \/ At(t, "setAppId") /\ Cmd(t).register = c /\ Cmd(t).appid # class[c]

LEMMA LosingCall ==
    ASSUME CallInv, NEW t \in Tools, RegistryCall(t), NEW c \in Classes,
           Launched(c), ~Launched(c)'
    PROVE  LostOnlyTo(c)
<1>t. tools[t] \in Tool /\ CommandFits(tools[t]) /\ RegistryTyped  BY Parts DEF ToolsTyped
<1>l. class[c] \in Ids /\ app[class[c]].DllSurrogate  BY DEF Launched
<1>k. ASSUME class'[c] = class[c],
             app'[class[c]].DllSurrogate = app[class[c]].DllSurrogate
      PROVE  FALSE
  BY <1>k, <1>l DEF Launched
<1>1. CASE UNCHANGED <<class, app>>  BY <1>1, <1>k
<1>2. CASE CreateClassKey(t)
  <2>1. class'[c] = class[c]
    BY <1>2, <1>l, <1>t, RegistryAssumption DEF CreateClassKey, RegistryTyped
  <2> QED  BY <1>2, <1>k, <2>1 DEF CreateClassKey
<1>3. CASE SetAppId(t)
  <2>1. Cmd(t).register \in Classes
    BY <1>3, <1>t DEF SetAppId, CommandFits, RegisterCalls, At, Cmd
  <2>2. class'[c] # class[c]  BY <1>3, <1>k DEF SetAppId
  <2> QED  BY <1>3, <1>t, <2>1, <2>2 DEF SetAppId, RegistryTyped, LostOnlyTo
<1>s. ASSUME Cmd(t).appid \in Ids, NEW value, SetApp(t, value), UNCHANGED class,
             value.DllSurrogate = App(t).DllSurrogate \/ value.DllSurrogate
      PROVE  FALSE
  <2>1. app'[class[c]] = IF class[c] = Cmd(t).appid THEN value ELSE app[class[c]]
    BY <1>s, <1>t, <1>l DEF SetApp, RegistryTyped
  <2>2. app'[class[c]].DllSurrogate  BY <1>s, <1>l, <2>1 DEF App
  <2> QED  BY <1>s, <1>l, <2>2 DEF Launched
<1>w. tools[t].at \in RegisterCalls \cup LoggingCalls =>
        Cmd(t).appid \in Ids /\ App(t) \in AppKey
  BY <1>t, AppTyped DEF CommandFits, Cmd
<1>4. CASE CreateAppKey(t)
  <2>1. tools[t].at \in RegisterCalls  BY <1>4 DEF CreateAppKey, RegisterCalls, At
  <2>2. PICK value : value = [App(t) EXCEPT !.key = TRUE]  OBVIOUS
  <2>3. value.DllSurrogate = App(t).DllSurrogate  BY <1>w, <2>1, <2>2 DEF AppKey
  <2> QED  BY <1>4, <1>s, <1>w, <2>1, <2>2, <2>3 DEF CreateAppKey
<1>5. CASE SetDllSurrogate(t)
  <2>1. tools[t].at \in RegisterCalls  BY <1>5 DEF SetDllSurrogate, RegisterCalls, At
  <2>2. PICK value : value = [App(t) EXCEPT !.DllSurrogate = TRUE]  OBVIOUS
  <2>3. value.DllSurrogate  BY <1>w, <2>1, <2>2 DEF AppKey
  <2> QED  BY <1>5, <1>s, <1>w, <2>1, <2>2, <2>3 DEF SetDllSurrogate
<1>6. CASE SetLogEnabled(t)
  <2>1. tools[t].at \in LoggingCalls  BY <1>6 DEF SetLogEnabled, LoggingCalls, At
  <2>2. PICK value : value = [App(t) EXCEPT !.LogEnabled = Cmd(t).logging]  OBVIOUS
  <2>3. value.DllSurrogate = App(t).DllSurrogate  BY <1>w, <2>1, <2>2 DEF AppKey
  <2> QED  BY <1>6, <1>s, <1>w, <2>1, <2>2, <2>3 DEF SetLogEnabled
<1>7. CASE SetLogLevel(t)
  <2>1. tools[t].at \in LoggingCalls  BY <1>7 DEF SetLogLevel, LoggingCalls, At
  <2>2. PICK value : value = [App(t) EXCEPT !.LogLevel = Cmd(t).level]  OBVIOUS
  <2>3. value.DllSurrogate = App(t).DllSurrogate  BY <1>w, <2>1, <2>2 DEF AppKey
  <2> QED  BY <1>7, <1>s, <1>w, <2>1, <2>2, <2>3 DEF SetLogLevel
<1>8. CASE SetLogDirectory(t)
  <2>1. tools[t].at \in LoggingCalls  BY <1>8 DEF SetLogDirectory, LoggingCalls, At
  <2>2. PICK value : value = [App(t) EXCEPT !.LogDirectory = Cmd(t).directory]  OBVIOUS
  <2>3. value.DllSurrogate = App(t).DllSurrogate  BY <1>w, <2>1, <2>2 DEF AppKey
  <2> QED  BY <1>8, <1>s, <1>w, <2>1, <2>2, <2>3 DEF SetLogDirectory
<1>9. CASE DeleteAppId(t)
  <2>1. CASE Cmd(t).unregister = c  BY <1>9, <2>1 DEF DeleteAppId, At, LostOnlyTo
  <2>2. CASE Cmd(t).unregister # c
    <3>1. class'[c] = class[c]  BY <1>9, <2>2, <1>t DEF DeleteAppId, RegistryTyped
    <3> QED  BY <1>9, <1>k, <3>1 DEF DeleteAppId
  <2> QED  BY <2>1, <2>2
<1>10. CASE DeleteDllSurrogate(t)
  <2>1. CASE tools[t].appid = class[c]
    BY <1>10, <2>1 DEF DeleteDllSurrogate, At, LostOnlyTo
  <2>2. CASE tools[t].appid # class[c]
    <3>1. app'[class[c]] = app[class[c]]
      BY <1>10, <2>2, <1>t, <1>l DEF DeleteDllSurrogate, RegistryTyped
    <3> QED  BY <1>10, <1>k, <3>1 DEF DeleteDllSurrogate
  <2> QED  BY <2>1, <2>2
<1>11. CASE Fails(t) \/ Killed(t) \/ OpenAppKey(t) \/ ReadAppId(t)
  BY <1>1, <1>11 DEF Fails, Killed, OpenAppKey, ReadAppId
<1> QED  BY <1>2, <1>3, <1>4, <1>5, <1>6, <1>7, <1>8, <1>9, <1>10, <1>11 DEF RegistryCall

(* A class loses its surrogate only to a process that unregisters it or    *)
(* moves it to another AppID, under any interleaving, failure and kill.    *)
THEOREM OnlyWhoMeansTo == Spec => SurrogateLostOnlyTo
<1>1. ASSUME CallInv, [Next]_vars, NEW c \in Classes, Launched(c), ~Launched(c)'
      PROVE  LostOnlyTo(c)
  <2>1. CASE UNCHANGED <<class, app>>  BY <1>1, <2>1 DEF Launched
  <2>2. ASSUME NEW t \in Tools, RegistryCall(t) PROVE LostOnlyTo(c)
    BY <1>1, <2>2, LosingCall
  <2>3. UNCHANGED <<class, app>> \/ \E t \in Tools : RegistryCall(t)
    BY <1>1 DEF Next, main, Reading, vars
  <2> QED  BY <2>1, <2>2, <2>3
<1>2. CallInv /\ [Next]_vars =>
        [\A c \in Classes : Launched(c) /\ ~Launched(c)' => LostOnlyTo(c)]_vars
  BY <1>1
<1>3. [][\A c \in Classes : Launched(c) /\ ~Launched(c)' => LostOnlyTo(c)]_vars
      => SurrogateLostOnlyTo
  BY DEF SurrogateLostOnlyTo, LostOnlyTo
<1> QED  BY <1>2, <1>3, CallsInductive, PTL DEF Spec
-----------------------------------------------------------------------------
(* A call changes the record of its own process only, and either keeps its *)
(* command or ends it.                                                     *)
WorksOn(t) ==
    /\ tools'[t].at # "idle"
    /\ tools'[t].cmd = tools[t].cmd
    /\ tools'[t].alone = tools[t].alone
    /\ tools'[t].had = tools[t].had

EndsNow(t) == \E ok \in BOOLEAN : tools'[t] = Done(ok)

LEMMA GoesWorks ==
    ASSUME ToolsTyped, NEW t \in Tools, NEW call \in Call, Goes(t, call)
    PROVE  WorksOn(t) /\ tools'[t].at = call /\ tools'[t].appid = tools[t].appid
           /\ \A u \in Tools \ {t} : tools'[u] = tools[u]
BY DEF ToolsTyped, Tool, Goes, WorksOn, Call

LEMMA EndsEnds ==
    ASSUME ToolsTyped, NEW t \in Tools, NEW ok \in BOOLEAN, Ends(t, ok)
    PROVE  tools'[t] = Done(ok) /\ \A u \in Tools \ {t} : tools'[u] = tools[u]
BY DEF ToolsTyped, Ends

LEMMA NextCalls ==
    /\ {"setAppId", "createAppKey", "setDllSurrogate", "openAppKey", "setLogEnabled",
        "setLogLevel", "setLogDirectory", "deleteAppId", "deleteDllSurrogate"} \subseteq Call
    /\ "idle" \notin Call
BY DEF Call

LEMMA CallChanges ==
    ASSUME ToolsTyped, NEW t \in Tools, RegistryCall(t)
    PROVE  /\ ~Idle(t)
           /\ \A u \in Tools \ {t} : tools'[u] = tools[u]
           /\ WorksOn(t) \/ EndsNow(t)
<1>1. ~Idle(t)
  BY DEF RegistryCall, Idle, At, Fails, Killed, Refused, CreateClassKey, SetAppId,
         CreateAppKey, SetDllSurrogate, OpenAppKey, SetLogEnabled, SetLogLevel,
         SetLogDirectory, ReadAppId, DeleteAppId, DeleteDllSurrogate
<1>2. CASE ReadAppId(t)
  <2>1. PICK id : tools' = [tools EXCEPT ![t].at = "deleteAppId", ![t].appid = id]
    BY <1>2 DEF ReadAppId
  <2> QED  BY <1>1, <2>1 DEF ToolsTyped, Tool, WorksOn
<1>3. CASE \/ CreateClassKey(t) \/ SetAppId(t) \/ CreateAppKey(t) \/ SetDllSurrogate(t)
           \/ OpenAppKey(t)
  <2>1. \E call \in Call : Goes(t, call)
    BY <1>3, NextCalls DEF CreateClassKey, SetAppId, CreateAppKey, SetDllSurrogate,
                           OpenAppKey
  <2> QED  BY <1>1, <2>1, GoesWorks
<1>4. CASE \/ Fails(t) \/ Killed(t) \/ SetLogDirectory(t) \/ DeleteDllSurrogate(t)
  <2>1. \E ok \in BOOLEAN : Ends(t, ok)
    BY <1>4 DEF Fails, Killed, SetLogDirectory, DeleteDllSurrogate
  <2> QED  BY <1>1, <2>1, EndsEnds DEF EndsNow
<1>5. CASE SetLogEnabled(t) \/ SetLogLevel(t) \/ DeleteAppId(t)
  <2>1. Ends(t, TRUE) \/ \E call \in Call : Goes(t, call)
    BY <1>5, NextCalls DEF SetLogEnabled, SetLogLevel, DeleteAppId, WriteDirectoryNext
  <2> QED  BY <1>1, <2>1, GoesWorks, EndsEnds DEF EndsNow
<1> QED  BY <1>2, <1>3, <1>4, <1>5 DEF RegistryCall

LEMMA AloneStays ==
    ASSUME CallInv, AloneMeansAlone, [Next]_vars
    PROVE  AloneMeansAlone'
<1>t. ToolsTyped /\ RegistryTyped  BY Parts
<1>1. ASSUME NEW t \in Tools, NEW line \in CommandLines, main(t, line)
      PROVE  AloneMeansAlone'
  <2>1. tools'[t] = Started(line, t) /\ tools'[t].at # "idle"
    BY <1>1, <1>t, MainChanges, StartedTyped
  <2>2. tools'[t].alone => \A u \in Tools : Idle(u)  BY <2>1 DEF Started
  <2>3. ASSUME NEW u \in Tools \ {t}
        PROVE  ~tools'[u].alone /\ tools'[u].at = tools[u].at
    <3>1. tools'[u] = [tools[u] EXCEPT !.alone = FALSE]  BY <1>1, <1>t, MainChanges
    <3>2. tools[u] \in Tool  BY <1>t DEF ToolsTyped
    <3> QED  BY <3>1, <3>2 DEF Tool
  <2> QED  BY <2>1, <2>2, <2>3 DEF AloneMeansAlone, Idle
<1>2. ASSUME NEW t \in Tools, RegistryCall(t) PROVE AloneMeansAlone'
  <2>1. \A u \in Tools \ {t} : tools'[u] = tools[u]  BY <1>2, <1>t, CallChanges
  <2>2. \A u \in Tools \ {t} : ~tools[u].alone
    BY <1>2, <1>t, CallChanges DEF AloneMeansAlone
  <2>3. CASE WorksOn(t)
    BY <2>1, <2>2, <2>3 DEF WorksOn, AloneMeansAlone, Idle
  <2>4. CASE EndsNow(t)
    <3>1. ~tools'[t].alone  BY <2>4, DoneFits DEF EndsNow
    <3> QED  BY <2>1, <2>2, <3>1 DEF AloneMeansAlone
  <2> QED  BY <1>2, <1>t, <2>3, <2>4, CallChanges
<1>3. CASE UNCHANGED tools  BY <1>3 DEF AloneMeansAlone, Idle
<1> QED  BY <1>1, <1>2, <1>3 DEF Next, Reading, vars

(* A process that has the registry to itself keeps what it has written,    *)
(* and writes what its next call relies on.                                *)
LEMMA WrittenGrows ==
    ASSUME CallInv, AloneInv, NEW t \in Tools, RegistryCall(t), tools'[t].alone
    PROVE  Written(tools[t])'
<1>t. tools[t] \in Tool /\ CommandFits(tools[t]) /\ RegistryTyped /\ ToolsTyped
  BY Parts DEF ToolsTyped
<1>w. WorksOn(t)  BY <1>t, CallChanges, DoneFits DEF EndsNow
<1>0. Written(tools[t]) /\ tools'[t].cmd = tools[t].cmd
  BY <1>w DEF WorksOn, AloneInv
<1>r. Cmd(t).register \in Classes \cup {None} /\ None \notin Ids
  BY <1>t, RegistryAssumption DEF Cmd, Tool, Options
<1> USE DEF At, Cmd
<1>1. CASE CreateClassKey(t)
  <2>1. tools'[t].at = "setAppId"  BY <1>1, <1>t, GoesWorks, NextCalls DEF CreateClassKey
  <2> QED  BY <2>1 DEF Written, Writing, LoggingCalls, RegisterCalls
<1>2. CASE SetAppId(t)
  <2>1. tools'[t].at = "createAppKey"  BY <1>2, <1>t, GoesWorks, NextCalls DEF SetAppId
  <2>2. Cmd(t).register \in Classes
    BY <1>2, <1>t DEF SetAppId, CommandFits, RegisterCalls
  <2>3. class'[Cmd(t).register] = Cmd(t).appid
    BY <1>2, <2>2, <1>t DEF SetAppId, RegistryTyped
  <2> QED  BY <1>0, <2>1, <2>3 DEF Written, Writing, LoggingCalls, RegisterCalls
<1>3. CASE CreateAppKey(t)
  <2>1. tools'[t].at = "setDllSurrogate" /\ tools[t].at = "createAppKey"
    BY <1>3, <1>t, GoesWorks, NextCalls DEF CreateAppKey
  <2>2. UNCHANGED class  BY <1>3 DEF CreateAppKey
  <2> QED  BY <1>0, <2>1, <2>2 DEF Written, Writing, LoggingCalls, RegisterCalls
<1>4. CASE SetDllSurrogate(t)
  <2>1. tools'[t].at = "openAppKey" /\ tools[t].at = "setDllSurrogate"
    BY <1>4, <1>t, GoesWorks, NextCalls DEF SetDllSurrogate
  <2>2. Cmd(t).appid \in Ids
    BY <2>1, <1>t DEF CommandFits, RegisterCalls
  <2>3. App(t) \in AppKey /\ app' = [app EXCEPT ![Cmd(t).appid] = [App(t) EXCEPT !.DllSurrogate = TRUE]]
    BY <1>4, <2>2, <1>t, AppTyped DEF SetDllSurrogate, SetApp
  <2>4. app'[Cmd(t).appid] = [App(t) EXCEPT !.DllSurrogate = TRUE]
    BY <2>2, <2>3, <1>t DEF RegistryTyped
  <2>5. app'[Cmd(t).appid].DllSurrogate  BY <2>3, <2>4 DEF AppKey
  <2>6. UNCHANGED class  BY <1>4 DEF SetDllSurrogate
  <2> QED  BY <1>0, <2>1, <2>5, <2>6 DEF Written, Writing, LoggingCalls, RegisterCalls
<1>5. CASE OpenAppKey(t)
  <2>1. tools'[t].at = "setLogEnabled" /\ tools[t].at = "openAppKey"
    BY <1>5, <1>t, GoesWorks, NextCalls DEF OpenAppKey
  <2>2. UNCHANGED <<class, app>>  BY <1>5 DEF OpenAppKey
  <2> QED  BY <1>0, <2>1, <2>2 DEF Written, Writing, LoggingCalls, RegisterCalls
<1>d. WriteDirectoryNext(t) => tools'[t].at = "setLogDirectory"
  BY <1>t, <1>w, GoesWorks, EndsEnds, DoneFits, NextCalls DEF WriteDirectoryNext, WorksOn
<1>6. CASE SetLogEnabled(t)
  <2>1. tools[t].at = "setLogEnabled"
        /\ \/ tools'[t].at = "setLogLevel"
           \/ Cmd(t).level = None /\ tools'[t].at = "setLogDirectory"
    BY <1>6, <1>t, <1>d, GoesWorks, NextCalls DEF SetLogEnabled
  <2>2. Cmd(t).appid \in Ids  BY <2>1, <1>t DEF CommandFits, LoggingCalls
  <2>3. App(t) \in AppKey /\ app' = [app EXCEPT ![Cmd(t).appid] = [App(t) EXCEPT !.LogEnabled = Cmd(t).logging]]
    BY <1>6, <2>2, <1>t, AppTyped DEF SetLogEnabled, SetApp
  <2>4. app'[Cmd(t).appid] = [App(t) EXCEPT !.LogEnabled = Cmd(t).logging]
    BY <2>2, <2>3, <1>t DEF RegistryTyped
  <2>5. /\ app'[Cmd(t).appid].LogEnabled = Cmd(t).logging
        /\ app'[Cmd(t).appid].DllSurrogate = app[Cmd(t).appid].DllSurrogate
    BY <2>3, <2>4 DEF AppKey, App
  <2>6. UNCHANGED class  BY <1>6 DEF SetLogEnabled
  <2> QED  BY <1>0, <2>1, <2>5, <2>6 DEF Written, Writing, LoggingCalls, RegisterCalls
<1>7. CASE SetLogLevel(t)
  <2>1. tools[t].at = "setLogLevel" /\ tools'[t].at = "setLogDirectory"
    BY <1>7, <1>d DEF SetLogLevel
  <2>2. Cmd(t).appid \in Ids  BY <2>1, <1>t DEF CommandFits, LoggingCalls
  <2>3. App(t) \in AppKey /\ app' = [app EXCEPT ![Cmd(t).appid] = [App(t) EXCEPT !.LogLevel = Cmd(t).level]]
    BY <1>7, <2>2, <1>t, AppTyped DEF SetLogLevel, SetApp
  <2>4. app'[Cmd(t).appid] = [App(t) EXCEPT !.LogLevel = Cmd(t).level]
    BY <2>2, <2>3, <1>t DEF RegistryTyped
  <2>5. /\ app'[Cmd(t).appid].LogLevel = Cmd(t).level
        /\ app'[Cmd(t).appid].LogEnabled = app[Cmd(t).appid].LogEnabled
        /\ app'[Cmd(t).appid].DllSurrogate = app[Cmd(t).appid].DllSurrogate
    BY <2>3, <2>4 DEF AppKey, App
  <2>6. UNCHANGED class  BY <1>7 DEF SetLogLevel
  <2> QED  BY <1>0, <2>1, <2>5, <2>6 DEF Written, Writing, LoggingCalls, RegisterCalls
<1>8. CASE Fails(t) \/ Killed(t) \/ SetLogDirectory(t) \/ DeleteDllSurrogate(t)
  BY <1>8, <1>t, <1>w, EndsEnds, DoneFits
     DEF Fails, Killed, SetLogDirectory, DeleteDllSurrogate, WorksOn
<1>9. CASE ReadAppId(t)
  <2>1. tools'[t].at = "deleteAppId"  BY <1>9, <1>t DEF ReadAppId, ToolsTyped, Tool
  <2> QED  BY <2>1 DEF Written, Writing, LoggingCalls, RegisterCalls
<1>10. CASE DeleteAppId(t)
  <2>1. tools'[t].at = "deleteDllSurrogate"
    BY <1>10, <1>t, <1>w, GoesWorks, EndsEnds, DoneFits, NextCalls DEF DeleteAppId, WorksOn
  <2> QED  BY <2>1 DEF Written, Writing, LoggingCalls, RegisterCalls
<1> QED  BY <1>1, <1>2, <1>3, <1>4, <1>5, <1>6, <1>7, <1>8, <1>9, <1>10 DEF RegistryCall

LEMMA AloneInvStays ==
    ASSUME CallInv, AloneInv, [Next]_vars
    PROVE  AloneInv'
<1>t. ToolsTyped /\ RegistryTyped  BY Parts
<1>1. AloneMeansAlone'  BY AloneStays DEF AloneInv
<1>2. ASSUME NEW t \in Tools, tools'[t].alone
      PROVE  Written(tools[t])'
  <2>1. ASSUME NEW u \in Tools, NEW line \in CommandLines, main(u, line)
        PROVE  Written(tools[t])'
    <3>1. CASE u = t
      <4>1. tools'[t] = Started(line, t)  BY <2>1, <3>1, <1>t, MainChanges
      <4>2. tools'[t].at \in {"createClassKey", "openAppKey", "readAppId"}
            /\ (tools'[t].at = "openAppKey" => tools'[t].cmd.register = None)
        BY <4>1 DEF Started, FirstCall
      <4> QED  BY <4>2 DEF Written, Writing, LoggingCalls, RegisterCalls
    <3>2. CASE u # t
      <4>1. tools'[t] = [tools[t] EXCEPT !.alone = FALSE]  BY <2>1, <3>2, <1>t, MainChanges
      <4> QED  BY <1>2, <4>1, <1>t DEF ToolsTyped, Tool
    <3> QED  BY <3>1, <3>2
  <2>2. ASSUME NEW u \in Tools, RegistryCall(u) PROVE Written(tools[t])'
    <3>1. CASE u # t
      <4>1. tools'[t] = tools[t] /\ ~Idle(u)  BY <2>2, <3>1, <1>t, CallChanges
      <4> QED  BY <1>2, <3>1, <4>1 DEF AloneInv, AloneMeansAlone
    <3> QED  BY <1>2, <2>2, <3>1, WrittenGrows
  <2>3. CASE UNCHANGED <<class, app, tools>>
    BY <1>2, <2>3 DEF AloneInv, Written
  <2> QED  BY <2>1, <2>2, <2>3 DEF Next, Reading, vars
<1> QED  BY <1>1, <1>2 DEF AloneInv

(* A process that has run alone finds in the registry what it has written. *)
THEOREM AloneInductive == Spec => []AloneInv
<1>1. Init => AloneInv
  <2>1. Init => \A t \in Tools : ~tools[t].alone  BY DoneFits DEF Init
  <2> QED  BY <2>1 DEF AloneInv, AloneMeansAlone
<1> QED  BY <1>1, AloneInvStays, CallsInductive, PTL DEF Spec

RegisterReport(t, c) ==
    Reports(t) /\ Cmd(t).register = c => Launched(c)' /\ class'[c] = Cmd(t).appid

LEMMA ReportOfACall ==
    ASSUME CallInv, AloneInv, [Next]_vars, NEW t \in Tools, Reports(t)
    PROVE  RegistryCall(t)
<1>t. ToolsTyped /\ RegistryTyped  BY Parts
<1>1. ASSUME NEW u \in Tools, NEW line \in CommandLines, main(u, line) PROVE FALSE
  <2>1. tools'[u].at # "idle"  BY <1>1, <1>t, MainChanges, StartedTyped
  <2>2. u # t => tools'[t] = [tools[t] EXCEPT !.alone = FALSE]  BY <1>1, <1>t, MainChanges
  <2>3. u # t => tools'[t].at = tools[t].at  BY <2>2, <1>t DEF ToolsTyped, Tool
  <2> QED  BY <2>1, <2>3 DEF Reports, Idle
<1>2. ASSUME NEW u \in Tools \ {t}, RegistryCall(u) PROVE FALSE
  BY <1>2, <1>t, CallChanges DEF Reports, Idle
<1>3. CASE UNCHANGED tools  BY <1>3 DEF Reports, Idle
<1> QED  BY <1>1, <1>2, <1>3 DEF Next, Reading, vars

(* The call that a successful report follows.                              *)
LEMMA ReportingCall ==
    ASSUME CallInv, NEW t \in Tools, RegistryCall(t), Reports(t)
    PROVE  \/ (SetLogEnabled(t) \/ SetLogLevel(t) \/ SetLogDirectory(t))
              /\ Ends(t, TRUE)
           \/ DeleteAppId(t) /\ Ends(t, TRUE)
           \/ DeleteDllSurrogate(t)
<1>t. ToolsTyped  BY Parts
<1>1. tools'[t].at = "idle" /\ tools'[t].ok  BY DEF Reports, Idle
<1>2. \A call \in Call : ~Goes(t, call)
  BY <1>t, <1>1, GoesWorks, NextCalls
<1>3. ~Ends(t, FALSE)  BY <1>t, <1>1, EndsEnds, DoneFits
<1>4. ~ReadAppId(t)  BY <1>t, <1>1 DEF ReadAppId, ToolsTyped, Tool
<1> QED  BY <1>2, <1>3, <1>4, NextCalls
         DEF RegistryCall, Fails, Killed, CreateClassKey, SetAppId, CreateAppKey,
             SetDllSurrogate, OpenAppKey, SetLogEnabled, SetLogLevel, SetLogDirectory,
             DeleteAppId, DeleteDllSurrogate, WriteDirectoryNext

(* Writing a setting leaves the rest of the key as it is.                  *)
LEMMA SettingWritten ==
    ASSUME CallInv, NEW t \in Tools,
           SetLogEnabled(t) \/ SetLogLevel(t) \/ SetLogDirectory(t)
    PROVE  /\ Cmd(t).appid \in Ids
           /\ UNCHANGED class
           /\ app'[Cmd(t).appid].DllSurrogate = app[Cmd(t).appid].DllSurrogate
           /\ app'[Cmd(t).appid].LogEnabled =
                 IF SetLogEnabled(t) THEN Cmd(t).logging ELSE app[Cmd(t).appid].LogEnabled
           /\ app'[Cmd(t).appid].LogLevel =
                 IF SetLogLevel(t) THEN Cmd(t).level ELSE app[Cmd(t).appid].LogLevel
           /\ app'[Cmd(t).appid].LogDirectory =
                 IF SetLogDirectory(t) THEN Cmd(t).directory
                 ELSE app[Cmd(t).appid].LogDirectory
           /\ \A a \in Ids \ {Cmd(t).appid} : app'[a] = app[a]
<1>t. tools[t] \in Tool /\ CommandFits(tools[t]) /\ RegistryTyped  BY Parts DEF ToolsTyped
<1>1. Cmd(t).appid \in Ids
  BY <1>t DEF SetLogEnabled, SetLogLevel, SetLogDirectory, At, Cmd, CommandFits, LoggingCalls
<1>2. App(t) \in AppKey  BY <1>t, <1>1, AppTyped
<1>3. ASSUME NEW value, SetApp(t, value)
      PROVE  app'[Cmd(t).appid] = value /\ \A a \in Ids \ {Cmd(t).appid} : app'[a] = app[a]
  BY <1>1, <1>3, <1>t DEF SetApp, RegistryTyped
<1>4. UNCHANGED class  BY DEF SetLogEnabled, SetLogLevel, SetLogDirectory
<1>5. CASE SetLogEnabled(t)
  <2>1. ~SetLogLevel(t) /\ ~SetLogDirectory(t)
    BY <1>5 DEF SetLogEnabled, SetLogLevel, SetLogDirectory, At
  <2>2. PICK value : value = [App(t) EXCEPT !.LogEnabled = Cmd(t).logging]  OBVIOUS
  <2>3. SetApp(t, value)  BY <1>5, <2>2 DEF SetLogEnabled
  <2>4. app'[Cmd(t).appid] = value  BY <1>3, <2>3
  <2> QED  BY <1>1, <1>2, <1>3, <1>4, <1>5, <2>1, <2>2, <2>3, <2>4 DEF AppKey, App
<1>6. CASE SetLogLevel(t)
  <2>1. ~SetLogEnabled(t) /\ ~SetLogDirectory(t)
    BY <1>6 DEF SetLogEnabled, SetLogLevel, SetLogDirectory, At
  <2>2. PICK value : value = [App(t) EXCEPT !.LogLevel = Cmd(t).level]  OBVIOUS
  <2>3. SetApp(t, value)  BY <1>6, <2>2 DEF SetLogLevel
  <2>4. app'[Cmd(t).appid] = value  BY <1>3, <2>3
  <2> QED  BY <1>1, <1>2, <1>3, <1>4, <1>6, <2>1, <2>2, <2>3, <2>4 DEF AppKey, App
<1>7. CASE SetLogDirectory(t)
  <2>1. ~SetLogEnabled(t) /\ ~SetLogLevel(t)
    BY <1>7 DEF SetLogEnabled, SetLogLevel, SetLogDirectory, At
  <2>2. PICK value : value = [App(t) EXCEPT !.LogDirectory = Cmd(t).directory]  OBVIOUS
  <2>3. SetApp(t, value)  BY <1>7, <2>2 DEF SetLogDirectory
  <2>4. app'[Cmd(t).appid] = value  BY <1>3, <2>3
  <2> QED  BY <1>1, <1>2, <1>3, <1>4, <1>7, <2>1, <2>2, <2>3, <2>4 DEF AppKey, App
<1> QED  BY <1>5, <1>6, <1>7

(* A registration that reports success, and had the registry to itself,    *)
(* has taken effect, whatever killed and failed processes have left.       *)
THEOREM RegistrationsHold == Spec => RegisterReportIsTrue
<1>1. ASSUME CallInv, AloneInv, [Next]_vars, NEW t \in Tools, NEW c \in Classes,
             Reports(t), Cmd(t).register = c
      PROVE  Launched(c)' /\ class'[c] = Cmd(t).appid
  <2>1. RegistryCall(t)  BY <1>1, ReportOfACall
  <2>2. tools[t] \in Tool /\ CommandFits(tools[t])  BY <1>1, Parts DEF ToolsTyped
  <2>3. None \notin Classes  BY RegistryAssumption DEF Ids
  <2>4. CASE SetLogEnabled(t) \/ SetLogLevel(t) \/ SetLogDirectory(t)
    <3>1. tools[t].at \in LoggingCalls
          /\ tools[t].at \in Writing \ {"createClassKey", "setAppId"}
      BY <2>4 DEF SetLogEnabled, SetLogLevel, SetLogDirectory, At, Writing, LoggingCalls
    <3>2. class[c] = Cmd(t).appid /\ app[Cmd(t).appid].DllSurrogate
      BY <1>1, <2>3, <3>1 DEF AloneInv, Written, Reports, Cmd
    <3> QED  BY <1>1, <2>4, <3>2, SettingWritten DEF Launched
  <2>5. CASE DeleteAppId(t) \/ DeleteDllSurrogate(t)
    <3>1. tools[t].at \in UnregisterCalls
      BY <2>5 DEF DeleteAppId, DeleteDllSurrogate, At, UnregisterCalls
    <3> QED  BY <1>1, <2>2, <2>3, <3>1 DEF CommandFits, Cmd
  <2> QED  BY <1>1, <2>1, <2>4, <2>5, ReportingCall
<1>2. CallInv /\ AloneInv /\ [Next]_vars =>
        [\A t \in Tools, c \in Classes : RegisterReport(t, c)]_vars
  BY <1>1 DEF RegisterReport
<1>3. [][\A t \in Tools, c \in Classes : RegisterReport(t, c)]_vars => RegisterReportIsTrue
  BY DEF RegisterReportIsTrue, RegisterReport
<1> QED  BY <1>2, <1>3, CallsInductive, AloneInductive, PTL DEF Spec
-----------------------------------------------------------------------------
(* UnregisterSurrogate reports success even where it could not read or     *)
(* open a key; what it reports is true where that does not happen.         *)
NothingSkipped == "skips" \notin Faults

LEMMA RemovedStays ==
    ASSUME NothingSkipped, CallInv, AloneInv, RemovedInv, [Next]_vars
    PROVE  RemovedInv'
<1>t. ToolsTyped /\ RegistryTyped  BY Parts
<1> SUFFICES ASSUME NEW t \in Tools, tools'[t].alone
             PROVE  Removed(tools[t])'
  BY DEF RemovedInv
<1>1. ASSUME NEW u \in Tools, NEW line \in CommandLines, main(u, line)
      PROVE  Removed(tools[t])'
  <2>1. CASE u = t
    <3>1. tools'[t] = Started(line, t) /\ UNCHANGED class  BY <1>1, <2>1, <1>t, MainChanges
    <3>2. tools'[t].at = FirstCall(Parsed(line)) /\ tools'[t].cmd = Parsed(line)
          /\ tools'[t].had = IF Parsed(line).unregister = None THEN None
                             ELSE class[Parsed(line).unregister]
      BY <3>1 DEF Started
    <3>3. tools'[t].at \in {"createClassKey", "openAppKey", "readAppId"}
      BY <3>2 DEF FirstCall
    <3>4. tools'[t].at = "readAppId" => Parsed(line).unregister \in Classes
      BY <3>2, ParsedFits DEF FirstCall
    <3>5. None \notin Classes  BY RegistryAssumption DEF Ids
    <3> QED  BY <3>1, <3>2, <3>3, <3>4, <3>5 DEF Removed
  <2>2. CASE u # t
    <3>1. tools'[t] = [tools[t] EXCEPT !.alone = FALSE]  BY <1>1, <2>2, <1>t, MainChanges
    <3> QED  BY <3>1, <1>t DEF ToolsTyped, Tool
  <2> QED  BY <2>1, <2>2
<1>2. ASSUME NEW u \in Tools, RegistryCall(u) PROVE Removed(tools[t])'
  <2>1. CASE u # t
    <3>1. tools'[t] = tools[t] /\ ~Idle(u)  BY <1>2, <2>1, <1>t, CallChanges
    <3> QED  BY <2>1, <3>1 DEF AloneInv, AloneMeansAlone
  <2>2. CASE u = t
    <3>1. WorksOn(t)  BY <1>2, <2>2, <1>t, CallChanges, DoneFits DEF EndsNow
    <3>2. Removed(tools[t]) /\ tools[t] \in Tool /\ CommandFits(tools[t])
      BY <3>1, <1>t DEF WorksOn, RemovedInv, ToolsTyped
    <3>3. CASE ReadAppId(t)
      <4>1. tools[t].at = "readAppId"  BY <3>3 DEF ReadAppId, At
      <4>2. tools[t].had = class[Cmd(t).unregister]  BY <3>2, <4>1 DEF Removed, Cmd
      <4>3. tools' = [tools EXCEPT ![t].at = "deleteAppId",
                        ![t].appid = IF tools[t].had = NoKey THEN None ELSE tools[t].had]
        BY <3>3, <4>2 DEF ReadAppId, NothingSkipped
      <4>4. tools'[t].at = "deleteAppId"
            /\ tools'[t].appid = IF tools[t].had = NoKey THEN None ELSE tools[t].had
        BY <4>3, <3>2, <1>t DEF ToolsTyped, Tool
      <4> QED  BY <3>1, <4>4 DEF WorksOn, Removed
    <3>4. CASE DeleteAppId(t)
      <4>1. tools[t].appid # None /\ Goes(t, "deleteDllSurrogate")
        BY <3>1, <3>4, <1>t, EndsEnds, DoneFits DEF DeleteAppId, WorksOn
      <4>2. tools'[t].at = "deleteDllSurrogate" /\ tools'[t].appid = tools[t].appid
        BY <4>1, <1>t, GoesWorks, NextCalls
      <4>3. tools[t].appid = tools[t].had
        BY <3>2, <3>4, <4>1 DEF Removed, DeleteAppId, At
      <4>4. class'[Cmd(t).unregister] \in {None, NoKey}
        <5>1. Cmd(t).unregister \in Classes
          BY <3>2, <3>4 DEF DeleteAppId, At, CommandFits, UnregisterCalls, Cmd
        <5>2. class' = [class EXCEPT ![Cmd(t).unregister] = IF @ = NoKey THEN @ ELSE None]
          BY <3>4 DEF DeleteAppId, NothingSkipped
        <5> QED  BY <5>1, <5>2, <1>t DEF RegistryTyped
      <4> QED  BY <3>1, <4>2, <4>3, <4>4 DEF WorksOn, Removed, Cmd
    <3>5. ASSUME NEW call \in Call \ {"readAppId", "deleteAppId", "deleteDllSurrogate"},
                 Goes(t, call)
          PROVE  Removed(tools[t])'
      <4>1. tools'[t].at = call  BY <3>5, <1>t, GoesWorks
      <4> QED  BY <4>1 DEF Removed
    <3>6. CASE DeleteDllSurrogate(t)
      BY <3>1, <3>6, <1>t, EndsEnds, DoneFits DEF DeleteDllSurrogate, WorksOn
    <3>7. \A ok \in BOOLEAN : ~Ends(t, ok)
      BY <3>1, <1>t, EndsEnds, DoneFits DEF WorksOn
    <3> QED  BY <1>2, <2>2, <3>3, <3>4, <3>5, <3>6, <3>7, NextCalls
         DEF RegistryCall, Fails, Killed, CreateClassKey, SetAppId, CreateAppKey,
             SetDllSurrogate, OpenAppKey, SetLogEnabled, SetLogLevel, SetLogDirectory,
             WriteDirectoryNext
  <2> QED  BY <2>1, <2>2
<1>3. CASE UNCHANGED <<class, tools>>
  BY <1>3 DEF RemovedInv, Removed
<1> QED  BY <1>1, <1>2, <1>3 DEF Next, Reading, vars

UnregisterReport(t, c) ==
    Reports(t) /\ Cmd(t).appid = None /\ Cmd(t).unregister = c =>
        /\ class'[c] \in {None, NoKey}
        /\ tools[t].had \in Ids => ~app'[tools[t].had].DllSurrogate

(* An unregistration that reports success, and had the registry to itself, *)
(* has removed the AppID of the class and its surrogate, if no call skips. *)
THEOREM UnregistrationsHold ==
    ASSUME NothingSkipped
    PROVE  Spec => UnregisterReportIsTrue
<1>i. Spec => []RemovedInv
  <2>1. Init => RemovedInv
    <3>1. Init => \A t \in Tools : ~tools[t].alone  BY DoneFits DEF Init
    <3> QED  BY <3>1 DEF RemovedInv
  <2>2. CallInv /\ AloneInv /\ RemovedInv /\ [Next]_vars => RemovedInv'
    BY RemovedStays
  <2> QED  BY <2>1, <2>2, CallsInductive, AloneInductive, PTL DEF Spec
<1>1. ASSUME CallInv, AloneInv, RemovedInv, [Next]_vars, NEW t \in Tools, NEW c \in Classes,
             Reports(t), Cmd(t).appid = None, Cmd(t).unregister = c
      PROVE  /\ class'[c] \in {None, NoKey}
             /\ tools[t].had \in Ids => ~app'[tools[t].had].DllSurrogate
  <2>1. RegistryCall(t)  BY <1>1, ReportOfACall
  <2>2. Removed(tools[t]) /\ RegistryTyped  BY <1>1, Parts DEF Reports, RemovedInv
  <2>3. None \notin Ids /\ NoKey \notin Ids  BY RegistryAssumption
  <2>4. CASE SetLogEnabled(t) \/ SetLogLevel(t) \/ SetLogDirectory(t)
    BY <1>1, <2>3, <2>4, SettingWritten
  <2>5. CASE DeleteAppId(t) /\ Ends(t, TRUE)
    <3>1. class' = [class EXCEPT ![c] = IF @ = NoKey THEN @ ELSE None]
      BY <1>1, <2>5 DEF DeleteAppId, NothingSkipped
    <3>2. tools'[t].at = "idle"  BY <1>1 DEF Reports, Idle
    <3>3. tools[t].appid = None
      BY <1>1, <2>5, <3>2, Parts, GoesWorks, NextCalls DEF DeleteAppId
    <3>4. tools[t].had \notin Ids
      BY <2>2, <2>3, <2>5, <3>3 DEF Removed, DeleteAppId, At
    <3> QED  BY <2>2, <3>1, <3>4 DEF RegistryTyped
  <2>6. CASE DeleteDllSurrogate(t)
    <3>1. class[c] \in {None, NoKey} /\ tools[t].appid = tools[t].had
      BY <1>1, <2>2, <2>6 DEF Removed, DeleteDllSurrogate, At, Cmd
    <3>2. UNCHANGED class /\ app' = [app EXCEPT ![tools[t].appid].DllSurrogate = FALSE]
      BY <2>6 DEF DeleteDllSurrogate, NothingSkipped
    <3>3. tools[t].had \in Ids => ~app'[tools[t].had].DllSurrogate
      BY <2>2, <3>1, <3>2 DEF RegistryTyped, AppKey
    <3> QED  BY <3>1, <3>2, <3>3
  <2> QED  BY <1>1, <2>1, <2>4, <2>5, <2>6, ReportingCall
<1>2. CallInv /\ AloneInv /\ RemovedInv /\ [Next]_vars =>
        [\A t \in Tools, c \in Classes : UnregisterReport(t, c)]_vars
  BY <1>1 DEF UnregisterReport
<1>3. [][\A t \in Tools, c \in Classes : UnregisterReport(t, c)]_vars
      => UnregisterReportIsTrue
  BY DEF UnregisterReportIsTrue, UnregisterReport
<1> QED  BY <1>i, <1>2, <1>3, CallsInductive, AloneInductive, PTL DEF Spec
-----------------------------------------------------------------------------
(* Who does not write settings leaves those of every AppID alone.          *)
SameSettings(a) ==
    /\ app'[a].LogEnabled = app[a].LogEnabled
    /\ app'[a].LogLevel = app[a].LogLevel
    /\ app'[a].LogDirectory = app[a].LogDirectory

SetsSettings(t) == SetLogEnabled(t) \/ SetLogLevel(t) \/ SetLogDirectory(t)

LEMMA SettingsKept ==
    ASSUME CallInv, NEW t \in Tools, RegistryCall(t), NEW a \in Ids,
           ~SetsSettings(t) \/ a # Cmd(t).appid
    PROVE  SameSettings(a)
<1>t. tools[t] \in Tool /\ CommandFits(tools[t]) /\ RegistryTyped  BY Parts DEF ToolsTyped
<1>1. CASE UNCHANGED app  BY <1>1 DEF SameSettings
<1>2. CASE SetsSettings(t)
  BY <1>2, SettingWritten DEF SetsSettings, SameSettings
<1>3. CASE CreateAppKey(t) \/ SetDllSurrogate(t)
  <2>1. Cmd(t).appid \in Ids
    BY <1>3, <1>t DEF CreateAppKey, SetDllSurrogate, At, Cmd, CommandFits, RegisterCalls
  <2>2. App(t) \in AppKey  BY <2>1, <1>t, AppTyped
  <2>3. PICK value : /\ SetApp(t, value)
                     /\ \/ value = [App(t) EXCEPT !.key = TRUE]
                        \/ value = [App(t) EXCEPT !.DllSurrogate = TRUE]
    BY <1>3 DEF CreateAppKey, SetDllSurrogate
  <2>4. value.LogEnabled = App(t).LogEnabled /\ value.LogLevel = App(t).LogLevel
        /\ value.LogDirectory = App(t).LogDirectory
    BY <2>2, <2>3 DEF AppKey
  <2>5. app'[a] = IF a = Cmd(t).appid THEN value ELSE app[a]
    BY <2>3, <1>t DEF SetApp, RegistryTyped
  <2> QED  BY <2>4, <2>5 DEF SameSettings, App
<1>4. CASE DeleteDllSurrogate(t)
  <2>1. CASE UNCHANGED app  BY <1>1, <2>1
  <2>2. CASE app' = [app EXCEPT ![tools[t].appid].DllSurrogate = FALSE]
    <3>1. app[a] \in AppKey  BY <1>t DEF RegistryTyped
    <3>2. app'[a] = app[a] \/ app'[a] = [app[a] EXCEPT !.DllSurrogate = FALSE]
      BY <2>2, <1>t DEF RegistryTyped
    <3> QED  BY <3>1, <3>2 DEF AppKey, SameSettings
  <2> QED  BY <1>4, <2>1, <2>2 DEF DeleteDllSurrogate
<1> QED  BY <1>1, <1>2, <1>3, <1>4
         DEF RegistryCall, Fails, Killed, CreateClassKey, SetAppId, OpenAppKey,
             SetsSettings, ReadAppId, DeleteAppId

LEMMA GrantedStays ==
    ASSUME CallInv, AloneInv, GrantedIsWritten, [Next]_vars
    PROVE  GrantedIsWritten'
<1>t. ToolsTyped /\ RegistryTyped  BY Parts
<1> DEFINE Holds(a) ==
      granted[a] # None =>
         /\ app[a].LogEnabled = granted[a].logging
         /\ granted[a].level \in {None, app[a].LogLevel}
         /\ granted[a].directory \in {None, app[a].LogDirectory}
         /\ \A t \in Tools : Cmd(t).appid # a
<1> SUFFICES ASSUME NEW a \in Ids PROVE Holds(a)'
  BY DEF GrantedIsWritten
<1>h. Holds(a)  BY DEF GrantedIsWritten
<1>n. None \notin Ids /\ NoOptions.appid = None
  BY RegistryAssumption DEF NoOptions
<1>1. ASSUME NEW t \in Tools, NEW line \in CommandLines, main(t, line)
      PROVE  Holds(a)'
  <2>1. /\ UNCHANGED app
        /\ granted' = IF Parsed(line).appid = None THEN granted
                      ELSE [granted EXCEPT ![Parsed(line).appid] = None]
        /\ tools'[t] = Started(line, t)
        /\ \A u \in Tools \ {t} : tools'[u] = [tools[u] EXCEPT !.alone = FALSE]
    BY <1>1, <1>t, MainChanges
  <2>2. tools'[t].cmd.appid = Parsed(line).appid  BY <2>1 DEF Started
  <2>3. \A u \in Tools \ {t} : tools'[u].cmd = tools[u].cmd
    BY <2>1, <1>t DEF ToolsTyped, Tool
  <2>4. CASE Parsed(line).appid = a
    BY <2>1, <2>4, <1>n, <1>t DEF ToolsTyped
  <2>5. CASE Parsed(line).appid # a
    <3>1. granted'[a] = granted[a]  BY <2>1, <2>5, <1>t DEF ToolsTyped
    <3> QED  BY <1>h, <2>1, <2>2, <2>3, <2>5, <3>1 DEF Cmd
  <2> QED  BY <2>4, <2>5
<1>2. ASSUME NEW t \in Tools, RegistryCall(t)
      PROVE  Holds(a)'
  <2>1. \A u \in Tools \ {t} : tools'[u] = tools[u]  BY <1>2, <1>t, CallChanges
  <2>2. tools'[t].cmd.appid \in {tools[t].cmd.appid, None}
    BY <1>2, <1>t, <1>n, CallChanges, DoneFits DEF WorksOn, EndsNow
  <2>3. CASE granted'[a] = granted[a]
    <3>1. granted[a] # None => Cmd(t).appid # a  BY <1>h
    <3>2. granted[a] # None => SameSettings(a)  BY <1>2, <3>1, SettingsKept
    <3> QED  BY <1>h, <1>n, <2>1, <2>2, <2>3, <3>2 DEF SameSettings, Cmd
  <2>4. CASE granted'[a] # granted[a]
    <3>1. Ends(t, TRUE) /\ tools[t].alone /\ Cmd(t).appid = a
          /\ granted'[a] = Cmd(t)
      <4>1. Ends(t, TRUE) \/ UNCHANGED granted
        BY <1>2 DEF RegistryCall, Fails, Killed, Ends, Goes, CreateClassKey, SetAppId,
             CreateAppKey, SetDllSurrogate, OpenAppKey, SetLogEnabled, SetLogLevel,
             SetLogDirectory, WriteDirectoryNext, ReadAppId, DeleteAppId, DeleteDllSurrogate
      <4> QED  BY <2>4, <4>1, <1>t DEF Ends, ToolsTyped
    <3>2. Reports(t)
      BY <1>2, <3>1, <1>t, EndsEnds, DoneFits, CallChanges DEF Reports, Idle
    <3>3. SetsSettings(t)
      <4>1. CASE DeleteAppId(t) \/ DeleteDllSurrogate(t)
        <5>1. tools[t].at \in UnregisterCalls
          BY <4>1 DEF DeleteAppId, DeleteDllSurrogate, At, UnregisterCalls
        <5> QED  BY <3>1, <5>1, <1>n, <1>t DEF ToolsTyped, CommandFits, Cmd
      <4> QED  BY <1>2, <3>2, <4>1, ReportingCall DEF SetsSettings
    <3>4. Written(tools[t])  BY <3>1 DEF AloneInv
    <3>5. app'[a].LogEnabled = Cmd(t).logging
      <4>1. CASE SetLogEnabled(t)  BY <3>1, <4>1, SettingWritten
      <4>2. CASE ~SetLogEnabled(t)
        <5>1. tools[t].at \in {"setLogLevel", "setLogDirectory"}
          BY <3>3, <4>2 DEF SetsSettings, SetLogLevel, SetLogDirectory, At
        <5> QED  BY <3>1, <3>3, <3>4, <4>2, <5>1, SettingWritten
                 DEF SetsSettings, Written, Cmd
      <4> QED  BY <4>1, <4>2
    <3>6. Cmd(t).level \in {None, app'[a].LogLevel}
      <4>1. CASE SetLogLevel(t)  BY <3>1, <4>1, SettingWritten
      <4>2. CASE SetLogDirectory(t)
        <5>1. ~SetLogLevel(t) /\ tools[t].at = "setLogDirectory"
          BY <4>2 DEF SetLogLevel, SetLogDirectory, At
        <5> QED  BY <3>1, <3>4, <4>2, <5>1, SettingWritten DEF Written, Cmd
      <4>3. CASE SetLogEnabled(t)
        <5>1. Cmd(t).level = None
          BY <3>2, <4>3, <1>t, GoesWorks, NextCalls DEF SetLogEnabled, Reports, Idle
        <5> QED  BY <5>1
      <4> QED  BY <3>3, <4>1, <4>2, <4>3 DEF SetsSettings
    <3>7. Cmd(t).directory \in {None, app'[a].LogDirectory}
      <4>1. CASE SetLogDirectory(t)  BY <3>1, <4>1, SettingWritten
      <4>2. CASE SetLogLevel(t) \/ SetLogEnabled(t)
        <5>1. ASSUME NEW call \in Call, Goes(t, call) PROVE FALSE
          BY <3>2, <5>1, <1>t, GoesWorks, NextCalls DEF Reports, Idle
        <5>2. Cmd(t).directory = None
          BY <4>2, <5>1, NextCalls DEF SetLogEnabled, SetLogLevel, WriteDirectoryNext
        <5> QED  BY <5>2
      <4> QED  BY <3>3, <4>1, <4>2 DEF SetsSettings
    <3>8. tools'[t].cmd.appid # a  BY <3>1, <1>t, <1>n, EndsEnds, DoneFits
    <3>9. \A u \in Tools \ {t} : tools'[u].cmd.appid # a
      <4> TAKE u \in Tools \ {t}
      <4>1. Idle(u) /\ CommandFits(tools[u])
        BY <3>1, <1>t DEF AloneInv, AloneMeansAlone, ToolsTyped
      <4> QED  BY <4>1, <2>1, <1>n DEF CommandFits, Idle
    <3> QED  BY <3>1, <3>5, <3>6, <3>7, <3>8, <3>9 DEF Cmd
  <2> QED  BY <2>3, <2>4
<1>3. CASE UNCHANGED <<app, tools, granted>>
  BY <1>3, <1>h DEF Cmd
<1> QED  BY <1>1, <1>2, <1>3 DEF Next, Reading, vars

(* A granted setting is a BOOLEAN, so that comparing it with TRUE tells.   *)
LEMMA GrantedEnabled ==
    ASSUME CallInv, GrantedIsWritten, NEW a \in Ids, granted[a] # None
    PROVE  granted[a].logging = (app[a].LogEnabled = TRUE)
<1>1. granted[a].logging \in BOOLEAN  BY Parts DEF ToolsTyped, Options
<1>2. app[a].LogEnabled = granted[a].logging  BY DEF GrantedIsWritten
<1>3. CASE granted[a].logging = TRUE  BY <1>2, <1>3
<1>4. CASE granted[a].logging = FALSE  BY <1>2, <1>4
<1> QED  BY <1>1, <1>3, <1>4

LEMMA PeaceStays ==
    ASSUME CallInv, GrantedIsWritten, ReadInPeace, [Next]_vars
    PROVE  ReadInPeace'
<1>t. ToolsTyped /\ RegistryTyped /\ reader \in Reader /\ ReaderFits  BY Parts
<1>1. ASSUME NEW t \in Tools, NEW line \in CommandLines, main(t, line)
      PROVE  ReadInPeace'
  <2>1. reader' = [reader EXCEPT !.clean = FALSE]  BY <1>1, <1>t, MainChanges
  <2>2. ~reader'.clean  BY <2>1, <1>t DEF Reader
  <2> QED  BY <2>2 DEF ReadInPeace
<1>2. ASSUME NEW t \in Tools, RegistryCall(t) PROVE ReadInPeace'
  <2>1. ~Idle(t) /\ UNCHANGED reader  BY <1>2, <1>t, CallChanges DEF RegistryCall
  <2> QED  BY <2>1 DEF ReadInPeace
<1>3. CASE Reading
  <2>u. UNCHANGED <<app, tools, granted>>  BY <1>3 DEF Reading
  <2>n. ASSUME NEW settings \in Settings, reader' = NotReading(LoggerFor(settings))
        PROVE  ReadInPeace'
    BY <2>n, LoggerTyped DEF ReadInPeace
  <2>1. ASSUME NEW c \in Classes, Launch(c) PROVE ReadInPeace'
    <3>1. PICK n : n = NotReading(LoggerFor(Unread))  OBVIOUS
    <3>2. n \in Reader  BY <3>1, LoggerTyped, UnreadTyped
    <3>3. PICK quiet \in BOOLEAN : quiet = (\A t \in Tools : Idle(t))  OBVIOUS
    <3>4. reader' = [n EXCEPT !.at = "readAppId", !.class = c, !.clean = quiet]
      BY <2>1, <3>1, <3>3 DEF Launch
    <3>5. reader'.at = "readAppId" /\ reader'.clean = quiet  BY <3>2, <3>4 DEF Reader
    <3> QED  BY <2>u, <3>3, <3>5 DEF ReadInPeace, Idle
  <2>2. CASE ReadAppIdOfClass
    <3>1. CASE reader' = NotReading(LoggerFor(Unread))  BY <2>n, <3>1, UnreadTyped
    <3>2. CASE reader' = [reader EXCEPT !.at = "readEnabled", !.class = None,
                                        !.appid = class[reader.class]]
      <4>1. reader'.at = "readEnabled" /\ reader'.clean = reader.clean
        BY <3>2, <1>t DEF Reader
      <4> QED  BY <2>2, <2>u, <4>1 DEF ReadInPeace, Idle, ReadAppIdOfClass
    <3> QED  BY <2>2, <3>1, <3>2 DEF ReadAppIdOfClass
  <2>3. CASE ReadLogEnabled
    <3>1. PICK b \in BOOLEAN : b = (app[reader.appid].LogEnabled = TRUE)  OBVIOUS
    <3>2. reader' = [reader EXCEPT !.at = "readLevel",
                        !.settings = [reader.settings EXCEPT !.enabled = b]]
      BY <2>3, <3>1 DEF ReadLogEnabled
    <3>3. reader'.at = "readLevel" /\ reader'.clean = reader.clean
          /\ reader'.appid = reader.appid /\ reader'.settings.enabled = b
      BY <3>2, <1>t DEF Reader, Settings
    <3>4. reader.appid \in Ids  BY <2>3, <1>t DEF ReadLogEnabled, ReaderFits
    <3>5. granted[reader.appid] # None => b = granted[reader.appid].logging
      BY <3>1, <3>4, GrantedEnabled
    <3> QED  BY <2>3, <2>u, <3>3, <3>5 DEF ReadInPeace, Idle, ReadLogEnabled
  <2>4. CASE ReadLogLevel
    <3>1. PICK settings : settings = [reader.settings EXCEPT !.level = app[reader.appid].LogLevel]
      OBVIOUS
    <3>2. reader' = [reader EXCEPT !.at = "readDirectory", !.settings = settings]
      BY <2>4, <3>1 DEF ReadLogLevel
    <3>3. settings.enabled = reader.settings.enabled
          /\ settings.level = app[reader.appid].LogLevel
      BY <3>1, <1>t DEF Reader, Settings
    <3>4. reader'.at = "readDirectory" /\ reader'.clean = reader.clean
          /\ reader'.appid = reader.appid /\ reader'.settings = settings
      BY <3>2, <1>t DEF Reader
    <3> QED  BY <2>4, <2>u, <3>3, <3>4 DEF ReadInPeace, Idle, ReadLogLevel
  <2>5. CASE ReadLogDirectory
    <3>1. app[reader.appid] \in AppKey
      BY <2>5, <1>t DEF ReadLogDirectory, ReaderFits, RegistryTyped
    <3>2. [reader.settings EXCEPT !.directory = app[reader.appid].LogDirectory] \in Settings
      BY <3>1, <1>t DEF Reader, Settings, AppKey
    <3> QED  BY <2>n, <2>5, <3>2 DEF ReadLogDirectory
  <2> QED  BY <1>3, <2>1, <2>2, <2>3, <2>4, <2>5 DEF Reading
<1>4. CASE UNCHANGED vars
  BY <1>4 DEF vars, ReadInPeace, Idle
<1> QED  BY <1>1, <1>2, <1>3, <1>4 DEF Next

(* What was granted is in the registry, and who reads in peace reads it.   *)
THEOREM LoggingInductive == Spec => []LogInv
<1>1. Init => LogInv
  <2>1. Init => \A a \in Ids : granted[a] = None  BY DEF Init
  <2>2. Init => reader.at = "idle"  BY LoggerTyped, UnreadTyped DEF Init
  <2> QED  BY <2>1, <2>2 DEF LogInv, GrantedIsWritten, ReadInPeace
<1>2. CallInv /\ AloneInv /\ LogInv /\ [Next]_vars => LogInv'
  BY GrantedStays, PeaceStays DEF LogInv
<1> QED  BY <1>1, <1>2, CallsInductive, AloneInductive, PTL DEF Spec

LogsAsTold ==
    LET told == granted[reader.appid]
        logger == reader'.logger
    IN ReadLogDirectory /\ reader.clean /\ told # None =>
         /\ (logger.file # "stderr") = told.logging
         /\ told.logging =>
               /\ told.directory \in {None, logger.file}
               /\ told.level \in {None, logger.level}

(* A surrogate logs as the last process that wrote the settings of its     *)
(* AppID with success was told, if it has read them in peace.              *)
THEOREM LogsAsGranted == Spec => SurrogateLogsAsTold
<1>1. ASSUME CallInv, LogInv, ReadLogDirectory, reader.clean,
             NEW told, told = granted[reader.appid], told # None,
             NEW logger, logger = reader'.logger
      PROVE  /\ (logger.file # "stderr") = told.logging
             /\ told.logging =>
                   /\ told.directory \in {None, logger.file}
                   /\ told.level \in {None, logger.level}
  <2>1. ToolsTyped /\ RegistryTyped /\ reader \in Reader /\ ReaderFits  BY <1>1, Parts
  <2>2. reader.at = "readDirectory" /\ reader.appid \in Ids
    BY <1>1, <2>1 DEF ReadLogDirectory, ReaderFits
  <2>3. PICK key : key = app[reader.appid]  OBVIOUS
  <2>4. key \in AppKey /\ told \in Options
    BY <1>1, <2>1, <2>2, <2>3 DEF RegistryTyped, ToolsTyped
  <2>5. told.level \in {None, key.LogLevel} /\ told.directory \in {None, key.LogDirectory}
    BY <1>1, <2>2, <2>3 DEF LogInv, GrantedIsWritten
  <2>6. reader.settings.enabled = told.logging /\ reader.settings.level = key.LogLevel
    BY <1>1, <2>2, <2>3 DEF LogInv, ReadInPeace
  <2>7. PICK settings : settings = [reader.settings EXCEPT !.directory = key.LogDirectory]
    OBVIOUS
  <2>8. /\ settings \in Settings
        /\ settings.enabled = told.logging
        /\ settings.level = key.LogLevel
        /\ settings.directory = key.LogDirectory
    BY <2>1, <2>4, <2>6, <2>7 DEF Reader, Settings, AppKey
  <2>9. logger = LoggerFor(settings)
    BY <1>1, <2>3, <2>7, <2>8, LoggerTyped DEF ReadLogDirectory
  <2>10. told.logging \in BOOLEAN  BY <2>4 DEF Options
  <2>11. CASE ~told.logging
    <3>1. logger.file = "stderr"  BY <2>8, <2>9, <2>11 DEF LoggerFor
    <3> QED  BY <2>10, <2>11, <3>1
  <2>12. CASE told.logging
    <3>1. logger.file = IF settings.directory = None THEN "default" ELSE settings.directory
      BY <2>8, <2>9, <2>12 DEF LoggerFor
    <3>2. logger.level = IF settings.level = None THEN "info" ELSE settings.level
      BY <2>8, <2>9, <2>12 DEF LoggerFor
    <3>3. key.LogDirectory \in Dirs \cup {None}  BY <2>4 DEF AppKey
    <3>4. logger.file # "stderr"  BY <2>8, <3>1, <3>3, RegistryAssumption
    <3> QED  BY <2>5, <2>8, <2>10, <2>12, <3>1, <3>2, <3>4
  <2> QED  BY <2>10, <2>11, <2>12
<1>2. CallInv /\ LogInv /\ [Next]_vars => [LogsAsTold]_vars
  BY <1>1 DEF LogsAsTold
<1>3. [][LogsAsTold]_vars => SurrogateLogsAsTold
  BY DEF SurrogateLogsAsTold, LogsAsTold
<1> QED  BY <1>2, <1>3, CallsInductive, LoggingInductive, PTL DEF Spec
=============================================================================
