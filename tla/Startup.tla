------------------------------ MODULE Startup --------------------------------
(***************************************************************************)
(* main (main.cc) up to its message loop, with the two parses of the       *)
(* command line (command_line_parser.cc) and the logger it sets up         *)
(* (logging.cc).  The first parse, tryParse, only serves to configure the  *)
(* logger: it swallows its errors, and what was assigned up to the error   *)
(* counts.  The second, parse, reports errors in a box and ends the        *)
(* process.  Only then does main do what it was asked.  In between the     *)
(* QApplication takes Qt's own options out of argc, so the two need not    *)
(* read the same line.                                                     *)
(***************************************************************************)
EXTENDS ClassSpecs, SequencesExt

CONSTANTS
    Requests,   \* the command lines to consider
    Faults      \* what may fail besides: see StartupFault

StartupFault == {"logfile", "languages", "com", "security", "registry",
                 "surrogate"}

(* A command line, as far as it decides anything: what CLI11 finds wrong   *)
(* with its shape, and the values of its options.  Where an option has a   *)
(* legacy spelling of the same effect the two are one; -ClassId, which is  *)
(* an option of its own with the destination of --clsid, is not.  All of   *)
(* this is said of the line without the options that Qt takes out of it:   *)
(* qt tells whether it ends with one, -reverse or -style fusion say, and   *)
(* whether a value comes with it.  Then no option lacks its value, for it  *)
(* would take that of Qt.                                                  *)
Line == [form      : {"plain", "help", "version", "incomplete", "extra"},
         qt        : {"none", "option", "pair"},
         classId   : {"none", "clsid", "malformed"},
         embedding : BOOLEAN,
         clsid     : Seq(Item),
         ClassId   : Seq(Item),
         timeout   : {"none", "duration", "malformed"},
         modes     : SUBSET {"single-use", "multiple-use"},
         logging   : SUBSET {"enable", "file", "dir"},
         level     : {"none", "known", "unknown"},
         registry  : SUBSET {"register", "appid", "unregister", "settings"}]

Request == {r \in Line : r.qt = "none" \/ r.form # "incomplete"}

ASSUME StartupAssumption ==
    Requests \subseteq Request /\ Faults \subseteq StartupFault

VARIABLES
    asked,      \* the command line
    at,         \* the statement of main that comes next
    parsed,     \* the result of the parse that ran last
    logger,     \* where the default logger writes, and from which level on
    handlers,   \* InstallCustomHandlers has run
    boxes,      \* kinds of message boxes the user has seen
    ended,      \* how the process has ended
    logged,     \* the reason of its end is in a log file
    role        \* what main has done in the end

startupVars == <<asked, at, parsed, logger, handlers, boxes, ended, logged, role>>

Parsed == [classId : BOOLEAN, embedding : BOOLEAN, specs : Seq(ClassSpec),
           regcls : SUBSET REGCLS, logging : SUBSET {"enable", "file", "dir"},
           level : {"none", "known", "unknown"},
           registry : SUBSET {"register", "appid", "unregister", "settings"}]

Logger == [of    : {"nobody", "surrogate", "standalone"},
           to    : {"nothing", "settings", "stderr", "file", "dir", "default"},
           level : {"info", "known", "settings"}]

Statement == {"tryParse", "logging", "line", "languages", "com", "security",
              "parse", "dispatch", "exec", "gone"}

(* ParsedResult{}                                                          *)
NothingParsed == [classId |-> FALSE, embedding |-> FALSE, specs |-> <<>>,
                  regcls |-> SINGLEUSE, logging |-> {}, level |-> "none",
                  registry |-> {}]

(***************************************************************************)
(* m_app.parse.  CLI11 runs the callbacks of the options in the order they *)
(* were added, after it has read the whole line; an error stops it there.  *)
(* A missing value, the help and the version flags come before all, the    *)
(* positional CLSID is the first option of a group, --timeout comes after  *)
(* --clsid and before everything else, and left over arguments are an      *)
(* error at the very end.                                                  *)
(***************************************************************************)
StopsAtOnce(r) ==
    r.form \in {"help", "version", "incomplete"} \/ r.classId = "malformed"

StopsAtTimeout(r) == StopsAtOnce(r) \/ r.timeout = "malformed"

(* Both options assign the list, -ClassId last.                            *)
Items(r) == IF r.ClassId # <<>> THEN r.ClassId ELSE r.clsid

Specs(items) == [i \in DOMAIN items |-> FromString(items[i])]

(* The callback of --multiple-use runs after that of --single-use.         *)
Regcls(r) == IF "multiple-use" \in r.modes THEN {"MULTIPLEUSE"} ELSE SINGLEUSE

AssignedUpToTimeout(r) ==
    [NothingParsed EXCEPT !.classId = (r.classId = "clsid"),
                          !.embedding = r.embedding,
                          !.specs = Specs(Items(r))]

Assigned(r) ==
    IF StopsAtOnce(r) THEN NothingParsed
    ELSE IF StopsAtTimeout(r) THEN AssignedUpToTimeout(r)
    ELSE [AssignedUpToTimeout(r) EXCEPT !.regcls = Regcls(r),
                                        !.logging = r.logging,
                                        !.level = r.level,
                                        !.registry = r.registry]

Complaint(r) ==
    IF r.form \in {"help", "version"} THEN r.form
    ELSE IF r.form # "plain" \/ StopsAtTimeout(r) THEN "error" ELSE "none"

(* A conversion that opens a message box is reached.                       *)
ReachesMalformed(r) ==
    /\ ~StopsAtOnce(r)
    /\ \E item \in ToSet(r.clsid) \cup ToSet(r.ClassId) : OpensBox(item)

(* What tryParse reads, before there is a QApplication: CLI11 does not     *)
(* know Qt's options, and takes the value of one for the positional CLSID  *)
(* where there is none.                                                    *)
Whole(r) ==
    [r EXCEPT !.form = IF r.qt # "none" /\ @ = "plain" THEN "extra" ELSE @,
              !.classId = IF r.qt = "pair" /\ @ = "none" THEN "malformed" ELSE @]

-----------------------------------------------------------------------------
Ends(how) ==
    /\ at' = "gone"
    /\ ended' = how

(* An exception leaves main: CustomTerminateHandler, when it is installed, *)
(* logs it; then the process is aborted.  A message on stderr is lost: the *)
(* program is one of the windows subsystem (CMakeLists.txt:97).            *)
Terminates ==
    /\ Ends("abort")
    /\ logged' = (handlers /\ logger.to # "stderr")
    /\ UNCHANGED <<asked, parsed, logger, handlers, boxes>>

(* There is no QApplication yet: Qt aborts the process that wants to open  *)
(* a message box (external).                                               *)
TryParse ==
    /\ at = "tryParse"
    /\ IF ReachesMalformed(Whole(asked))
       THEN Ends("abort") /\ UNCHANGED parsed
       ELSE at' = "logging" /\ ended' = ended /\ parsed' = Assigned(Whole(asked))
    /\ UNCHANGED <<asked, logger, handlers, boxes, logged, role>>

(***************************************************************************)
(* InitializeLoggingSurrogate takes file and level from the registry, see  *)
(* SurrogateRegistry, if logging is enabled there (whatever the registry   *)
(* says is possible here); InitializeLoggingStandalone from the command    *)
(* line.  Opening the file may throw, before there is a handler for that.  *)
(***************************************************************************)
IsSurrogate == parsed.classId /\ parsed.embedding

SurrogateLoggers ==
    {[of |-> "surrogate", to |-> "settings", level |-> "settings"],
     [of |-> "surrogate", to |-> "stderr", level |-> "info"]}

StandaloneLogger(result) ==
    [of    |-> "standalone",
     to    |-> IF "file" \in result.logging THEN "file"
               ELSE IF "dir" \in result.logging THEN "dir"
               ELSE IF "enable" \in result.logging THEN "default" ELSE "stderr",
     level |-> IF result.level = "known" THEN "known" ELSE "info"]

LoggersFor(result) ==
    IF result.classId /\ result.embedding THEN SurrogateLoggers
                                          ELSE {StandaloneLogger(result)}

(* Mutant: the handlers are left to the standalone branch.                 *)
InitializeLoggingBare ==
    /\ at = "logging"
    /\ logger' \in LoggersFor(parsed)
    /\ handlers' = ~IsSurrogate
    /\ at' = "line"
    /\ UNCHANGED <<asked, parsed, boxes, ended, logged, role>>

InitializeLogging ==
    /\ at = "logging"
    /\ logger' \in LoggersFor(parsed)
    /\ handlers' = TRUE
    /\ at' = "line"
    /\ UNCHANGED <<asked, parsed, boxes, ended, logged, role>>

LogFileFails ==
    /\ at = "logging"
    /\ "logfile" \in Faults
    /\ \E l \in LoggersFor(parsed) : l.to # "stderr"
    /\ Terminates
    /\ UNCHANGED role

(* SetPreferredLanguages, which throws only under a debugger, InitializeCom *)
(* and InitializeComSecurity.                                              *)
Following == [languages |-> "com", com |-> "security", security |-> "parse"]

Initialize ==
    /\ at \in DOMAIN Following
    /\ at' = Following[at]
    /\ UNCHANGED <<asked, parsed, logger, handlers, boxes, ended, logged, role>>

InitializeFails ==
    /\ at \in DOMAIN Following
    /\ at \in Faults
    /\ Terminates
    /\ UNCHANGED role

SpecBox == IF ReachesMalformed(asked) THEN {"spec"} ELSE {}

Parse ==
    /\ at = "parse"
    /\ Complaint(asked) = "none"
    /\ parsed' = Assigned(asked)
    /\ boxes' = boxes \cup SpecBox
    /\ at' = "dispatch"
    /\ UNCHANGED <<asked, logger, handlers, ended, logged, role>>

(* The help dialog, the about box or the error, and std::exit.             *)
ParseComplains ==
    /\ at = "parse"
    /\ Complaint(asked) # "none"
    /\ boxes' = boxes \cup SpecBox \cup {Complaint(asked)}
    /\ Ends("exit")
    /\ UNCHANGED <<asked, parsed, logger, handlers, logged, role>>

(***************************************************************************)
(* The dispatch of main: what is tested first wins.  --register also sets  *)
(* the AppID, so an AppID is set when either is given.                     *)
(***************************************************************************)
SetsAppId == {"register", "appid"} \cap parsed.registry # {}
Unregisters == ~SetsAppId /\ "unregister" \in parsed.registry
Configures == SetsAppId \/ Unregisters

Configure ==
    /\ at = "dispatch"
    /\ Configures
    /\ role' = IF SetsAppId THEN "register" ELSE "unregister"
    /\ Ends("exit")
    /\ UNCHANGED <<asked, parsed, logger, handlers, boxes, logged>>

ConfigureFails ==
    /\ at = "dispatch"
    /\ Configures
    /\ "registry" \in Faults
    /\ Terminates
    /\ UNCHANGED role

(* Mutant: classes on the command line are looked at first.                *)
RunAsSurrogateSecond ==
    /\ at = "dispatch"
    /\ ~Configures /\ IsSurrogate
    /\ role' = IF parsed.specs # <<>> THEN "standalone" ELSE "surrogate"
    /\ at' = "exec"
    /\ UNCHANGED <<asked, parsed, logger, handlers, boxes, ended, logged>>

RunAsSurrogate ==
    /\ at = "dispatch"
    /\ ~Configures /\ IsSurrogate
    /\ role' = "surrogate"
    /\ at' = "exec"
    /\ UNCHANGED <<asked, parsed, logger, handlers, boxes, ended, logged>>

(* CoRegisterSurrogate fails in the constructor.                           *)
RunAsSurrogateFails ==
    /\ at = "dispatch"
    /\ ~Configures /\ IsSurrogate
    /\ "surrogate" \in Faults
    /\ Terminates
    /\ UNCHANGED role

(* From here on RunAsStandalone, with the Command of the second parse.     *)
HostedCommand == [specs |-> parsed.specs, regcls |-> parsed.regcls]

RunAsStandalone ==
    /\ at = "dispatch"
    /\ ~Configures /\ ~IsSurrogate
    /\ HostedCommand.specs # <<>>
    /\ role' = "standalone"
    /\ at' = "exec"
    /\ UNCHANGED <<asked, parsed, logger, handlers, boxes, ended, logged>>

ReturnAtOnce ==
    /\ at = "dispatch"
    /\ ~Configures /\ ~IsSurrogate
    /\ parsed.specs = <<>>
    /\ Ends("exit")
    /\ UNCHANGED <<asked, parsed, logger, handlers, boxes, logged, role>>

StartupStep ==
    \/ TryParse
    \/ InitializeLogging \/ LogFileFails
    \/ Initialize \/ InitializeFails
    \/ Parse \/ ParseComplains
    \/ Configure \/ ConfigureFails
    \/ RunAsSurrogate \/ RunAsSurrogateFails
    \/ RunAsStandalone
    \/ ReturnAtOnce

(* The log line is written: see CommandLineText.                           *)
LineIsWritten ==
    /\ at = "line"
    /\ at' = "languages"
    /\ UNCHANGED <<asked, parsed, logger, handlers, boxes, ended, logged, role>>

StartupInit ==
    /\ at = "tryParse"
    /\ parsed = NothingParsed
    /\ logger = [of |-> "nobody", to |-> "nothing", level |-> "info"]
    /\ handlers = FALSE
    /\ boxes = {}
    /\ ended = "not"
    /\ logged = FALSE
    /\ role = "none"

-----------------------------------------------------------------------------
StartupTypeOK ==
    /\ asked \in Request
    /\ at \in Statement
    /\ parsed \in Parsed
    /\ logger \in Logger
    /\ handlers \in BOOLEAN /\ logged \in BOOLEAN
    /\ boxes \subseteq {"spec", "help", "version", "error"}
    /\ ended \in {"not", "exit", "abort"}
    /\ role \in {"none", "register", "unregister", "surrogate", "standalone"}

(* The value of a Qt option is taken for the CLSID: the first parse fails  *)
(* before it has read any other option, the second does not.               *)
Misled == asked.qt = "pair" /\ asked.classId = "none"

(* The logger is set up from the first parse and the role from the second: *)
(* a process that serves classes logs as the command line asks for its     *)
(* role.  A surrogate logs by the registry; a standalone host to stderr    *)
(* unless told otherwise, to the file rather than to the directory, and at *)
(* the level given, if that is one.  The exception is a standalone host    *)
(* whose line ends with a Qt option and its value: it serves its classes,  *)
(* but nothing it was told of logging has been heard.                      *)
LoggingAsAsked ==
    /\ role = "surrogate" => logger.of = "surrogate"
    /\ role = "standalone" =>
          /\ logger.of = "standalone"
          /\ logger.to = "stderr" <=> asked.logging = {} \/ Misled
          /\ "file" \in asked.logging /\ ~Misled => logger.to = "file"
          /\ "dir" \in asked.logging /\ ~Misled => logger.to \in {"file", "dir"}
          /\ logger.level = "known" <=> asked.level = "known" /\ ~Misled

(* What README:66-82 says of the flags: defaults for fields left out, r    *)
(* taken exactly as given, REGCLS_MULTI_SEPARATE and the mode otherwise.   *)
DocumentedRegcls(item, suspend) ==
    IF item.r # {} THEN UNION item.r
    ELSE {"MULTI_SEPARATE"}
         \cup (IF "multiple-use" \in asked.modes THEN {"MULTIPLEUSE"} ELSE {})
         \cup (IF suspend THEN {"SUSPENDED"} ELSE {})

Or(flags, default) == IF flags = {} THEN default ELSE flags

(* The text of a specification goes through the conversion, the callbacks  *)
(* of the mode flags and sanitize, each with an idea of its own of what    *)
(* was left out: in the end every class is registered as documented.  And  *)
(* the runtime, which decides between the two modes from the flags before  *)
(* they are sanitized, is in multiple-use mode if any class comes out so.  *)
ClassesAsDocumented ==
    role = "standalone" =>
        \A i \in DOMAIN HostedCommand.specs, suspend \in BOOLEAN :
            LET item == Items(asked)[i]
                spec == Sanitize(HostedCommand.specs[i],
                                 GlobalRegcls(HostedCommand.regcls, suspend))
            IN /\ spec.regcls = DocumentedRegcls(item, suspend)
               /\ spec.create = Or(UNION item.cc, {"INPROC_SERVER"})
               /\ spec.register = Or(UNION item.cr, {"LOCAL_SERVER"})
               /\ spec.alias = IF item.a = "other" THEN "other" ELSE "clsid"
               /\ "MULTIPLEUSE" \in spec.regcls => HasMultipleUse(HostedCommand)

(* Nothing on the command line asks for anything: no class to host or to   *)
(* configure, no SCM.  README:48 and 157 call this the surrogate mode, but *)
(* main returns at once (main.cc:137-139).                                 *)
NothingAsked ==
    /\ asked.form = "plain"
    /\ asked.classId # "malformed" /\ asked.timeout # "malformed"
    /\ ~(asked.classId = "clsid" /\ asked.embedding)
    /\ asked.clsid = <<>> /\ asked.ClassId = <<>>
    /\ asked.registry \subseteq {"settings"}

(* Before the logger is set up there are two ways to end: opening a box    *)
(* for a malformed class, without a QApplication, and a log file that      *)
(* cannot be opened.                                                       *)
EndedEarly ==
    /\ logger.of = "nobody"
    /\ \/ ReachesMalformed(Whole(asked))
       \/ \E l \in LoggersFor(parsed) : l.to # "stderr"

(* A process that has a log file does not end without a trace: it has done *)
(* what it was asked for, has told the user in a box, or has left the      *)
(* reason in its file, although errors of the first parse are swallowed    *)
(* and exceptions leave main.  Without a log file, which is the default, a *)
(* call that fails ends the process with a message nobody sees; nor does a *)
(* process leave anything that ends before its logger is set up, or that   *)
(* was asked for nothing.                                                  *)
NoSilentEnd ==
    at = "gone" =>
        \/ role # "none" \/ boxes # {} \/ logged
        \/ logger.to = "stderr" \/ EndedEarly \/ NothingAsked
=============================================================================
