----------------------------- MODULE CliStartup -----------------------------
(***************************************************************************)
(* Start-up of the rhc command line, up to the first line of a command's   *)
(* action: main() computes the default --config path with ConfigPath       *)
(* (pkg/config/config.go), urfave/cli runs beforeAction (unnamed/part_000) *)
(* which reads the TOML file through altsrc and sets config.Global's log   *)
(* level, then the command's Before hook (CheckForUnknownArgs,             *)
(* SetupFormatOption) and finally the action's ConfigureUISettings         *)
(* (unnamed/part_001).                                                     *)
(*                                                                         *)
(* The only other actor is a process editing /etc/rhc/config.toml between  *)
(* main's os.Stat and altsrc's open (FileEdit, bounded).  The file is      *)
(* abstracted to the log-level text it gives, or to why it cannot be read. *)
(* Log-level text is a record [base, offset]: slog's UnmarshalText accepts *)
(* a level name (case-insensitively) followed by an optional +n / -n.      *)
(* The command modules (Disconnect, Connect, Status) EXTEND this module.   *)
(***************************************************************************)
EXTENDS Integers

CONSTANTS
    LevelTexts,       \* log-level strings a user or the file may give
    CliLevels,        \* --log-level on the command line: a text or NotSet
    Formats,          \* values of --format ("none" stands for the empty flag)
    NotSet,           \* a flag not given / a key not in the file
    Missing,          \* the config file does not exist
    Unreadable,       \* opening or reading it fails otherwise
    Malformed,        \* it is not TOML altsrc can apply
    ExitCodeDataErr,  \* config.ExitCodeDataErr
    MaxFileEdits      \* bound on edits of the config file during start-up

(* slog.Level values of the names UnmarshalText knows. *)
SlogLevels == [DEBUG |-> -4, INFO |-> 0, WARN |-> 4, ERROR |-> 8]
LevelError == SlogLevels.ERROR

(* The states of /etc/rhc/config.toml as altsrc sees it: a document giving *)
(* a log-level text, or none (NotSet), or a failure.                        *)
ConfigFileStates == LevelTexts \cup {NotSet, Missing, Unreadable, Malformed}

ASSUME CliStartupAssumption ==
    /\ LevelTexts \subseteq [base : STRING, offset : Int]
    /\ CliLevels \subseteq LevelTexts \cup {NotSet}
    /\ {"none", "json"} \subseteq Formats
    /\ ExitCodeDataErr \in Nat \ {0, 1}
    /\ MaxFileEdits \in Nat

(* slog.Level.UnmarshalText: does the text parse, and to which level. *)
ParsesAsLevel(t) == t.base \in DOMAIN SlogLevels
LevelOf(t) == SlogLevels[t.base] + t.offset

(* The flag's default, Value: "info". *)
DefaultLevelText == [base |-> "INFO", offset |-> 0]

VARIABLES
    configFile,      \* /etc/rhc/config.toml
    fileEdits,       \* edits made so far by other processes
    cliLevel,        \* --log-level given on the command line, or NotSet
    format,          \* --format of the command
    extraArgs,       \* the command was given positional arguments
    pc,              \* where the process is
    configPath,      \* the --config flag's default, from ConfigPath
    logLevel,        \* config.Global.LogLevel
    machineReadable, \* uiSettings.IsMachineReadable inside the action
    exitCode         \* the process' exit status, once pc = "exit"

startupVars == <<configFile, fileEdits, cliLevel, format, extraArgs, pc,
                 configPath, logLevel, machineReadable, exitCode>>

StartupInit ==
    /\ configFile \in ConfigFileStates
    /\ fileEdits = 0
    /\ cliLevel \in CliLevels
    /\ format \in Formats
    /\ extraArgs \in BOOLEAN
    /\ pc = "main"
    /\ configPath = NotSet
    /\ logLevel = 0
    /\ machineReadable = FALSE
    /\ exitCode = 0

(* The process ends with status code. *)
Exit(code) ==
    /\ pc' = "exit"
    /\ exitCode' = code

(* main: ConfigPath stats the default file; only a not-exist error makes *)
(* the --config default empty, every other outcome keeps the path.       *)
ConfigPath ==
    /\ pc = "main"
    /\ configPath' = IF configFile = Missing THEN NotSet ELSE "/etc/rhc/config.toml"
    /\ pc' = "before"
    /\ UNCHANGED <<configFile, fileEdits, cliLevel, format, extraArgs,
                   logLevel, machineReadable, exitCode>>

(* The text c.String("log-level") returns after altsrc applied the file: *)
(* the command line's if set, else the file's if it has one, else the    *)
(* flag default.                                                           *)
LevelText(file, cli) ==
    IF cli /= NotSet THEN cli ELSE IF file \in LevelTexts THEN file ELSE DefaultLevelText

(* beforeAction: open and apply the --config file (any error ends rhc     *)
(* with status 1 in main), then UnmarshalText the level, INFO on error.   *)
BeforeAction ==
    /\ pc = "before"
    /\ IF configPath /= NotSet /\ configFile \in {Missing, Unreadable, Malformed}
          THEN /\ Exit(1)
               /\ UNCHANGED logLevel
          ELSE LET file == IF configPath = NotSet THEN NotSet ELSE configFile
                   t == LevelText(file, cliLevel)
               IN  /\ logLevel' = IF ParsesAsLevel(t) THEN LevelOf(t) ELSE SlogLevels.INFO
                   /\ pc' = "command"
                   /\ UNCHANGED exitCode
    /\ UNCHANGED <<configFile, fileEdits, cliLevel, format, extraArgs,
                   configPath, machineReadable>>

(* SetupFormatOption's switch: the empty --format and "json" pass. *)
SupportedFormats == {"none", "json"}

(* The command's Before hook: CheckForUnknownArgs, then SetupFormatOption *)
(* on a local copy of the UI settings; an unknown format exits with       *)
(* ExitCodeDataErr, any other error with 1.                                *)
CommandBefore ==
    /\ pc = "command"
    /\ \/ /\ extraArgs
          /\ Exit(1)
       \/ /\ ~extraArgs
          /\ format \notin SupportedFormats
          /\ Exit(ExitCodeDataErr)
       \/ /\ ~extraArgs
          /\ format \in SupportedFormats
          /\ pc' = "ui"
          /\ UNCHANGED exitCode
    /\ UNCHANGED <<configFile, fileEdits, cliLevel, format, extraArgs,
                   configPath, logLevel, machineReadable>>

(* A variant that builds the settings from --format, as SetupFormatOption *)
(* meant them to be.                                                      *)
ConfigureUISettingsHonoursFormat(fmt) == [IsMachineReadable |-> fmt = "json"]

(* ConfigureUISettings: both branches (no-color or not) build settings    *)
(* with IsMachineReadable FALSE; --format is not consulted.                *)
ConfigureUISettings(fmt) == [IsMachineReadable |-> FALSE]

(* The first line of every action: uiSettings := ConfigureUISettings(ctx). *)
ConfigureUI ==
    /\ pc = "ui"
    /\ machineReadable' = ConfigureUISettings(format).IsMachineReadable
    /\ pc' = "action"
    /\ UNCHANGED <<configFile, fileEdits, cliLevel, format, extraArgs,
                   configPath, logLevel, exitCode>>

(* Another process replaces, removes or breaks the config file.           *)
FileEdit ==
    /\ pc \in {"main", "before"}
    /\ fileEdits < MaxFileEdits
    /\ fileEdits' = fileEdits + 1
    /\ configFile' \in ConfigFileStates \ {configFile}
    /\ UNCHANGED <<cliLevel, format, extraArgs, pc, configPath, logLevel,
                   machineReadable, exitCode>>

Startup == ConfigPath \/ BeforeAction \/ CommandBefore \/ ConfigureUI

(* Start-up alone: it ends in an action or with an exit status. *)
StartupSpec == StartupInit /\ [][Startup \/ FileEdit]_startupVars /\ WF_startupVars(Startup)

-----------------------------------------------------------------------------

StartupPcs == {"main", "before", "command", "ui", "action", "exit"}

(* The start-up variables have their types (pc is left to each command). *)
StartupTypeOK ==
    /\ configFile \in ConfigFileStates
    /\ fileEdits \in 0..MaxFileEdits
    /\ cliLevel \in CliLevels
    /\ format \in Formats
    /\ extraArgs \in BOOLEAN
    /\ configPath \in {NotSet, "/etc/rhc/config.toml"}
    /\ logLevel \in Int
    /\ machineReadable \in BOOLEAN
    /\ exitCode \in Nat

(* A config file that does not exist is optional: it never stops rhc      *)
(* (ConfigPath's not-exist branch, pkg/config/config.go).                 *)
MissingConfigFileNeverStopsRhc ==
    ~(pc = "exit" /\ exitCode = 1 /\ ~extraArgs /\ configFile = Missing)

(* --format json makes the action machine-readable (the flag's Usage:    *)
(* "prints output ... in machine-readable format").                      *)
FormatJsonIsMachineReadable ==
    (pc = "action" /\ format = "json") => machineReadable

=============================================================================
