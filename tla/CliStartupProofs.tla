------------------------- MODULE CliStartupProofs --------------------------
(***************************************************************************)
(* Proofs about rhc's start-up (module CliStartup) for every instance of  *)
(* the constants, and the facts about the start-up steps that the proofs  *)
(* of the commands (StatusProofs, ConnectProofs) cite: a start-up step    *)
(* keeps the types, never makes the output machine-readable, and ends the *)
(* process only with status 1 or ExitCodeDataErr, never 0.                *)
(***************************************************************************)
EXTENDS CliStartup, TLAPS

(* The pcs start-up steps from, and the ones it reaches. *)
StartupFrom == {"main", "before", "command", "ui"}
StartupTo == {"before", "command", "ui", "action", "exit"}

(* A level text that parses gives an integer level. *)
LEMMA ParsedLevelType ==
    ASSUME NEW t \in LevelTexts, ParsesAsLevel(t)
    PROVE  LevelOf(t) \in Int
BY CliStartupAssumption DEF ParsesAsLevel, LevelOf, SlogLevels

(* The level beforeAction sets is an integer, whatever text it is given. *)
LEMMA LevelSetType ==
    ASSUME NEW file \in ConfigFileStates \cup {NotSet}
    PROVE  LET t == LevelText(file, cliLevel)
           IN  cliLevel \in CliLevels =>
                  (IF ParsesAsLevel(t) THEN LevelOf(t) ELSE SlogLevels.INFO) \in Int
<1> SUFFICES ASSUME cliLevel \in CliLevels
             PROVE  LET t == LevelText(file, cliLevel)
                    IN  (IF ParsesAsLevel(t) THEN LevelOf(t) ELSE SlogLevels.INFO) \in Int
  OBVIOUS
<1> DEFINE t == LevelText(file, cliLevel)
<1>1. t \in LevelTexts \/ t = DefaultLevelText
  BY CliStartupAssumption DEF LevelText, ConfigFileStates
<1>2. CASE t \in LevelTexts
  BY <1>2, ParsedLevelType DEF SlogLevels
<1>3. CASE t = DefaultLevelText
  BY <1>3 DEF LevelOf, DefaultLevelText, SlogLevels
<1>4. QED
  BY <1>1, <1>2, <1>3

(* The initial state of start-up is well typed and in human mode. *)
LEMMA StartupInitTypeOK ==
    ASSUME StartupInit
    PROVE  StartupTypeOK /\ machineReadable = FALSE /\ pc = "main"
<1>1. fileEdits \in 0..MaxFileEdits
  BY CliStartupAssumption DEF StartupInit
<1>2. configPath \in {NotSet, "/etc/rhc/config.toml"} /\ logLevel \in Int /\ exitCode \in Nat
  BY DEF StartupInit
<1>3. QED
  BY <1>1, <1>2, Zenon DEF StartupInit, StartupTypeOK

(* A start-up step (or an edit of the config file) keeps the types and    *)
(* human mode, leaves the pcs of start-up only forward, and ends the      *)
(* process only with a non-zero status.                                   *)
LEMMA StartupStep ==
    ASSUME StartupTypeOK, machineReadable = FALSE, Startup \/ FileEdit
    PROVE  /\ StartupTypeOK'
           /\ machineReadable' = FALSE
           /\ pc \in StartupFrom
           /\ pc' \in StartupTo \cup {pc}
           /\ pc' = "exit" => exitCode' \in {1, ExitCodeDataErr}
           /\ UNCHANGED <<cliLevel, format, extraArgs>>
<1>1. CASE ConfigPath
  BY <1>1 DEF ConfigPath, StartupTypeOK, StartupFrom, StartupTo
<1>2. CASE BeforeAction
  <2>1. CASE configPath /= NotSet /\ configFile \in {Missing, Unreadable, Malformed}
    BY <1>2, <2>1, CliStartupAssumption DEF BeforeAction, Exit, StartupTypeOK,
       StartupFrom, StartupTo
  <2>2. CASE ~(configPath /= NotSet /\ configFile \in {Missing, Unreadable, Malformed})
    <3> DEFINE file == IF configPath = NotSet THEN NotSet ELSE configFile
    <3>1. file \in ConfigFileStates \cup {NotSet}
      BY DEF StartupTypeOK
    <3>2. LET t == LevelText(file, cliLevel)
          IN  (IF ParsesAsLevel(t) THEN LevelOf(t) ELSE SlogLevels.INFO) \in Int
      BY <3>1, LevelSetType DEF StartupTypeOK
    <3>3. QED
      BY <1>2, <2>2, <3>2 DEF BeforeAction, StartupTypeOK, StartupFrom, StartupTo
  <2>3. QED
    BY <2>1, <2>2
<1>3. CASE CommandBefore
  BY <1>3, CliStartupAssumption DEF CommandBefore, Exit, StartupTypeOK, StartupFrom, StartupTo
<1>4. CASE ConfigureUI
  BY <1>4 DEF ConfigureUI, ConfigureUISettings, StartupTypeOK, StartupFrom, StartupTo
<1>5. CASE FileEdit
  BY <1>5, CliStartupAssumption DEF FileEdit, ConfigFileStates, StartupTypeOK, StartupFrom
<1>6. QED
  BY <1>1, <1>2, <1>3, <1>4, <1>5 DEF Startup

=============================================================================
