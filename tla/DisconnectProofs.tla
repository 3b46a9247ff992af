-------------------------- MODULE DisconnectProofs --------------------------
(***************************************************************************)
(* Proofs about rhc disconnect (module Disconnect) for every instance of  *)
(* the constants: its type, that its claims are true, that the result and *)
(* the errorMessages map agree, that a shown failure exits 1, and that it *)
(* implements HostDisconnect.                                             *)
(*                                                                         *)
(* None of these is inductive alone: a step may only mark a service that  *)
(* has not been visited yet, and the exit status of ShowErrorMessages is  *)
(* only 1 because the action runs in human mode.  IInv adds both facts.   *)
(***************************************************************************)
EXTENDS Disconnect, TLAPS

(* The Insights step always leaves a mark: done or failed. *)
InsightsVisited == result.insightsDisconnected \/ result.insightsError

(* The services disconnect has not visited yet, read off pc; at "exit"   *)
(* none was visited when start-up failed.                                *)
Unvisited ==
    {st \in Steps :
        \/ pc \in {"main", "before", "command", "ui", "action", "disconnect-service"}
        \/ pc = "disconnect-insights" /\ st /= "yggdrasil"
        \/ pc = "disconnect-rhsm" /\ st = "rhsm"
        \/ pc = "exit" /\ ~InsightsVisited}

(* A service not yet visited carries no mark. *)
UnvisitedUnmarked ==
    /\ "yggdrasil" \in Unvisited =>
          ~result.yggdrasilStopped /\ ~result.yggdrasilError /\ "yggdrasil" \notin errorMessages
    /\ "insights" \in Unvisited =>
          ~result.insightsDisconnected /\ ~result.insightsError /\ "insights" \notin errorMessages
    /\ "rhsm" \in Unvisited =>
          ~result.rhsmDisconnected /\ ~result.rhsmError /\ "rhsm" \notin errorMessages

(* The inductive invariant. *)
IInv ==
    /\ TypeOK
    /\ machineReadable = FALSE
    /\ ClaimsAreTrue
    /\ ErrorsRecordedConsistently
    /\ UnvisitedUnmarked
    /\ pc \in {"disconnect-rhsm", "show-errors"} => InsightsVisited
    /\ FailureExitsNonZeroUnlessSilenced

(* A level text that parses gives an integer level. *)
LEMMA LevelOfType ==
    ASSUME NEW t \in LevelTexts, ParsesAsLevel(t)
    PROVE  LevelOf(t) \in Int
BY CliStartupAssumption DEF ParsesAsLevel, LevelOf, SlogLevels

(* The initial states satisfy IInv. *)
LEMMA InitIInv == Init => IInv
<1> SUFFICES ASSUME Init PROVE IInv
  OBVIOUS
<1>1. StartupTypeOK
  <2>1. fileEdits \in 0..MaxFileEdits
    BY CliStartupAssumption DEF Init, StartupInit
  <2>2. configPath \in {NotSet, "/etc/rhc/config.toml"} /\ logLevel \in Int /\ exitCode \in Nat
    BY DEF Init, StartupInit
  <2>3. QED
    BY <2>1, <2>2, Zenon DEF Init, StartupInit, StartupTypeOK, ConfigFileStates
<1>2. result = NoResult /\ NoResult \in Results
  BY DEF Init, NoResult, Results
<1>3. TypeOK
  BY <1>1, <1>2 DEF Init, StartupInit, TypeOK, StartupPcs
<1>4. UnvisitedUnmarked
  BY <1>2 DEF Init, NoResult, UnvisitedUnmarked
<1>5. errorMessages = {}
  BY DEF Init
<1>6. ClaimsAreTrue /\ ErrorsRecordedConsistently
  <2>1. /\ result.yggdrasilStopped = FALSE /\ result.yggdrasilError = FALSE
        /\ result.insightsDisconnected = FALSE /\ result.insightsError = FALSE
        /\ result.rhsmDisconnected = FALSE /\ result.rhsmError = FALSE
    BY <1>2 DEF NoResult
  <2>2. ClaimsAreTrue
    BY <2>1 DEF ClaimsAreTrue
  <2>3. "yggdrasil" \notin errorMessages /\ "insights" \notin errorMessages
        /\ "rhsm" \notin errorMessages
    BY <1>5
  <2>4. ErrorsRecordedConsistently
    BY <2>1, <2>3 DEF ErrorsRecordedConsistently
  <2>5. QED
    BY <2>2, <2>4
<1>7. FailureExitsNonZeroUnlessSilenced /\ machineReadable = FALSE
  BY DEF Init, StartupInit, FailureExitsNonZeroUnlessSilenced
<1>8. ~(pc \in {"disconnect-rhsm", "show-errors"})
  BY DEF Init, StartupInit
<1>9. QED
  BY <1>3, <1>4, <1>6, <1>7, <1>8 DEF IInv

(* Before the service step nothing is marked. *)
PreVisit == {"main", "before", "command", "ui", "action", "disconnect-service"}

NothingMarked ==
    /\ result.yggdrasilStopped = FALSE /\ result.yggdrasilError = FALSE
    /\ result.insightsDisconnected = FALSE /\ result.insightsError = FALSE
    /\ result.rhsmDisconnected = FALSE /\ result.rhsmError = FALSE
    /\ errorMessages = {}

LEMMA PreVisitNothingMarked ==
    ASSUME IInv, pc \in PreVisit
    PROVE  NothingMarked
<1>1. Steps \subseteq Unvisited
  BY DEF Unvisited, PreVisit
<1>2. result \in Results /\ errorMessages \subseteq Steps
  BY DEF IInv, TypeOK
<1>3. /\ ~result.yggdrasilStopped /\ ~result.yggdrasilError /\ "yggdrasil" \notin errorMessages
      /\ ~result.insightsDisconnected /\ ~result.insightsError /\ "insights" \notin errorMessages
      /\ ~result.rhsmDisconnected /\ ~result.rhsmError /\ "rhsm" \notin errorMessages
  BY <1>1, Zenon DEF IInv, UnvisitedUnmarked, Steps
<1>4. errorMessages = {}
  BY <1>2, <1>3 DEF Steps
<1>5. QED
  BY <1>2, <1>3, <1>4 DEF NothingMarked, Results

(* A step into a state where nothing is marked and the action is not past *)
(* the Insights step keeps IInv, given the type and human mode.          *)
LEMMA NothingMarkedIInv ==
    ASSUME TypeOK', machineReadable' = FALSE, NothingMarked',
           pc' \notin {"disconnect-rhsm", "show-errors"}
    PROVE  IInv'
<1>1. ClaimsAreTrue' /\ ErrorsRecordedConsistently'
  BY DEF NothingMarked, ClaimsAreTrue, ErrorsRecordedConsistently
<1>2. UnvisitedUnmarked'
  BY DEF NothingMarked, UnvisitedUnmarked
<1>3. FailureExitsNonZeroUnlessSilenced'
  BY DEF NothingMarked, FailureExitsNonZeroUnlessSilenced
<1>4. QED
  BY <1>1, <1>2, <1>3 DEF IInv

(* The start-up steps keep IInv: they leave the action's variables alone, *)
(* and the only variable they set that IInv constrains is the log level.  *)
LEMMA StartupIInv ==
    ASSUME IInv, Startup \/ FileEdit, UNCHANGED disconnectVars
    PROVE  IInv'
<1> USE DEF IInv
<1>1. pc \in PreVisit \cup {"exit"}
  BY DEF Startup, FileEdit, ConfigPath, BeforeAction, CommandBefore, ConfigureUI, PreVisit
<1>2. pc \in PreVisit
  BY <1>1 DEF Startup, FileEdit, ConfigPath, BeforeAction, CommandBefore, ConfigureUI, PreVisit
<1>3. NothingMarked'
  BY <1>2, PreVisitNothingMarked DEF NothingMarked, disconnectVars
<1>4. pc' \in PreVisit \cup {"exit"}
  BY DEF Startup, FileEdit, ConfigPath, BeforeAction, CommandBefore, ConfigureUI, Exit, PreVisit
<1>5. machineReadable' = FALSE
  BY DEF Startup, FileEdit, ConfigPath, BeforeAction, CommandBefore, ConfigureUI,
         ConfigureUISettings
<1>6. StartupTypeOK'
  <2> USE DEF TypeOK, StartupTypeOK
  <2>1. CASE ConfigPath
    BY <2>1 DEF ConfigPath
  <2>2. CASE BeforeAction
    <3>1. CASE configPath /= NotSet /\ configFile \in {Missing, Unreadable, Malformed}
      BY <2>2, <3>1, CliStartupAssumption DEF BeforeAction, Exit
    <3>2. CASE ~(configPath /= NotSet /\ configFile \in {Missing, Unreadable, Malformed})
      <4> DEFINE file == IF configPath = NotSet THEN NotSet ELSE configFile
                 t == LevelText(file, cliLevel)
      <4>1. t \in LevelTexts \/ t = DefaultLevelText
        BY CliStartupAssumption DEF LevelText
      <4>2. (IF ParsesAsLevel(t) THEN LevelOf(t) ELSE SlogLevels.INFO) \in Int
        <5>1. CASE t \in LevelTexts
          BY <5>1, LevelOfType DEF SlogLevels
        <5>2. CASE t = DefaultLevelText
          BY <5>2 DEF LevelOf, DefaultLevelText, SlogLevels
        <5>3. QED
          BY <4>1, <5>1, <5>2
      <4>3. QED
        BY <2>2, <3>2, <4>2 DEF BeforeAction
    <3>3. QED
      BY <3>1, <3>2
  <2>3. CASE CommandBefore
    BY <2>3, CliStartupAssumption DEF CommandBefore, Exit
  <2>4. CASE ConfigureUI
    BY <2>4 DEF ConfigureUI, ConfigureUISettings
  <2>5. CASE FileEdit
    BY <2>5, CliStartupAssumption DEF FileEdit, ConfigFileStates
  <2>6. QED
    BY <2>1, <2>2, <2>3, <2>4, <2>5 DEF Startup
<1>7. TypeOK'
  BY <1>4, <1>6 DEF TypeOK, disconnectVars, PreVisit, StartupPcs
<1>8. QED
  BY <1>3, <1>4, <1>5, <1>7, NothingMarkedIInv DEF PreVisit

(* The part of the state no step of the action touches. *)
StartupFrame ==
    UNCHANGED <<configFile, fileEdits, cliLevel, format, extraArgs, configPath,
                logLevel, machineReadable, exitCode>>

LEMMA StepFrame ==
    ASSUME NEW from, NEW to, Step(from, to)
    PROVE  StartupFrame /\ pc = from /\ pc' = to
BY DEF Step, StartupFrame

LEMMA FrameStartupTypeOK ==
    ASSUME StartupTypeOK, StartupFrame
    PROVE  StartupTypeOK'
BY DEF StartupTypeOK, StartupFrame

LEMMA CollectSystemInfoIInv ==
    ASSUME IInv, CollectSystemInfo
    PROVE  IInv'
<1>1. NothingMarked
  BY PreVisitNothingMarked DEF CollectSystemInfo, PreVisit
<1>2. StartupFrame /\ pc' = "disconnect-service"
  BY DEF CollectSystemInfo, StartupFrame
<1>3. result' \in Results /\ NothingMarked'
  BY <1>1 DEF IInv, TypeOK, CollectSystemInfo, Results, NothingMarked
<1>4. TypeOK'
  BY <1>2, <1>3, FrameStartupTypeOK DEF IInv, TypeOK, CollectSystemInfo, StartupPcs
<1>5. QED
  BY <1>2, <1>3, <1>4, NothingMarkedIInv DEF IInv, StartupFrame

(* The service step marks yggdrasil only: done when the service is not   *)
(* active afterwards, failed with a map entry otherwise (or nothing when  *)
(* the state check failed).                                               *)
LEMMA DisconnectServiceIInv ==
    ASSUME IInv, DisconnectService
    PROVE  IInv'
<1>1. StartupFrame /\ pc = "disconnect-service" /\ pc' = "disconnect-insights"
  BY StepFrame DEF DisconnectService
<1>2. NothingMarked /\ TypeOK /\ machineReadable = FALSE
  BY <1>1, PreVisitNothingMarked DEF PreVisit, IInv
<1>3. UNCHANGED <<insightsRegistered, rhsmRegistered, shown, jsonPrinted>>
  BY DEF DisconnectService
<1> DEFINE Ygg == /\ result' \in Results
                  /\ errorMessages' \subseteq {"yggdrasil"}
                  /\ serviceActive' \in BOOLEAN
                  /\ result'.yggdrasilStopped => ~serviceActive'
                  /\ ("yggdrasil" \in errorMessages') <=> result'.yggdrasilError
                  /\ result'.yggdrasilError => ~result'.yggdrasilStopped
                  /\ result'.insightsDisconnected = FALSE /\ result'.insightsError = FALSE
                  /\ result'.rhsmDisconnected = FALSE /\ result'.rhsmError = FALSE
<1>4. Ygg
  <2> USE <1>2 DEF NothingMarked, TypeOK, Results
  <2>1. CASE UNCHANGED <<serviceActive, result, errorMessages>>
    BY <2>1
  <2>2. CASE /\ ~serviceActive
             /\ result' = [result EXCEPT !.yggdrasilStopped = TRUE]
             /\ UNCHANGED <<serviceActive, errorMessages>>
    BY <2>2
  <2>3. CASE /\ serviceActive' = FALSE
             /\ result' = [result EXCEPT !.yggdrasilStopped = TRUE]
             /\ UNCHANGED errorMessages
    BY <2>3
  <2>4. CASE /\ result' = [result EXCEPT !.yggdrasilStopped = FALSE, !.yggdrasilError = TRUE]
             /\ errorMessages' = errorMessages \cup {"yggdrasil"}
             /\ UNCHANGED serviceActive
    BY <2>4
  <2>5. QED
    BY <2>1, <2>2, <2>3, <2>4 DEF DisconnectService
<1>5. TypeOK'
  <2>1. StartupTypeOK'
    BY <1>1, <1>2, FrameStartupTypeOK DEF TypeOK
  <2>2. shown' \subseteq errorMessages'
    BY <1>2, <1>3 DEF TypeOK, NothingMarked
  <2>3. QED
    BY <1>1, <1>2, <1>3, <1>4, <2>1, <2>2 DEF TypeOK, StartupPcs, Steps
<1>6. ClaimsAreTrue' /\ ErrorsRecordedConsistently'
  BY <1>3, <1>4 DEF ClaimsAreTrue, ErrorsRecordedConsistently
<1>7. UnvisitedUnmarked'
  BY <1>1, <1>4 DEF UnvisitedUnmarked, Unvisited
<1>8. QED
  BY <1>1, <1>2, <1>5, <1>6, <1>7 DEF IInv, StartupFrame, FailureExitsNonZeroUnlessSilenced

(* What DisconnectFromInsights does: the insights registration, result fields *)
(* and map entry stay consistent, the visit leaves a mark, and nothing   *)
(* else of the result or the map changes.                                 *)
InsightsUnregistered ==
    /\ result' \in Results
    /\ errorMessages' \in {errorMessages, errorMessages \cup {"insights"}}
    /\ insightsRegistered' \in BOOLEAN
    /\ result'.insightsDisconnected => ~insightsRegistered'
    /\ ~result'.insightsDisconnected => UNCHANGED insightsRegistered
    /\ ("insights" \in errorMessages') <=> result'.insightsError
    /\ result'.insightsError => ~result'.insightsDisconnected
    /\ result'.insightsDisconnected \/ result'.insightsError
    /\ \A f \in DOMAIN result \ {"insightsDisconnected", "insightsError"} : result'[f] = result[f]

LEMMA DisconnectFromInsightsVisits ==
    ASSUME result \in Results, insightsRegistered \in BOOLEAN,
           result.insightsDisconnected = FALSE, result.insightsError = FALSE, "insights" \notin errorMessages,
           Unregister(insightsRegistered, "insightsDisconnected", "insightsError", "insights")
    PROVE  InsightsUnregistered
<1> USE DEF Results, InsightsUnregistered
<1>1. CASE /\ result' = [result EXCEPT !.insightsError = TRUE]
           /\ errorMessages' = errorMessages \cup {"insights"}
           /\ UNCHANGED insightsRegistered
  BY <1>1
<1>2. CASE /\ ~insightsRegistered
           /\ result' = [result EXCEPT !.insightsDisconnected = TRUE]
           /\ UNCHANGED <<insightsRegistered, errorMessages>>
  BY <1>2
<1>3. CASE /\ insightsRegistered' = FALSE
           /\ result' = [result EXCEPT !.insightsDisconnected = TRUE]
           /\ UNCHANGED errorMessages
  BY <1>3
<1>4. CASE /\ result' = [result EXCEPT !.insightsDisconnected = FALSE, !.insightsError = TRUE]
           /\ errorMessages' = errorMessages \cup {"insights"}
           /\ UNCHANGED insightsRegistered
  BY <1>4
<1>5. QED
  BY <1>1, <1>2, <1>3, <1>4 DEF Unregister

(* What DisconnectFromRHSM does: the rhsm registration, result fields *)
(* and map entry stay consistent, the visit leaves a mark, and nothing   *)
(* else of the result or the map changes.                                 *)
RHSMUnregistered ==
    /\ result' \in Results
    /\ errorMessages' \in {errorMessages, errorMessages \cup {"rhsm"}}
    /\ rhsmRegistered' \in BOOLEAN
    /\ result'.rhsmDisconnected => ~rhsmRegistered'
    /\ ~result'.rhsmDisconnected => UNCHANGED rhsmRegistered
    /\ ("rhsm" \in errorMessages') <=> result'.rhsmError
    /\ result'.rhsmError => ~result'.rhsmDisconnected
    /\ result'.rhsmDisconnected \/ result'.rhsmError
    /\ \A f \in DOMAIN result \ {"rhsmDisconnected", "rhsmError"} : result'[f] = result[f]

LEMMA DisconnectFromRHSMVisits ==
    ASSUME result \in Results, rhsmRegistered \in BOOLEAN,
           result.rhsmDisconnected = FALSE, result.rhsmError = FALSE, "rhsm" \notin errorMessages,
           Unregister(rhsmRegistered, "rhsmDisconnected", "rhsmError", "rhsm")
    PROVE  RHSMUnregistered
<1> USE DEF Results, RHSMUnregistered
<1>1. CASE /\ result' = [result EXCEPT !.rhsmError = TRUE]
           /\ errorMessages' = errorMessages \cup {"rhsm"}
           /\ UNCHANGED rhsmRegistered
  BY <1>1
<1>2. CASE /\ ~rhsmRegistered
           /\ result' = [result EXCEPT !.rhsmDisconnected = TRUE]
           /\ UNCHANGED <<rhsmRegistered, errorMessages>>
  BY <1>2
<1>3. CASE /\ rhsmRegistered' = FALSE
           /\ result' = [result EXCEPT !.rhsmDisconnected = TRUE]
           /\ UNCHANGED errorMessages
  BY <1>3
<1>4. CASE /\ result' = [result EXCEPT !.rhsmDisconnected = FALSE, !.rhsmError = TRUE]
           /\ errorMessages' = errorMessages \cup {"rhsm"}
           /\ UNCHANGED rhsmRegistered
  BY <1>4
<1>5. QED
  BY <1>1, <1>2, <1>3, <1>4 DEF Unregister

LEMMA DisconnectFromInsightsIInv ==
    ASSUME IInv, DisconnectFromInsights
    PROVE  IInv'
<1>1. StartupFrame /\ pc = "disconnect-insights" /\ pc' = "disconnect-rhsm"
  BY StepFrame DEF DisconnectFromInsights
<1>2. /\ TypeOK /\ machineReadable = FALSE /\ ClaimsAreTrue /\ ErrorsRecordedConsistently
      /\ result.insightsDisconnected = FALSE /\ result.insightsError = FALSE
      /\ "insights" \notin errorMessages
      /\ result.rhsmDisconnected = FALSE /\ result.rhsmError = FALSE
      /\ "rhsm" \notin errorMessages
  <2>1. {"insights", "rhsm"} \subseteq Unvisited
    BY <1>1 DEF Unvisited, Steps
  <2>2. QED
    BY <1>1, <2>1 DEF IInv, UnvisitedUnmarked, TypeOK, Results
<1>3. UNCHANGED <<serviceActive, rhsmRegistered, shown, jsonPrinted>>
  BY DEF DisconnectFromInsights
<1>4. InsightsUnregistered
  BY <1>2, DisconnectFromInsightsVisits DEF DisconnectFromInsights, TypeOK
<1>5. /\ result'.yggdrasilStopped = result.yggdrasilStopped
      /\ result'.yggdrasilError = result.yggdrasilError
      /\ result'.rhsmDisconnected = FALSE /\ result'.rhsmError = FALSE
  BY <1>2, <1>4 DEF InsightsUnregistered, Results, TypeOK
<1>6. TypeOK'
  <2>1. StartupTypeOK'
    BY <1>1, <1>2, FrameStartupTypeOK DEF TypeOK
  <2>2. QED
    BY <1>1, <1>2, <1>3, <1>4, <2>1 DEF TypeOK, InsightsUnregistered, StartupPcs, Steps
<1>7. ClaimsAreTrue' /\ ErrorsRecordedConsistently'
  BY <1>2, <1>3, <1>4, <1>5 DEF InsightsUnregistered, ClaimsAreTrue, ErrorsRecordedConsistently
<1>8. UnvisitedUnmarked'
  BY <1>1, <1>2, <1>4, <1>5 DEF InsightsUnregistered, UnvisitedUnmarked, Unvisited
<1>9. InsightsVisited'
  BY <1>4 DEF InsightsUnregistered, InsightsVisited
<1>10. QED
  BY <1>1, <1>2, <1>6, <1>7, <1>8, <1>9 DEF IInv, StartupFrame, FailureExitsNonZeroUnlessSilenced

LEMMA DisconnectFromRHSMIInv ==
    ASSUME IInv, DisconnectFromRHSM
    PROVE  IInv'
<1>1. StartupFrame /\ pc = "disconnect-rhsm" /\ pc' = "show-errors"
  BY StepFrame DEF DisconnectFromRHSM
<1>2. /\ TypeOK /\ machineReadable = FALSE /\ ClaimsAreTrue /\ ErrorsRecordedConsistently
      /\ InsightsVisited
      /\ result.rhsmDisconnected = FALSE /\ result.rhsmError = FALSE
      /\ "rhsm" \notin errorMessages
  <2>1. "rhsm" \in Unvisited
    BY <1>1 DEF Unvisited, Steps
  <2>2. QED
    BY <1>1, <2>1 DEF IInv, UnvisitedUnmarked, TypeOK, Results
<1>3. UNCHANGED <<serviceActive, insightsRegistered, shown, jsonPrinted>>
  BY DEF DisconnectFromRHSM
<1>4. RHSMUnregistered
  BY <1>2, DisconnectFromRHSMVisits DEF DisconnectFromRHSM, TypeOK
<1>5. /\ result'.yggdrasilStopped = result.yggdrasilStopped
      /\ result'.yggdrasilError = result.yggdrasilError
      /\ result'.insightsDisconnected = result.insightsDisconnected
      /\ result'.insightsError = result.insightsError
  BY <1>2, <1>4 DEF RHSMUnregistered, Results, TypeOK
<1>6. TypeOK'
  <2>1. StartupTypeOK'
    BY <1>1, <1>2, FrameStartupTypeOK DEF TypeOK
  <2>2. QED
    BY <1>1, <1>2, <1>3, <1>4, <2>1 DEF TypeOK, RHSMUnregistered, StartupPcs, Steps
<1>7. ClaimsAreTrue' /\ ErrorsRecordedConsistently'
  BY <1>2, <1>3, <1>4, <1>5 DEF RHSMUnregistered, ClaimsAreTrue, ErrorsRecordedConsistently
<1>8. UnvisitedUnmarked'
  BY <1>1 DEF UnvisitedUnmarked, Unvisited
<1>9. InsightsVisited'
  BY <1>2, <1>5 DEF InsightsVisited
<1>10. QED
  BY <1>1, <1>2, <1>6, <1>7, <1>8, <1>9 DEF IInv, StartupFrame, FailureExitsNonZeroUnlessSilenced

(* The end: in human mode a recorded failure at or below ERROR's level   *)
(* shows the table and exits 1.                                           *)
LEMMA ShowErrorMessagesIInv ==
    ASSUME IInv, ShowErrorMessages
    PROVE  IInv'
<1>1. pc = "show-errors" /\ pc' = "exit"
  BY DEF ShowErrorMessages, Exit
<1>2. /\ TypeOK /\ machineReadable = FALSE /\ InsightsVisited
  BY <1>1 DEF IInv
<1>3. /\ UNCHANGED <<configFile, fileEdits, cliLevel, format, extraArgs, configPath,
                     logLevel, machineReadable>>
      /\ UNCHANGED <<serviceActive, insightsRegistered, rhsmRegistered, result,
                     errorMessages>>
  BY DEF ShowErrorMessages
<1>4. /\ exitCode' \in {0, 1}
      /\ shown' \subseteq errorMessages
      /\ jsonPrinted' \in BOOLEAN
      /\ (errorMessages /= {} /\ logLevel <= LevelError) => exitCode' = 1
  <2> DEFINE table == HasPriorityErrors(errorMessages, logLevel) /\ ~machineReadable
  <2>1. shown' \subseteq errorMessages
    BY DEF ShowErrorMessages
  <2>2. CASE table /\ HasPriorityErrors(errorMessages, LevelError)
    <3>1. exitCode' = 1 /\ jsonPrinted' = jsonPrinted
      BY <2>2 DEF ShowErrorMessages, Exit
    <3>2. QED
      BY <2>1, <3>1, <1>2 DEF TypeOK
  <2>3. CASE ~(table /\ HasPriorityErrors(errorMessages, LevelError))
    <3>1. exitCode' = 0 /\ jsonPrinted' = machineReadable
      BY <2>3 DEF ShowErrorMessages, Exit
    <3>2. (errorMessages /= {} /\ logLevel <= LevelError) => table /\ HasPriorityErrors(errorMessages, LevelError)
      <4>1. LevelError \in Int /\ logLevel \in Int
        BY <1>2 DEF LevelError, SlogLevels, TypeOK, StartupTypeOK
      <4>2. QED
        BY <1>2, <4>1 DEF HasPriorityErrors
    <3>3. QED
      BY <2>1, <2>3, <3>1, <3>2, <1>2
  <2>4. QED
    BY <2>2, <2>3
<1>5. TypeOK'
  <2>1. StartupTypeOK'
    BY <1>2, <1>3, <1>4 DEF TypeOK, StartupTypeOK
  <2>2. QED
    BY <1>1, <1>2, <1>3, <1>4, <2>1 DEF TypeOK, StartupPcs
<1>6. ClaimsAreTrue' /\ ErrorsRecordedConsistently'
  BY <1>3 DEF IInv, ClaimsAreTrue, ErrorsRecordedConsistently
<1>7. UnvisitedUnmarked'
  BY <1>1, <1>2, <1>3 DEF UnvisitedUnmarked, Unvisited, InsightsVisited
<1>8. FailureExitsNonZeroUnlessSilenced'
  BY <1>1, <1>3, <1>4 DEF FailureExitsNonZeroUnlessSilenced
<1>9. QED
  BY <1>1, <1>2, <1>3, <1>5, <1>6, <1>7, <1>8 DEF IInv

(* IInv is inductive: one step per action of Next. *)
LEMMA NextIInv == IInv /\ [Next]_vars => IInv'
<1> SUFFICES ASSUME IInv, [Next]_vars PROVE IInv'
  OBVIOUS
<1>1. CASE (Startup \/ FileEdit) /\ UNCHANGED disconnectVars
  BY <1>1, StartupIInv
<1>2. CASE CollectSystemInfo
  BY <1>2, CollectSystemInfoIInv
<1>3. CASE DisconnectService
  BY <1>3, DisconnectServiceIInv
<1>4. CASE DisconnectFromInsights
  BY <1>4, DisconnectFromInsightsIInv
<1>5. CASE DisconnectFromRHSM
  BY <1>5, DisconnectFromRHSMIInv
<1>6. CASE ShowErrorMessages
  BY <1>6, ShowErrorMessagesIInv
<1>7. CASE UNCHANGED vars
  BY <1>7 DEF vars, startupVars, disconnectVars, IInv, TypeOK, StartupTypeOK,
              ClaimsAreTrue, ErrorsRecordedConsistently, UnvisitedUnmarked, Unvisited,
              InsightsVisited, FailureExitsNonZeroUnlessSilenced
<1>8. QED
  BY <1>1, <1>2, <1>3, <1>4, <1>5, <1>6, <1>7 DEF Next, DisconnectAction

(* IInv holds in every reachable state of rhc disconnect. *)
THEOREM DisconnectInvariant == Spec => []IInv
BY InitIInv, NextIInv, PTL DEF Spec

(* Every reachable state is well typed: the map holds only the three     *)
(* services' keys and the table shows only recorded messages.            *)
THEOREM TypeCorrect == Spec => []TypeOK
BY DisconnectInvariant, PTL DEF IInv

(* What disconnect reports as done is true of the host (ClaimsAreTrue),  *)
(* for every configuration and every outcome of the service calls.      *)
THEOREM ClaimsTrue == Spec => []ClaimsAreTrue
BY DisconnectInvariant, PTL DEF IInv

(* The result record and the errorMessages map always agree.            *)
THEOREM ErrorsConsistent == Spec => []ErrorsRecordedConsistently
BY DisconnectInvariant, PTL DEF IInv

(* A recorded failure makes the exit status 1 unless the log level is    *)
(* above ERROR; this rests on human mode (machineReadable is always      *)
(* FALSE, ConfigureUISettings).                                         *)
THEOREM FailureExitsNonZeroUnlessSilencedHolds == Spec => []FailureExitsNonZeroUnlessSilenced
BY DisconnectInvariant, PTL DEF IInv

-----------------------------------------------------------------------------
(* Refinement: rhc disconnect implements HostDisconnect's safety part.   *)

LEMMA VisitOrderFacts ==
    /\ VisitOrder /= <<>> /\ Head(VisitOrder) = "yggdrasil"
    /\ Tail(VisitOrder) = <<"insights", "rhsm">>
    /\ Tail(VisitOrder) /= <<>> /\ Head(Tail(VisitOrder)) = "insights"
    /\ Tail(Tail(VisitOrder)) = <<"rhsm">>
    /\ <<"rhsm">> /= <<>> /\ Head(<<"rhsm">>) = "rhsm" /\ Tail(<<"rhsm">>) = <<>>
    /\ {VisitOrder[i] : i \in DOMAIN VisitOrder} = Steps
BY DEF VisitOrder, Steps

(* The services still to visit, by where the action is. *)
LEMMA RemainingByPc ==
    /\ pc \in PreVisit => Remaining = VisitOrder
    /\ pc = "disconnect-insights" => Remaining = Tail(VisitOrder)
    /\ pc = "disconnect-rhsm" => Remaining = <<"rhsm">>
    /\ pc = "show-errors" => Remaining = <<>>
    /\ pc = "exit" /\ InsightsVisited => Remaining = <<>>
    /\ pc = "exit" /\ ~InsightsVisited => Remaining = VisitOrder
BY DEF Remaining, PreVisit, InsightsVisited

LEMMA InitRefines == Init => HD!Init
<1> SUFFICES ASSUME Init PROVE HD!Init
  OBVIOUS
<1>1. result = NoResult /\ errorMessages = {} /\ pc = "main" /\ exitCode = 0
  BY DEF Init, StartupInit
<1>2. Connected \subseteq {VisitOrder[i] : i \in DOMAIN VisitOrder}
  BY VisitOrderFacts DEF Connected
<1>3. Claimed = {}
  BY <1>1 DEF Claimed, NoResult
<1>4. Remaining = VisitOrder
  BY <1>1, RemainingByPc DEF PreVisit
<1>5. QED
  BY <1>1, <1>2, <1>3, <1>4 DEF HD!Init, HD!Services

(* A start-up step is a stutter of HostDisconnect, or its Abort. *)
LEMMA StartupRefines ==
    ASSUME IInv, Startup \/ FileEdit, UNCHANGED disconnectVars
    PROVE  [HD!Next]_(HD!hdVars)
<1>1. pc \in PreVisit /\ pc' \in PreVisit \cup {"exit"}
  BY DEF Startup, FileEdit, ConfigPath, BeforeAction, CommandBefore, ConfigureUI, Exit, PreVisit
<1>2. NothingMarked /\ NothingMarked'
  BY <1>1, PreVisitNothingMarked DEF NothingMarked, disconnectVars
<1>3. Remaining = VisitOrder /\ Remaining' = VisitOrder
  <2>1. ~InsightsVisited'
    BY <1>2 DEF NothingMarked, InsightsVisited
  <2>2. Remaining' = VisitOrder
    BY <1>1, <2>1 DEF Remaining, PreVisit, InsightsVisited
  <2>3. QED
    BY <1>1, <2>2, RemainingByPc
<1>4. UNCHANGED <<Connected, Claimed, errorMessages>>
  BY DEF disconnectVars, Connected, Claimed
<1>5. CASE pc' = "exit"
  <2>1. exitCode' \in {1, ExitCodeDataErr}
    BY <1>1, <1>5 DEF Startup, FileEdit, ConfigPath, BeforeAction, CommandBefore,
                      ConfigureUI, Exit, PreVisit
  <2>2. HD!Abort
    BY <1>1, <1>3, <1>4, <1>5, <2>1 DEF HD!Abort, PreVisit
  <2>3. QED
    BY <2>2 DEF HD!Next
<1>6. CASE pc' /= "exit"
  <2>1. exitCode' = exitCode
    BY <1>6 DEF Startup, FileEdit, ConfigPath, BeforeAction, CommandBefore, ConfigureUI, Exit
  <2>2. QED
    BY <1>1, <1>3, <1>4, <1>6, <2>1 DEF HD!hdVars, PreVisit
<1>7. QED
  BY <1>5, <1>6

(* Collecting the hostname and uid is a stutter of HostDisconnect. *)
LEMMA CollectSystemInfoRefines ==
    ASSUME IInv, CollectSystemInfo
    PROVE  UNCHANGED HD!hdVars
<1>1. NothingMarked /\ pc = "action" /\ pc' = "disconnect-service"
  BY PreVisitNothingMarked DEF CollectSystemInfo, PreVisit
<1>2. /\ result'.yggdrasilStopped = result.yggdrasilStopped
      /\ result'.insightsDisconnected = result.insightsDisconnected
      /\ result'.rhsmDisconnected = result.rhsmDisconnected
  BY DEF IInv, TypeOK, Results, CollectSystemInfo
<1>3. Remaining = VisitOrder /\ Remaining' = VisitOrder
  BY <1>1 DEF Remaining
<1>4. QED
  BY <1>1, <1>2, <1>3 DEF CollectSystemInfo, Connected, Claimed, HD!hdVars

(* The facts of a visit every lemma below uses. *)
VisitFrame(s, before) ==
    /\ Remaining = before /\ before /= <<>> /\ Head(before) = s
    /\ Remaining' = Tail(before)
    /\ pc /= "exit" /\ pc' /= "exit" /\ exitCode' = exitCode

LEMMA VisitFromFrame ==
    ASSUME NEW s, NEW before, VisitFrame(s, before),
           \/ Connected' = Connected \ {s} /\ Claimed' = Claimed \cup {s}
              /\ errorMessages' = errorMessages
           \/ errorMessages' \in {errorMessages, errorMessages \cup {s}}
              /\ Connected' = Connected /\ Claimed' = Claimed
    PROVE  HD!Visit
BY DEF VisitFrame, HD!Visit

(* The service step is HostDisconnect's visit of yggdrasil. *)
LEMMA DisconnectServiceRefines ==
    ASSUME IInv, DisconnectService
    PROVE  HD!Visit
<1>1. StartupFrame /\ pc = "disconnect-service" /\ pc' = "disconnect-insights"
  BY StepFrame DEF DisconnectService
<1>2. NothingMarked /\ TypeOK
  BY <1>1, PreVisitNothingMarked DEF PreVisit, IInv
<1>3. VisitFrame("yggdrasil", VisitOrder)
  BY <1>1, VisitOrderFacts DEF VisitFrame, Remaining, StartupFrame
<1>4. UNCHANGED <<insightsRegistered, rhsmRegistered>>
  BY DEF DisconnectService
<1> USE <1>2 DEF NothingMarked, TypeOK, Results
<1>5. CASE UNCHANGED <<serviceActive, result, errorMessages>>
  BY <1>3, <1>4, <1>5, VisitFromFrame DEF Connected, Claimed
<1>6. CASE /\ ~serviceActive
           /\ result' = [result EXCEPT !.yggdrasilStopped = TRUE]
           /\ UNCHANGED <<serviceActive, errorMessages>>
  <2>1. Connected' = Connected \ {"yggdrasil"} /\ Claimed' = Claimed \cup {"yggdrasil"}
    BY <1>4, <1>6 DEF Connected, Claimed, Steps
  <2>2. QED
    BY <1>3, <1>6, <2>1, VisitFromFrame
<1>7. CASE /\ serviceActive' = FALSE
           /\ result' = [result EXCEPT !.yggdrasilStopped = TRUE]
           /\ UNCHANGED errorMessages
  <2>1. Connected' = Connected \ {"yggdrasil"} /\ Claimed' = Claimed \cup {"yggdrasil"}
    BY <1>4, <1>7 DEF Connected, Claimed, Steps
  <2>2. QED
    BY <1>3, <1>7, <2>1, VisitFromFrame
<1>8. CASE /\ result' = [result EXCEPT !.yggdrasilStopped = FALSE, !.yggdrasilError = TRUE]
           /\ errorMessages' = errorMessages \cup {"yggdrasil"}
           /\ UNCHANGED serviceActive
  <2>1. Connected' = Connected /\ Claimed' = Claimed
    BY <1>4, <1>8 DEF Connected, Claimed
  <2>2. QED
    BY <1>3, <1>8, <2>1, VisitFromFrame
<1>9. QED
  BY <1>5, <1>6, <1>7, <1>8 DEF DisconnectService

(* The Insights step is HostDisconnect's visit of insights. *)
LEMMA DisconnectFromInsightsRefines ==
    ASSUME IInv, DisconnectFromInsights
    PROVE  HD!Visit
<1>1. StartupFrame /\ pc = "disconnect-insights" /\ pc' = "disconnect-rhsm"
  BY StepFrame DEF DisconnectFromInsights
<1>2. /\ TypeOK
      /\ result.insightsDisconnected = FALSE /\ result.insightsError = FALSE
      /\ "insights" \notin errorMessages
  <2>1. "insights" \in Unvisited
    BY <1>1 DEF Unvisited, Steps
  <2>2. QED
    BY <1>1, <2>1 DEF IInv, UnvisitedUnmarked, TypeOK, Results
<1>3. InsightsUnregistered
  BY <1>2, DisconnectFromInsightsVisits DEF DisconnectFromInsights, TypeOK
<1>4. VisitFrame("insights", Tail(VisitOrder))
  BY <1>1, VisitOrderFacts DEF VisitFrame, Remaining, StartupFrame
<1>5. UNCHANGED <<serviceActive, rhsmRegistered>>
  BY DEF DisconnectFromInsights
<1> USE <1>2 DEF TypeOK, Results, InsightsUnregistered
<1>6. CASE result'.insightsDisconnected
  <2>1. Connected' = Connected \ {"insights"} /\ Claimed' = Claimed \cup {"insights"}
    BY <1>3, <1>5, <1>6 DEF Connected, Claimed, Steps
  <2>2. errorMessages' = errorMessages
    BY <1>3, <1>6
  <2>3. QED
    BY <1>4, <2>1, <2>2, VisitFromFrame
<1>7. CASE ~result'.insightsDisconnected
  <2>1. Connected' = Connected /\ Claimed' = Claimed
    BY <1>3, <1>5, <1>7 DEF Connected, Claimed, Steps
  <2>2. QED
    BY <1>3, <1>4, <2>1, VisitFromFrame
<1>8. QED
  BY <1>6, <1>7

(* The RHSM step is HostDisconnect's visit of rhsm. *)
LEMMA DisconnectFromRHSMRefines ==
    ASSUME IInv, DisconnectFromRHSM
    PROVE  HD!Visit
<1>1. StartupFrame /\ pc = "disconnect-rhsm" /\ pc' = "show-errors"
  BY StepFrame DEF DisconnectFromRHSM
<1>2. /\ TypeOK
      /\ result.rhsmDisconnected = FALSE /\ result.rhsmError = FALSE
      /\ "rhsm" \notin errorMessages
  <2>1. "rhsm" \in Unvisited
    BY <1>1 DEF Unvisited, Steps
  <2>2. QED
    BY <1>1, <2>1 DEF IInv, UnvisitedUnmarked, TypeOK, Results
<1>3. RHSMUnregistered
  BY <1>2, DisconnectFromRHSMVisits DEF DisconnectFromRHSM, TypeOK
<1>4. VisitFrame("rhsm", <<"rhsm">>)
  BY <1>1, VisitOrderFacts DEF VisitFrame, Remaining, StartupFrame
<1>5. UNCHANGED <<serviceActive, insightsRegistered>>
  BY DEF DisconnectFromRHSM
<1> USE <1>2 DEF TypeOK, Results, RHSMUnregistered
<1>6. CASE result'.rhsmDisconnected
  <2>1. Connected' = Connected \ {"rhsm"} /\ Claimed' = Claimed \cup {"rhsm"}
    BY <1>3, <1>5, <1>6 DEF Connected, Claimed, Steps
  <2>2. errorMessages' = errorMessages
    BY <1>3, <1>6
  <2>3. QED
    BY <1>4, <2>1, <2>2, VisitFromFrame
<1>7. CASE ~result'.rhsmDisconnected
  <2>1. Connected' = Connected /\ Claimed' = Claimed
    BY <1>3, <1>5, <1>7 DEF Connected, Claimed, Steps
  <2>2. QED
    BY <1>3, <1>4, <2>1, VisitFromFrame
<1>8. QED
  BY <1>6, <1>7

(* ShowErrorMessages is HostDisconnect's Finish: status 1 only after a   *)
(* recorded failure.                                                      *)
LEMMA ShowErrorMessagesRefines ==
    ASSUME IInv, ShowErrorMessages
    PROVE  HD!Finish
<1>1. pc = "show-errors" /\ pc' = "exit" /\ InsightsVisited
  BY DEF ShowErrorMessages, Exit, IInv
<1>2. UNCHANGED <<serviceActive, insightsRegistered, rhsmRegistered, result, errorMessages>>
  BY DEF ShowErrorMessages
<1>3. Remaining = <<>> /\ Remaining' = <<>>
  BY <1>1, <1>2 DEF Remaining, InsightsVisited
<1>4. exitCode' \in IF errorMessages = {} THEN {0} ELSE {0, 1}
  BY DEF ShowErrorMessages, Exit, HasPriorityErrors
<1>5. QED
  BY <1>1, <1>2, <1>3, <1>4 DEF HD!Finish, Connected, Claimed

(* Every step of disconnect is a step of HostDisconnect or a stutter. *)
LEMMA NextRefines == IInv /\ [Next]_vars => [HD!Next]_(HD!hdVars)
<1> SUFFICES ASSUME IInv, [Next]_vars PROVE [HD!Next]_(HD!hdVars)
  OBVIOUS
<1>1. CASE (Startup \/ FileEdit) /\ UNCHANGED disconnectVars
  BY <1>1, StartupRefines
<1>2. CASE CollectSystemInfo
  BY <1>2, CollectSystemInfoRefines
<1>3. CASE DisconnectService
  BY <1>3, DisconnectServiceRefines DEF HD!Next
<1>4. CASE DisconnectFromInsights
  BY <1>4, DisconnectFromInsightsRefines DEF HD!Next
<1>5. CASE DisconnectFromRHSM
  BY <1>5, DisconnectFromRHSMRefines DEF HD!Next
<1>6. CASE ShowErrorMessages
  BY <1>6, ShowErrorMessagesRefines DEF HD!Next
<1>7. CASE UNCHANGED vars
  BY <1>7 DEF vars, startupVars, disconnectVars, HD!hdVars, Connected, Claimed, Remaining
<1>8. QED
  BY <1>1, <1>2, <1>3, <1>4, <1>5, <1>6, <1>7 DEF Next, DisconnectAction

(* rhc disconnect implements HostDisconnect's safety part under the      *)
(* mapping of Disconnect's HD (ImplementsHostDisconnect): for every      *)
(* instance of the constants, every behaviour of the code visits the     *)
(* services in order, claims only what happened, exits 1 only after a   *)
(* recorded failure, and aborts only before the first visit.            *)
THEOREM Refinement == Spec => ImplementsHostDisconnect
<1>1. Init => HD!Init
  BY InitRefines
<1>2. IInv /\ [Next]_vars => [HD!Next]_(HD!hdVars)
  BY NextRefines
<1>3. QED
  BY <1>1, <1>2, InitIInv, NextIInv, PTL DEF ImplementsHostDisconnect, HD!SafetySpec, Spec

=============================================================================
