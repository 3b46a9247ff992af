----------------------------- MODULE Disconnect -----------------------------
(***************************************************************************)
(* rhc disconnect (cmd/rhc/disconnect.go), after CliStartup: the action    *)
(* collects hostname and uid, then runs disconnectService,                 *)
(* disconnectFromInsights and disconnectFromRHSM one after another, each   *)
(* ignoring the error the previous one returned, and ends with             *)
(* ShowErrorMessages (unnamed/part_001), which decides the exit status     *)
(* through logging.HasPriorityErrors (pkg/config/config.go).               *)
(*                                                                         *)
(* The three services are the environment: each query and each change may *)
(* fail, independently, which is a nondeterministic choice of the step.    *)
(* Error texts are abstracted to whether a field is set; every message the *)
(* command records has level slog.LevelError.                              *)
(***************************************************************************)
EXTENDS CliStartup, Sequences

(* The keys of the errorMessages map. *)
Steps == {"yggdrasil", "insights", "rhsm"}

VARIABLES
    serviceActive,       \* yggdrasil.service is not in state "inactive"
    insightsRegistered,  \* the host is registered with Insights
    rhsmRegistered,      \* the host is registered with RHSM
    result,              \* the DisconnectResult record
    errorMessages,       \* the keys of the errorMessages map
    shown,               \* the keys ShowErrorMessages printed in its table
    jsonPrinted          \* disconnectResult.String() was printed

disconnectVars == <<serviceActive, insightsRegistered, rhsmRegistered, result,
                    errorMessages, shown, jsonPrinted>>
vars == <<startupVars, disconnectVars>>

NoResult == [hostnameError |-> FALSE, uidError |-> FALSE,
             yggdrasilStopped |-> FALSE, yggdrasilError |-> FALSE,
             insightsDisconnected |-> FALSE, insightsError |-> FALSE,
             rhsmDisconnected |-> FALSE, rhsmError |-> FALSE]
Results == [hostnameError : BOOLEAN, uidError : BOOLEAN,
            yggdrasilStopped : BOOLEAN, yggdrasilError : BOOLEAN,
            insightsDisconnected : BOOLEAN, insightsError : BOOLEAN,
            rhsmDisconnected : BOOLEAN, rhsmError : BOOLEAN]

Init ==
    /\ StartupInit
    /\ serviceActive \in BOOLEAN
    /\ insightsRegistered \in BOOLEAN
    /\ rhsmRegistered \in BOOLEAN
    /\ result = NoResult
    /\ errorMessages = {}
    /\ shown = {}
    /\ jsonPrinted = FALSE

(* os.Hostname and os.Getuid: their failures only reach the result in    *)
(* machine-readable mode, otherwise they are logged or printed.          *)
CollectSystemInfo ==
    /\ pc = "action"
    /\ \E hostnameFails, notRoot \in BOOLEAN :
          result' = [result EXCEPT !.hostnameError = machineReadable /\ hostnameFails,
                                   !.uidError = machineReadable /\ notRoot]
    /\ pc' = "disconnect-service"
    /\ UNCHANGED <<configFile, fileEdits, cliLevel, format, extraArgs, configPath,
                   logLevel, machineReadable, exitCode>>
    /\ UNCHANGED <<serviceActive, insightsRegistered, rhsmRegistered,
                   errorMessages, shown, jsonPrinted>>

(* The steps of the action after start-up leave start-up's state alone. *)
Step(from, to) ==
    /\ pc = from
    /\ pc' = to
    /\ UNCHANGED <<configFile, fileEdits, cliLevel, format, extraArgs, configPath,
                   logLevel, machineReadable, exitCode>>

(* A slip: ShowProgress' error dropped and the service taken as stopped. *)
DisconnectServiceIgnoresError ==
    /\ Step("disconnect-service", "disconnect-insights")
    /\ \E checkFails, deactivateFails \in BOOLEAN :
          IF checkFails THEN UNCHANGED <<serviceActive, result, errorMessages>>
          ELSE /\ result' = [result EXCEPT !.yggdrasilStopped = TRUE]
               /\ serviceActive' = (serviceActive /\ deactivateFails)
               /\ UNCHANGED errorMessages
    /\ UNCHANGED <<insightsRegistered, rhsmRegistered, shown, jsonPrinted>>

(* disconnectService: IsServiceInState("inactive") failing returns at    *)
(* once, recording nothing; an inactive service counts as stopped; else  *)
(* DeactivateService, whose failure is recorded in the result and the    *)
(* errorMessages map.                                                     *)
DisconnectService ==
    /\ Step("disconnect-service", "disconnect-insights")
    /\ \/ UNCHANGED <<serviceActive, result, errorMessages>>
       \/ /\ ~serviceActive
          /\ result' = [result EXCEPT !.yggdrasilStopped = TRUE]
          /\ UNCHANGED <<serviceActive, errorMessages>>
       \/ /\ serviceActive
          /\ \/ /\ serviceActive' = FALSE
                /\ result' = [result EXCEPT !.yggdrasilStopped = TRUE]
                /\ UNCHANGED errorMessages
             \/ /\ result' = [result EXCEPT !.yggdrasilStopped = FALSE,
                                            !.yggdrasilError = TRUE]
                /\ errorMessages' = errorMessages \cup {"yggdrasil"}
                /\ UNCHANGED serviceActive
    /\ UNCHANGED <<insightsRegistered, rhsmRegistered, shown, jsonPrinted>>

(* disconnectFromInsights and disconnectFromRHSM have one shape: a failed *)
(* IsRegistered is recorded; an unregistered host counts as disconnected; *)
(* else Unregister, whose failure is recorded.  registered is the         *)
(* service's registration, done/err the result's fields, key the map key. *)
Unregister(registered, done, err, key) ==
    \/ /\ result' = [result EXCEPT ![err] = TRUE]
       /\ errorMessages' = errorMessages \cup {key}
       /\ UNCHANGED registered
    \/ /\ ~registered
       /\ result' = [result EXCEPT ![done] = TRUE]
       /\ UNCHANGED <<registered, errorMessages>>
    \/ /\ registered
       /\ \/ /\ registered' = FALSE
             /\ result' = [result EXCEPT ![done] = TRUE]
             /\ UNCHANGED errorMessages
          \/ /\ result' = [result EXCEPT ![done] = FALSE, ![err] = TRUE]
             /\ errorMessages' = errorMessages \cup {key}
             /\ UNCHANGED registered

(* A slip: the failed IsRegistered of Insights not put in errorMessages. *)
DisconnectFromInsightsUnrecorded ==
    /\ Step("disconnect-insights", "disconnect-rhsm")
    /\ \/ /\ result' = [result EXCEPT !.insightsError = TRUE]
          /\ UNCHANGED <<insightsRegistered, errorMessages>>
       \/ Unregister(insightsRegistered, "insightsDisconnected", "insightsError", "insights")
    /\ UNCHANGED <<serviceActive, rhsmRegistered, shown, jsonPrinted>>

DisconnectFromInsights ==
    /\ Step("disconnect-insights", "disconnect-rhsm")
    /\ Unregister(insightsRegistered, "insightsDisconnected", "insightsError", "insights")
    /\ UNCHANGED <<serviceActive, rhsmRegistered, shown, jsonPrinted>>

DisconnectFromRHSM ==
    /\ Step("disconnect-rhsm", "show-errors")
    /\ Unregister(rhsmRegistered, "rhsmDisconnected", "rhsmError", "rhsm")
    /\ UNCHANGED <<serviceActive, insightsRegistered, shown, jsonPrinted>>

(* A slip: a strict comparison in HasPriorityErrors. *)
HasPriorityErrorsStrict(msgs, level) == \E k \in msgs : LevelError > level

(* logging.HasPriorityErrors: some message at or above level. *)
HasPriorityErrors(msgs, level) == \E k \in msgs : LevelError >= level

(* A slip: the table printed for every step name, recorded or not. *)
ShowErrorMessagesEveryStep ==
    /\ pc = "show-errors"
    /\ LET table == HasPriorityErrors(errorMessages, logLevel) /\ ~machineReadable
       IN  /\ shown' = IF table THEN Steps ELSE {}
           /\ IF table THEN Exit(1) ELSE Exit(0)
           /\ jsonPrinted' = (~table /\ machineReadable)
    /\ UNCHANGED <<configFile, fileEdits, cliLevel, format, extraArgs, configPath,
                   logLevel, machineReadable>>
    /\ UNCHANGED <<serviceActive, insightsRegistered, rhsmRegistered, result,
                   errorMessages>>

(* The end of disconnectAction: ShowErrorMessages prints, in human mode,  *)
(* the messages at or above the log level and returns exit status 1 when  *)
(* one of them is an error; otherwise the JSON document is printed in     *)
(* machine-readable mode and the command succeeds.                         *)
ShowErrorMessages ==
    /\ pc = "show-errors"
    /\ LET table == HasPriorityErrors(errorMessages, logLevel) /\ ~machineReadable
       IN  /\ shown' = IF table THEN {k \in errorMessages : LevelError >= logLevel} ELSE {}
           /\ IF table /\ HasPriorityErrors(errorMessages, LevelError)
                 THEN /\ Exit(1)
                      /\ UNCHANGED jsonPrinted
                 ELSE /\ Exit(0)
                      /\ jsonPrinted' = machineReadable
    /\ UNCHANGED <<configFile, fileEdits, cliLevel, format, extraArgs, configPath,
                   logLevel, machineReadable>>
    /\ UNCHANGED <<serviceActive, insightsRegistered, rhsmRegistered, result,
                   errorMessages>>

DisconnectAction ==
    \/ CollectSystemInfo
    \/ DisconnectService
    \/ DisconnectFromInsights
    \/ DisconnectFromRHSM
    \/ ShowErrorMessages

Next ==
    \/ (Startup \/ FileEdit) /\ UNCHANGED disconnectVars
    \/ DisconnectAction

Spec == Init /\ [][Next]_vars /\ WF_vars((Startup /\ UNCHANGED disconnectVars) \/ DisconnectAction)

-----------------------------------------------------------------------------

TypeOK ==
    /\ StartupTypeOK
    /\ pc \in StartupPcs \cup {"disconnect-service", "disconnect-insights",
                               "disconnect-rhsm", "show-errors"}
    /\ serviceActive \in BOOLEAN
    /\ insightsRegistered \in BOOLEAN
    /\ rhsmRegistered \in BOOLEAN
    /\ result \in Results
    /\ errorMessages \subseteq Steps
    /\ shown \subseteq errorMessages
    /\ jsonPrinted \in BOOLEAN

(* What disconnect reports as done is true of the system: a service it    *)
(* calls stopped is inactive, an Insights or RHSM registration it calls   *)
(* removed is gone (each step sets the flag only on the branch where the  *)
(* check or the change succeeded).                                         *)
ClaimsAreTrue ==
    /\ result.yggdrasilStopped => ~serviceActive
    /\ result.insightsDisconnected => ~insightsRegistered
    /\ result.rhsmDisconnected => ~rhsmRegistered

(* The result record and the errorMessages map tell the same story: a     *)
(* step has an error field set exactly when it has a map entry, and then  *)
(* it is not reported done.                                               *)
ErrorsRecordedConsistently ==
    /\ ("yggdrasil" \in errorMessages) <=> result.yggdrasilError
    /\ ("insights" \in errorMessages) <=> result.insightsError
    /\ ("rhsm" \in errorMessages) <=> result.rhsmError
    /\ result.yggdrasilError => ~result.yggdrasilStopped
    /\ result.insightsError => ~result.insightsDisconnected
    /\ result.rhsmError => ~result.rhsmDisconnected

(* Once disconnect has ended, any recorded failure made the exit status 1, *)
(* unless the log level is above ERROR (then nothing is shown at all).    *)
FailureExitsNonZeroUnlessSilenced ==
    (pc = "exit" /\ errorMessages /= {} /\ logLevel <= LevelError) => exitCode = 1

(* Every step disconnect did not complete has its failure recorded, so    *)
(* that ShowErrorMessages and the JSON document report it.                *)
EveryFailureReported ==
    (pc = "exit" /\ exitCode = 0) =>
        /\ result.yggdrasilStopped \/ "yggdrasil" \in errorMessages
        /\ result.insightsDisconnected \/ "insights" \in errorMessages
        /\ result.rhsmDisconnected \/ "rhsm" \in errorMessages

-----------------------------------------------------------------------------
(* The refinement mapping to HostDisconnect: the services still connected *)
(* and claimed, the order of visits read off pc.  At "exit" the action ran *)
(* exactly when the Insights step left a mark (it always sets a flag).    *)

VisitOrder == <<"yggdrasil", "insights", "rhsm">>

Connected == {st \in Steps : \/ st = "yggdrasil" /\ serviceActive
                             \/ st = "insights" /\ insightsRegistered
                             \/ st = "rhsm" /\ rhsmRegistered}

Claimed == {st \in Steps : \/ st = "yggdrasil" /\ result.yggdrasilStopped
                           \/ st = "insights" /\ result.insightsDisconnected
                           \/ st = "rhsm" /\ result.rhsmDisconnected}

Remaining ==
    CASE pc = "disconnect-insights" -> Tail(VisitOrder)
      [] pc = "disconnect-rhsm"     -> <<"rhsm">>
      [] pc = "show-errors"         -> <<>>
      [] pc = "exit" /\ (result.insightsDisconnected \/ result.insightsError) -> <<>>
      [] OTHER                      -> VisitOrder

HD == INSTANCE HostDisconnect
        WITH Order <- VisitOrder, AbortCodes <- {1, ExitCodeDataErr},
             connected <- Connected, claimed <- Claimed, failed <- errorMessages,
             remaining <- Remaining,
             ended <- pc = "exit", status <- exitCode

(* disconnect implements its abstract promise (HostDisconnect's safety):  *)
(* the services are visited once each, in order; a claimed disconnection *)
(* really happened; nothing is ever connected; exit status 1 only after  *)
(* a recorded failure; a start-up failure touches no service.             *)
ImplementsHostDisconnect == HD!SafetySpec

=============================================================================
