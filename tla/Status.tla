------------------------------- MODULE Status -------------------------------
(***************************************************************************)
(* rhc status (cmd/rhc/status.go), after CliStartup: statusAction asks     *)
(* RHSM for the consumer UUID (rhsmStatus), insights-client whether the    *)
(* host is registered (insightsStatus) and systemd for the state of        *)
(* yggdrasil.service (yggdrasilStatus), counting in returnCode what is not *)
(* connected or not running, and exits with returnCode.                    *)
(*                                                                         *)
(* Each query may fail (D-Bus, the insights-client process, the systemd    *)
(* connection or ListUnits): a nondeterministic choice of the step.        *)
(***************************************************************************)
EXTENDS CliStartup, FiniteSets

(* ActiveState of the unit, or "absent" when ListUnits does not list it. *)
UnitStates == {"active", "inactive", "failed", "activating", "absent"}
Components == {"rhsm", "insights", "yggdrasil"}

VARIABLES
    consumerUUID,        \* RHSM has a consumer UUID for the host
    insightsRegistered,  \* the host is registered with Insights
    unitState,           \* yggdrasil.service's state as systemd lists it
    status,              \* the SystemStatus fields printed as JSON
    returnCode,          \* SystemStatus.returnCode
    queried,             \* components whose status function has returned
    failedQueries        \* components whose status function returned an error

statusVars == <<consumerUUID, insightsRegistered, unitState, status, returnCode,
                queried, failedQueries>>
vars == <<startupVars, statusVars>>

Init ==
    /\ StartupInit
    /\ consumerUUID \in BOOLEAN
    /\ insightsRegistered \in BOOLEAN
    /\ unitState \in UnitStates
    /\ status = [rhsmConnected |-> FALSE, insightsConnected |-> FALSE,
                 yggdrasilRunning |-> FALSE]
    /\ returnCode = 0
    /\ queried = {}
    /\ failedQueries = {}

(* One status function: it leaves start-up's state and the world alone. *)
Query(from, to, component, fails) ==
    /\ pc = from
    /\ pc' = to
    /\ queried' = queried \cup {component}
    /\ failedQueries' = IF fails THEN failedQueries \cup {component} ELSE failedQueries
    /\ UNCHANGED <<configFile, fileEdits, cliLevel, format, extraArgs, configPath,
                   logLevel, machineReadable, exitCode>>
    /\ UNCHANGED <<consumerUUID, insightsRegistered, unitState>>

(* rhsmStatus: a failed GetConsumerUUID returns the error at once; an     *)
(* empty UUID counts one; the JSON field is set in machine-readable mode. *)
RhsmStatus ==
    \E fails \in BOOLEAN :
        /\ Query("action", "insights", "rhsm", fails)
        /\ returnCode' = IF ~fails /\ ~consumerUUID THEN returnCode + 1 ELSE returnCode
        /\ status' = IF ~fails /\ machineReadable
                        THEN [status EXCEPT !.rhsmConnected = consumerUUID]
                        ELSE status

(* insightsStatus: an error and "not registered" both count one. *)
InsightsStatus ==
    \E fails \in BOOLEAN :
        /\ Query("insights", "yggdrasil", "insights", fails)
        /\ returnCode' = IF fails \/ ~insightsRegistered THEN returnCode + 1 ELSE returnCode
        /\ status' = IF machineReadable
                        THEN [status EXCEPT !.insightsConnected = ~fails /\ insightsRegistered]
                        ELSE status

(* A slip: serviceFound never set, so a listed unit is also "not found". *)
YggdrasilStatusFlagNeverSet ==
    \E fails \in BOOLEAN :
        /\ Query("yggdrasil", "finish", "yggdrasil", fails)
        /\ returnCode' = returnCode
                         + (IF ~fails /\ unitState \notin {"active", "absent"} THEN 1 ELSE 0)
                         + (IF ~fails THEN 1 ELSE 0)
        /\ UNCHANGED status

(* yggdrasilStatus: failing to reach systemd or to list the units returns *)
(* the error and counts nothing; a unit not listed counts one; a listed  *)
(* unit counts one when it is not active, but only in human mode: in     *)
(* machine-readable mode only the JSON field is set.                     *)
YggdrasilStatus ==
    \E fails \in BOOLEAN :
        /\ Query("yggdrasil", "finish", "yggdrasil", fails)
        /\ returnCode' = IF ~fails /\ (unitState = "absent"
                                       \/ (~machineReadable /\ unitState /= "active"))
                            THEN returnCode + 1 ELSE returnCode
        /\ status' = IF ~fails /\ machineReadable
                        THEN [status EXCEPT !.yggdrasilRunning = (unitState = "active")]
                        ELSE status

(* The end of statusAction: the JSON document in machine-readable mode,  *)
(* then os.Exit(returnCode).                                              *)
ExitWithReturnCode ==
    /\ pc = "finish"
    /\ Exit(returnCode)
    /\ UNCHANGED <<configFile, fileEdits, cliLevel, format, extraArgs, configPath,
                   logLevel, machineReadable>>
    /\ UNCHANGED statusVars

StatusAction == RhsmStatus \/ InsightsStatus \/ YggdrasilStatus \/ ExitWithReturnCode

Next ==
    \/ (Startup \/ FileEdit) /\ UNCHANGED statusVars
    \/ StatusAction

Spec == Init /\ [][Next]_vars /\ WF_vars((Startup /\ UNCHANGED statusVars) \/ StatusAction)

-----------------------------------------------------------------------------

TypeOK ==
    /\ StartupTypeOK
    /\ pc \in StartupPcs \cup {"insights", "yggdrasil", "finish"}
    /\ consumerUUID \in BOOLEAN
    /\ insightsRegistered \in BOOLEAN
    /\ unitState \in UnitStates
    /\ status \in [rhsmConnected : BOOLEAN, insightsConnected : BOOLEAN,
                   yggdrasilRunning : BOOLEAN]
    /\ returnCode \in 0..Cardinality(Components)
    /\ failedQueries \subseteq queried
    /\ queried \subseteq Components

(* The components that are not connected or not running. *)
Down == {c \in Components :
           \/ c = "rhsm" /\ ~consumerUUID
           \/ c = "insights" /\ ~insightsRegistered
           \/ c = "yggdrasil" /\ unitState /= "active"}

(* When every query answered, the exit status of status is the number of *)
(* components that are down: a script can tell "all connected" (0) from *)
(* how much is missing, whichever --format it asked for.                  *)
ExitCodeCountsDown ==
    (pc = "exit" /\ queried = Components /\ failedQueries = {})
        => exitCode = Cardinality(Down)

(* status exits 0 only when it established that RHSM and Insights are    *)
(* connected and the service runs: a query it could not make counts as   *)
(* not connected, as insightsStatus does for its own failure.            *)
ExitZeroOnlyIfAllUp ==
    (pc = "exit" /\ queried = Components /\ exitCode = 0)
        => Down = {} /\ failedQueries = {}

=============================================================================
