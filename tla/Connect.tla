------------------------------- MODULE Connect ------------------------------
(***************************************************************************)
(* rhc connect (cmd/rhc/connect.go), after CliStartup: connectAction       *)
(* checks the --enable-feature/--disable-feature input, registers with     *)
(* RHSM, registers with Insights when the analytics feature is enabled,    *)
(* activates yggdrasil.service when the remote-management feature is       *)
(* enabled, and fills the ConnectResult record.                            *)
(*                                                                         *)
(* The features package is not among the sources: its verdict on the      *)
(* input and the three Enabled flags are free choices of Init.  Each call  *)
(* to RHSM, insights-client and systemd may fail.  The hostname and uid    *)
(* lines only print or fill JSON-only fields and are left out.             *)
(***************************************************************************)
EXTENDS CliStartup

Features == {"content", "analytics", "management"}

VARIABLES
    enabled,             \* enabled[f]: features.<f>Feature.Enabled
    featureInputValid,   \* features.CheckFeatureInput accepts the flags
    rhsmRegistered,      \* the host is registered with RHSM
    insightsRegistered,  \* the host is registered with Insights
    serviceActive,       \* yggdrasil.service is active
    attempted,           \* the later steps (Insights, activation) that ran
    result               \* ConnectResult: per feature Enabled/Successful/Error

connectVars == <<enabled, featureInputValid, rhsmRegistered, insightsRegistered,
                 serviceActive, attempted, result>>
vars == <<startupVars, connectVars>>

FeatureResults == [enabled : BOOLEAN, successful : BOOLEAN, error : BOOLEAN]
NoFeatureResult == [enabled |-> FALSE, successful |-> FALSE, error |-> FALSE]

Init ==
    /\ StartupInit
    /\ enabled \in [Features -> BOOLEAN]
    /\ featureInputValid \in BOOLEAN
    /\ rhsmRegistered \in BOOLEAN
    /\ insightsRegistered \in BOOLEAN
    /\ serviceActive \in BOOLEAN
    /\ attempted = {}
    /\ result = [rhsmConnected |-> FALSE, rhsmError |-> FALSE,
                 features |-> [f \in Features |-> NoFeatureResult]]

(* A step of the action: start-up's state is left alone. *)
Step(from, to) ==
    /\ pc = from
    /\ pc' = to
    /\ UNCHANGED <<configFile, fileEdits, cliLevel, format, extraArgs, configPath,
                   logLevel, machineReadable, exitCode>>

(* features.CheckFeatureInput: bad input exits with ExitCodeDataErr. *)
CheckFeatureInput ==
    /\ pc = "action"
    /\ IF featureInputValid
          THEN Step("action", "register-rhsm")
          ELSE /\ Exit(ExitCodeDataErr)
               /\ UNCHANGED <<configFile, fileEdits, cliLevel, format, extraArgs,
                              configPath, logLevel, machineReadable>>
    /\ UNCHANGED connectVars

(* A slip: the failed registration printed, not returned. *)
RegisterRHSMContinues ==
    /\ Step("register-rhsm", "register-insights")
    /\ \E fails \in BOOLEAN :
          IF fails THEN /\ result' = [result EXCEPT !.rhsmError = TRUE]
                        /\ UNCHANGED rhsmRegistered
          ELSE /\ rhsmRegistered' = TRUE
               /\ result' = [result EXCEPT !.rhsmConnected = TRUE]
    /\ UNCHANGED <<enabled, featureInputValid, insightsRegistered, serviceActive, attempted>>

(* 1. rhsm.Register: in human mode a failure ends connect (exit status 1 *)
(* from main); in machine-readable mode it is put in the result and      *)
(* connect goes on.                                                        *)
RegisterRHSM ==
    /\ pc = "register-rhsm"
    /\ \/ /\ rhsmRegistered' = TRUE
          /\ result' = [result EXCEPT !.rhsmConnected = TRUE]
          /\ Step("register-rhsm", "register-insights")
       \/ /\ UNCHANGED rhsmRegistered
          /\ IF machineReadable
                THEN /\ result' = [result EXCEPT !.rhsmError = TRUE]
                     /\ Step("register-rhsm", "register-insights")
                ELSE /\ Exit(1)
                     /\ UNCHANGED <<configFile, fileEdits, cliLevel, format, extraArgs,
                                    configPath, logLevel, machineReadable>>
                     /\ UNCHANGED result
    /\ UNCHANGED <<enabled, featureInputValid, insightsRegistered, serviceActive, attempted>>

(* A slip: the "if features.<f>Feature.Enabled" guard dropped. *)
EnableFeatureUnguarded(f, done, from, to) ==
    /\ Step(from, to)
    /\ attempted' = attempted \cup {f}
    /\ \/ /\ result' = [result EXCEPT !.features[f].error = machineReadable]
          /\ UNCHANGED done
       \/ /\ done' = TRUE
          /\ result' = [result EXCEPT !.features[f].enabled = enabled[f],
                                      !.features[f].successful = TRUE]

(* Steps 2 and 3 have one shape: when feature f is enabled, call the      *)
(* service (which may fail); a failure is put in the result (printed in   *)
(* human mode) and connect goes on; otherwise the feature's result is     *)
(* Enabled = the flag, Successful = TRUE.  done is what the call achieves. *)
EnableFeature(f, done, from, to) ==
    /\ Step(from, to)
    /\ attempted' = IF enabled[f] THEN attempted \cup {f} ELSE attempted
    /\ \/ /\ enabled[f]
          /\ result' = [result EXCEPT !.features[f].error = machineReadable]
          /\ UNCHANGED done
       \/ /\ done' = (done \/ enabled[f])
          /\ result' = [result EXCEPT !.features[f].enabled = enabled[f],
                                      !.features[f].successful = TRUE]

(* 2. insights.Register when the analytics feature is enabled. *)
RegisterInsights ==
    /\ EnableFeature("analytics", insightsRegistered, "register-insights", "activate")
    /\ UNCHANGED <<enabled, featureInputValid, rhsmRegistered, serviceActive>>

(* A slip: the activation error ignored. *)
ActivateServiceIgnoresError ==
    /\ Step("activate", "finish")
    /\ attempted' = IF enabled["management"] THEN attempted \cup {"management"} ELSE attempted
    /\ \E fails \in BOOLEAN :
          serviceActive' = (serviceActive \/ (enabled["management"] /\ ~fails))
    /\ result' = [result EXCEPT !.features["management"].enabled = enabled["management"],
                                !.features["management"].successful = TRUE]
    /\ UNCHANGED <<enabled, featureInputValid, rhsmRegistered, insightsRegistered>>

(* 3. activation.ActivateService when remote management is enabled. *)
ActivateService ==
    /\ EnableFeature("management", serviceActive, "activate", "finish")
    /\ UNCHANGED <<enabled, featureInputValid, rhsmRegistered, insightsRegistered>>

(* The end of connectAction: the content feature's result is set, the     *)
(* JSON document or the closing line printed, and connect succeeds.      *)
FinishConnect ==
    /\ pc = "finish"
    /\ result' = [result EXCEPT !.features["content"].enabled = enabled["content"],
                                !.features["content"].successful = TRUE]
    /\ Exit(0)
    /\ UNCHANGED <<configFile, fileEdits, cliLevel, format, extraArgs, configPath,
                   logLevel, machineReadable>>
    /\ UNCHANGED <<enabled, featureInputValid, rhsmRegistered, insightsRegistered,
                   serviceActive, attempted>>

ConnectAction ==
    \/ CheckFeatureInput
    \/ RegisterRHSM
    \/ RegisterInsights
    \/ ActivateService
    \/ FinishConnect

Next ==
    \/ (Startup \/ FileEdit) /\ UNCHANGED connectVars
    \/ ConnectAction

Spec == Init /\ [][Next]_vars /\ WF_vars((Startup /\ UNCHANGED connectVars) \/ ConnectAction)

-----------------------------------------------------------------------------

TypeOK ==
    /\ StartupTypeOK
    /\ pc \in StartupPcs \cup {"register-rhsm", "register-insights", "activate", "finish"}
    /\ enabled \in [Features -> BOOLEAN]
    /\ featureInputValid \in BOOLEAN
    /\ rhsmRegistered \in BOOLEAN
    /\ insightsRegistered \in BOOLEAN
    /\ serviceActive \in BOOLEAN
    /\ attempted \subseteq {f \in {"analytics", "management"} : enabled[f]}
    /\ result \in [rhsmConnected : BOOLEAN, rhsmError : BOOLEAN,
                   features : [Features -> FeatureResults]]

(* Insights registration and service activation only run on a host that  *)
(* RHSM registration succeeded on: a failed registration stops connect.  *)
NoStepAfterFailedRegistration ==
    attempted /= {} => rhsmRegistered

(* When connect has succeeded, what its result calls successful and      *)
(* enabled is true of the host: registered with RHSM for content, with   *)
(* Insights for analytics, the service active for remote management.     *)
SuccessClaimsAreTrue ==
    LET ok(f) == result.features[f].enabled /\ result.features[f].successful
    IN  (pc = "exit" /\ exitCode = 0) =>
            /\ ok("content") => rhsmRegistered
            /\ ok("analytics") => insightsRegistered
            /\ ok("management") => serviceActive

=============================================================================
