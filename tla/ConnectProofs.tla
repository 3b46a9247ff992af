---------------------------- MODULE ConnectProofs ---------------------------
(***************************************************************************)
(* Proofs about rhc connect (module Connect) for every instance of the    *)
(* constants: its type, that Insights registration and service activation *)
(* only run on a host registered with RHSM (NoStepAfterFailedRegistration)*)
(* and that what a successful connect reports is true                     *)
(* (SuccessClaimsAreTrue).                                                 *)
(*                                                                         *)
(* Neither property is inductive alone.  IInv adds that the output is not *)
(* machine-readable (so a failed rhsm.Register ends connect), that every  *)
(* pc past the RHSM step implies the registration, that exit status 0     *)
(* comes only from FinishConnect, and that a feature's result is marked   *)
(* enabled and successful only when its service call has taken effect,   *)
(* at every point, not only at the end.                                   *)
(***************************************************************************)
EXTENDS Connect, CliStartupProofs

(* The result calls feature f enabled and successful. *)
Claims(f) == result.features[f].enabled /\ result.features[f].successful

(* What the result claims is true of the host. *)
ClaimsHold ==
    /\ Claims("content") => rhsmRegistered
    /\ Claims("analytics") => insightsRegistered
    /\ Claims("management") => serviceActive

(* Past the RHSM step the host is registered; exit status 0 is only      *)
(* reached from there.                                                    *)
RegisteredWhenPast ==
    (pc \in {"register-insights", "activate", "finish"} \/ (pc = "exit" /\ exitCode = 0))
        => rhsmRegistered

(* The inductive invariant. *)
IInv ==
    /\ TypeOK
    /\ machineReadable = FALSE
    /\ RegisteredWhenPast
    /\ NoStepAfterFailedRegistration
    /\ ClaimsHold

(* The type of the ConnectResult record, as TypeOK states it. *)
ConnectResults == [rhsmConnected : BOOLEAN, rhsmError : BOOLEAN,
                   features : [Features -> FeatureResults]]

(* Setting the RHSM fields keeps the type and the features. *)
LEMMA SetRhsmField ==
    ASSUME NEW r \in ConnectResults
    PROVE  /\ [r EXCEPT !.rhsmConnected = TRUE] \in ConnectResults
           /\ [r EXCEPT !.rhsmConnected = TRUE].features = r.features
           /\ [r EXCEPT !.rhsmError = TRUE] \in ConnectResults
           /\ [r EXCEPT !.rhsmError = TRUE].features = r.features
BY DEF ConnectResults

-----------------------------------------------------------------------------
(* The initial states satisfy IInv: nothing is claimed or attempted. *)
LEMMA InitIInv == Init => IInv
<1> SUFFICES ASSUME Init PROVE IInv
  OBVIOUS
<1>1. StartupTypeOK /\ machineReadable = FALSE /\ pc = "main"
  BY StartupInitTypeOK DEF Init
<1>2. result \in ConnectResults
  BY DEF Init, ConnectResults, NoFeatureResult, FeatureResults
<1>3. \A f \in Features : ~Claims(f)
  BY DEF Init, Claims, NoFeatureResult
<1>4. TypeOK
  BY <1>1, <1>2 DEF Init, TypeOK, ConnectResults, StartupPcs
<1>5. QED
  BY <1>1, <1>3, <1>4 DEF IInv, RegisteredWhenPast, NoStepAfterFailedRegistration,
     ClaimsHold, Init, Features

(* A start-up step keeps IInv: it leaves connect's variables alone and    *)
(* never exits with status 0.                                             *)
LEMMA StartupStepIInv ==
    ASSUME IInv, Startup \/ FileEdit, UNCHANGED connectVars
    PROVE  IInv'
<1>1. /\ StartupTypeOK' /\ machineReadable' = FALSE
      /\ pc \in StartupFrom /\ pc' \in StartupTo \cup {pc}
      /\ pc' = "exit" => exitCode' \in {1, ExitCodeDataErr}
  BY StartupStep DEF IInv, TypeOK
<1>2. RegisteredWhenPast'
  BY <1>1, CliStartupAssumption DEF RegisteredWhenPast, StartupFrom, StartupTo
<1>3. TypeOK'
  BY <1>1 DEF IInv, TypeOK, connectVars, StartupFrom, StartupTo, StartupPcs
<1>4. QED
  BY <1>1, <1>2, <1>3 DEF IInv, NoStepAfterFailedRegistration, ClaimsHold, Claims,
     connectVars

(* CheckFeatureInput keeps IInv: bad input exits with ExitCodeDataErr. *)
LEMMA CheckFeatureInputIInv ==
    ASSUME IInv, CheckFeatureInput
    PROVE  IInv'
<1>1. /\ pc = "action" /\ pc' \in {"register-rhsm", "exit"}
      /\ pc' = "exit" => exitCode' = ExitCodeDataErr
      /\ StartupTypeOK' /\ machineReadable' = FALSE
      /\ UNCHANGED connectVars
  BY CliStartupAssumption DEF CheckFeatureInput, Step, Exit, IInv, TypeOK, StartupTypeOK
<1>2. QED
  BY <1>1, CliStartupAssumption DEF IInv, TypeOK, RegisteredWhenPast, StartupPcs,
     NoStepAfterFailedRegistration, ClaimsHold, Claims, connectVars

(* rhsm.Register keeps IInv: in human mode a failure ends connect with   *)
(* status 1, so the steps after it only run on a registered host.        *)
LEMMA RegisterRHSMIInv ==
    ASSUME IInv, RegisterRHSM
    PROVE  IInv'
<1>1. UNCHANGED <<enabled, featureInputValid, insightsRegistered, serviceActive, attempted>>
  BY DEF RegisterRHSM
<1>2. result \in ConnectResults
  BY DEF IInv, TypeOK, ConnectResults
<1>3. CASE rhsmRegistered' = TRUE /\ result' = [result EXCEPT !.rhsmConnected = TRUE]
                                  /\ Step("register-rhsm", "register-insights")
  <2>1. result' \in ConnectResults /\ result'.features = result.features
    BY <1>2, <1>3, SetRhsmField
  <2>2. StartupTypeOK' /\ machineReadable' = FALSE /\ pc' = "register-insights"
    BY <1>3 DEF Step, IInv, TypeOK, StartupTypeOK
  <2>3. QED
    BY <1>1, <1>3, <2>1, <2>2 DEF IInv, TypeOK, ConnectResults, StartupPcs,
       RegisteredWhenPast, NoStepAfterFailedRegistration, ClaimsHold, Claims
<1>4. CASE UNCHANGED rhsmRegistered /\ ~machineReadable /\ Exit(1)
           /\ UNCHANGED <<configFile, fileEdits, cliLevel, format, extraArgs,
                          configPath, logLevel, machineReadable>>
           /\ UNCHANGED result
  BY <1>1, <1>4 DEF Exit, IInv, TypeOK, StartupTypeOK, StartupPcs,
     RegisteredWhenPast, NoStepAfterFailedRegistration, ClaimsHold, Claims
<1>5. QED
  BY <1>3, <1>4 DEF RegisterRHSM, IInv

(* Insights registration keeps IInv: it runs past the RHSM step, so on a *)
(* registered host, and claims analytics only when it registered.        *)
LEMMA RegisterInsightsIInv ==
    ASSUME IInv, RegisterInsights
    PROVE  IInv'
<1> DEFINE f == "analytics"
<1>1. /\ pc = "register-insights" /\ pc' = "activate"
      /\ StartupTypeOK' /\ machineReadable' = FALSE
      /\ attempted' = IF enabled[f] THEN attempted \cup {f} ELSE attempted
      /\ UNCHANGED <<enabled, featureInputValid, rhsmRegistered, serviceActive>>
  BY DEF RegisterInsights, EnableFeature, Step, IInv, TypeOK, StartupTypeOK
<1>2. rhsmRegistered /\ result \in ConnectResults /\ f \in Features
  BY <1>1 DEF IInv, RegisteredWhenPast, TypeOK, ConnectResults, Features
<1>3. attempted' \subseteq {g \in {"analytics", "management"} : enabled'[g]}
  BY <1>1 DEF IInv, TypeOK
<1>4. CASE enabled[f] /\ result' = [result EXCEPT !.features[f].error = machineReadable]
           /\ UNCHANGED insightsRegistered
  <2>1. result' \in ConnectResults
        /\ \A g \in Features : Claims(g)' = Claims(g)
    BY <1>2, <1>4, ZenonT(120) DEF IInv, Claims, ConnectResults, FeatureResults
  <2>2. QED
    BY <1>1, <1>2, <1>3, <1>4, <2>1 DEF IInv, TypeOK, ConnectResults, StartupPcs,
       RegisteredWhenPast, NoStepAfterFailedRegistration, ClaimsHold, Features
<1>5. CASE insightsRegistered' = (insightsRegistered \/ enabled[f])
           /\ result' = [result EXCEPT !.features[f].enabled = enabled[f],
                                       !.features[f].successful = TRUE]
  <2>1. enabled[f] \in BOOLEAN
    BY DEF IInv, TypeOK, Features
  <2>2. /\ result' \in ConnectResults
        /\ result'.features[f].enabled = enabled[f]
        /\ \A g \in Features \ {f} : result'.features[g] = result.features[g]
    BY <1>2, <1>5, <2>1, ZenonT(120) DEF ConnectResults, FeatureResults
  <2>3. ClaimsHold'
    BY <1>1, <1>5, <2>2 DEF IInv, ClaimsHold, Claims, Features
  <2>4. QED
    BY <1>1, <1>2, <1>3, <1>5, <2>1, <2>2, <2>3 DEF IInv, TypeOK, ConnectResults,
       StartupPcs, RegisteredWhenPast, NoStepAfterFailedRegistration
<1>6. QED
  BY <1>4, <1>5 DEF RegisterInsights, EnableFeature

(* Service activation keeps IInv, in the same way. *)
LEMMA ActivateServiceIInv ==
    ASSUME IInv, ActivateService
    PROVE  IInv'
<1> DEFINE f == "management"
<1>1. /\ pc = "activate" /\ pc' = "finish"
      /\ StartupTypeOK' /\ machineReadable' = FALSE
      /\ attempted' = IF enabled[f] THEN attempted \cup {f} ELSE attempted
      /\ UNCHANGED <<enabled, featureInputValid, rhsmRegistered, insightsRegistered>>
  BY DEF ActivateService, EnableFeature, Step, IInv, TypeOK, StartupTypeOK
<1>2. rhsmRegistered /\ result \in ConnectResults /\ f \in Features
  BY <1>1 DEF IInv, RegisteredWhenPast, TypeOK, ConnectResults, Features
<1>3. attempted' \subseteq {g \in {"analytics", "management"} : enabled'[g]}
  BY <1>1 DEF IInv, TypeOK
<1>4. CASE enabled[f] /\ result' = [result EXCEPT !.features[f].error = machineReadable]
           /\ UNCHANGED serviceActive
  <2>1. result' \in ConnectResults
        /\ \A g \in Features : Claims(g)' = Claims(g)
    BY <1>2, <1>4, ZenonT(120) DEF IInv, Claims, ConnectResults, FeatureResults
  <2>2. QED
    BY <1>1, <1>2, <1>3, <1>4, <2>1 DEF IInv, TypeOK, ConnectResults, StartupPcs,
       RegisteredWhenPast, NoStepAfterFailedRegistration, ClaimsHold, Features
<1>5. CASE serviceActive' = (serviceActive \/ enabled[f])
           /\ result' = [result EXCEPT !.features[f].enabled = enabled[f],
                                       !.features[f].successful = TRUE]
  <2>1. enabled[f] \in BOOLEAN
    BY DEF IInv, TypeOK, Features
  <2>2. /\ result' \in ConnectResults
        /\ result'.features[f].enabled = enabled[f]
        /\ \A g \in Features \ {f} : result'.features[g] = result.features[g]
    BY <1>2, <1>5, <2>1, ZenonT(120) DEF ConnectResults, FeatureResults
  <2>3. ClaimsHold'
    BY <1>1, <1>5, <2>2 DEF IInv, ClaimsHold, Claims, Features
  <2>4. QED
    BY <1>1, <1>2, <1>3, <1>5, <2>1, <2>2, <2>3 DEF IInv, TypeOK, ConnectResults,
       StartupPcs, RegisteredWhenPast, NoStepAfterFailedRegistration
<1>6. QED
  BY <1>4, <1>5 DEF ActivateService, EnableFeature

(* The end of connectAction keeps IInv: it claims content access, and    *)
(* the host is registered since pc is past the RHSM step.                 *)
LEMMA FinishConnectIInv ==
    ASSUME IInv, FinishConnect
    PROVE  IInv'
<1> DEFINE f == "content"
<1>1. /\ pc = "finish" /\ pc' = "exit" /\ exitCode' = 0
      /\ StartupTypeOK' /\ machineReadable' = FALSE
      /\ UNCHANGED <<enabled, featureInputValid, rhsmRegistered, insightsRegistered,
                     serviceActive, attempted>>
  BY DEF FinishConnect, Exit, IInv, TypeOK, StartupTypeOK
<1>2. rhsmRegistered /\ result \in ConnectResults /\ f \in Features /\ enabled[f] \in BOOLEAN
  BY <1>1 DEF IInv, RegisteredWhenPast, TypeOK, ConnectResults, Features
<1>3. result' = [result EXCEPT !.features[f].enabled = enabled[f],
                                !.features[f].successful = TRUE]
  BY DEF FinishConnect
<1>4. /\ result' \in ConnectResults
      /\ \A g \in Features \ {f} : result'.features[g] = result.features[g]
  <2>1. result.features \in [Features -> FeatureResults] /\ result.features[f] \in FeatureResults
    BY <1>2 DEF ConnectResults
  <2>2. result'.features = [result.features EXCEPT ![f].enabled = enabled[f],
                                                   ![f].successful = TRUE]
    BY <1>3
  <2>3. result'.features \in [Features -> FeatureResults]
    BY <1>2, <2>1, <2>2, Zenon DEF FeatureResults
  <2>4. result' \in ConnectResults
    BY <1>2, <1>3, <2>3 DEF ConnectResults
  <2>5. QED
    BY <2>1, <2>2, <2>4
<1>5. /\ Claims("analytics")' = Claims("analytics")
      /\ Claims("management")' = Claims("management")
  BY <1>4 DEF Claims, Features
<1>6. ClaimsHold'
  BY <1>1, <1>2, <1>5 DEF IInv, ClaimsHold
<1>7. QED
  BY <1>1, <1>2, <1>4, <1>6 DEF IInv, TypeOK, ConnectResults, StartupPcs,
     RegisteredWhenPast, NoStepAfterFailedRegistration

(* Every step keeps IInv. *)
LEMMA NextIInv == IInv /\ [Next]_vars => IInv'
<1> SUFFICES ASSUME IInv, [Next]_vars PROVE IInv'
  OBVIOUS
<1>1. CASE (Startup \/ FileEdit) /\ UNCHANGED connectVars
  BY <1>1, StartupStepIInv
<1>2. CASE CheckFeatureInput
  BY <1>2, CheckFeatureInputIInv
<1>3. CASE RegisterRHSM
  BY <1>3, RegisterRHSMIInv
<1>4. CASE RegisterInsights
  BY <1>4, RegisterInsightsIInv
<1>5. CASE ActivateService
  BY <1>5, ActivateServiceIInv
<1>6. CASE FinishConnect
  BY <1>6, FinishConnectIInv
<1>7. CASE UNCHANGED vars
  BY <1>7 DEF vars, startupVars, connectVars, IInv, TypeOK, StartupTypeOK,
     RegisteredWhenPast, NoStepAfterFailedRegistration, ClaimsHold, Claims
<1>8. QED
  BY <1>1, <1>2, <1>3, <1>4, <1>5, <1>6, <1>7 DEF Next, ConnectAction

THEOREM ConnectInvariant == Spec => []IInv
BY InitIInv, NextIInv, PTL DEF Spec

(* Every reachable state of connect is well typed (TypeOK); in           *)
(* particular only enabled features are ever attempted.                   *)
THEOREM ConnectTypeCorrect == Spec => []TypeOK
BY ConnectInvariant, PTL DEF IInv

(* Insights registration and service activation never run on a host that *)
(* RHSM registration failed on (NoStepAfterFailedRegistration): in human *)
(* mode connectAction returns at its first error.                         *)
THEOREM NoStepAfterFailedRegistrationHolds == Spec => []NoStepAfterFailedRegistration
BY ConnectInvariant, PTL DEF IInv

(* When connect succeeds, what its result calls enabled and successful   *)
(* is true of the host (SuccessClaimsAreTrue).                            *)
THEOREM SuccessClaimsAreTrueHolds == Spec => []SuccessClaimsAreTrue
<1>1. IInv => SuccessClaimsAreTrue
  BY DEF IInv, ClaimsHold, Claims, SuccessClaimsAreTrue
<1>2. QED
  BY ConnectInvariant, <1>1, PTL

=============================================================================
