---------------------------- MODULE StatusProofs ----------------------------
(***************************************************************************)
(* Proofs about rhc status (module Status) for every instance of the      *)
(* constants: its type, and that when every query answered its exit      *)
(* status is the number of components that are down (ExitCodeCountsDown). *)
(*                                                                         *)
(* Neither is inductive alone.  IInv says which queries have run at each  *)
(* pc, that returnCode so far counts exactly what the queries that ran    *)
(* found down (a failed insights-client query counting as down, a failed *)
(* D-Bus or systemd query not counting), that the process exits with     *)
(* returnCode once all three ran, and that the output is not machine-    *)
(* readable, the mode in which an inactive unit counts.                  *)
(***************************************************************************)
EXTENDS Status, CliStartupProofs, FiniteSetTheorems

(* 1 if b holds, else 0. *)
Ind(b) == IF b THEN 1 ELSE 0

(* What returnCode has counted so far: one per query that ran and found   *)
(* its component down, and one for a failed insights-client query.       *)
CountedSoFar ==
    Ind("rhsm" \in queried \ failedQueries /\ ~consumerUUID)
    + Ind("insights" \in queried /\ ("insights" \in failedQueries \/ ~insightsRegistered))
    + Ind("yggdrasil" \in queried \ failedQueries /\ unitState /= "active")

(* The queries that have run, read off pc. *)
QueriedByPc ==
    /\ pc \in StartupPcs \ {"exit"} => queried = {}
    /\ pc = "insights" => queried = {"rhsm"}
    /\ pc = "yggdrasil" => queried = {"rhsm", "insights"}
    /\ pc = "finish" => queried = Components
    /\ pc = "exit" => queried \in {{}, Components}

(* The inductive invariant. *)
IInv ==
    /\ TypeOK
    /\ machineReadable = FALSE
    /\ QueriedByPc
    /\ returnCode = CountedSoFar
    /\ (pc = "exit" /\ queried = Components) => exitCode = returnCode


(* The size of a set of components is the sum of its indicators. *)
LEMMA CardinalityOfComponents ==
    ASSUME NEW S \in SUBSET Components
    PROVE  /\ IsFiniteSet(S)
           /\ Cardinality(S) = Ind("rhsm" \in S) + Ind("insights" \in S)
                               + Ind("yggdrasil" \in S)
<1> DEFINE S1 == S \cap {"rhsm"}
           S2 == S \cap {"rhsm", "insights"}
<1>1. IsFiniteSet(S1) /\ Cardinality(S1) = Ind("rhsm" \in S)
  <2>1. CASE "rhsm" \in S
    <3>1. S1 = {"rhsm"}
      BY <2>1
    <3>2. QED
      BY <3>1, FS_Singleton DEF Ind
  <2>2. CASE "rhsm" \notin S
    <3>1. S1 = {}
      BY <2>2
    <3>2. QED
      BY <3>1, FS_EmptySet DEF Ind
  <2>3. QED
    BY <2>1, <2>2
<1>2. IsFiniteSet(S2) /\ Cardinality(S2) = Ind("rhsm" \in S) + Ind("insights" \in S)
  <2>1. CASE "insights" \in S
    <3>1. S2 = S1 \cup {"insights"} /\ "insights" \notin S1
      BY <2>1
    <3>2. QED
      BY <1>1, <2>1, <3>1, FS_AddElement DEF Ind
  <2>2. CASE "insights" \notin S
    <3>1. S2 = S1
      BY <2>2
    <3>2. QED
      BY <1>1, <2>2, <3>1 DEF Ind
  <2>3. QED
    BY <2>1, <2>2
<1>3. CASE "yggdrasil" \in S
  <2>1. S = S2 \cup {"yggdrasil"} /\ "yggdrasil" \notin S2
    BY <1>3 DEF Components
  <2>2. QED
    BY <1>2, <1>3, <2>1, FS_AddElement DEF Ind
<1>4. CASE "yggdrasil" \notin S
  <2>1. S = S2
    BY <1>4 DEF Components
  <2>2. QED
    BY <1>2, <1>4, <2>1 DEF Ind
<1>5. QED
  BY <1>3, <1>4

(* There are three components. *)
LEMMA ThreeComponents == Cardinality(Components) = 3
BY CardinalityOfComponents DEF Components, Ind

(* returnCode, when it counts as IInv says, is within TypeOK's bounds. *)
LEMMA CountedSoFarType == CountedSoFar \in 0..Cardinality(Components)
BY ThreeComponents DEF CountedSoFar, Ind


-----------------------------------------------------------------------------
(* The initial states satisfy IInv. *)
LEMMA InitIInv == Init => IInv
<1> SUFFICES ASSUME Init PROVE IInv
  OBVIOUS
<1>1. StartupTypeOK /\ machineReadable = FALSE /\ pc = "main"
  BY StartupInitTypeOK DEF Init
<1>2. returnCode = 0 /\ CountedSoFar = 0 /\ queried = {} /\ failedQueries = {}
  BY DEF Init, CountedSoFar, Ind
<1>3. status \in [rhsmConnected : BOOLEAN, insightsConnected : BOOLEAN,
                  yggdrasilRunning : BOOLEAN]
  BY DEF Init
<1>4. returnCode \in 0..Cardinality(Components)
  BY <1>2, ThreeComponents
<1>5. TypeOK
  BY <1>1, <1>2, <1>3, <1>4 DEF Init, TypeOK, StartupPcs
<1>6. QED
  BY <1>1, <1>2, <1>5 DEF IInv, QueriedByPc, StartupPcs

(* A start-up step keeps IInv: no query has run before the action, and    *)
(* start-up leaves status' variables alone.                               *)
LEMMA StartupStepIInv ==
    ASSUME IInv, Startup \/ FileEdit, UNCHANGED statusVars
    PROVE  IInv'
<1>1. /\ StartupTypeOK' /\ machineReadable' = FALSE
      /\ pc \in StartupFrom /\ pc' \in StartupTo \cup {pc}
  BY StartupStep DEF IInv, TypeOK
<1>2. queried = {} /\ queried' = {}
  BY <1>1 DEF IInv, QueriedByPc, StartupFrom, StartupPcs, statusVars
<1>3. pc' \in StartupPcs
  BY <1>1 DEF StartupFrom, StartupTo, StartupPcs
<1>4. TypeOK'
  BY <1>1, <1>3 DEF IInv, TypeOK, statusVars
<1>5. QueriedByPc'
  BY <1>2, <1>3 DEF QueriedByPc, StartupPcs
<1>6. returnCode' = CountedSoFar'
  BY DEF IInv, CountedSoFar, statusVars
<1>7. Components /= {}
  BY DEF Components
<1>8. QED
  BY <1>1, <1>2, <1>4, <1>5, <1>6, <1>7 DEF IInv

(* rhsmStatus, the first query, keeps IInv. *)
LEMMA RhsmStatusIInv ==
    ASSUME IInv, RhsmStatus
    PROVE  IInv'
<1>1. PICK fails \in BOOLEAN : Query("action", "insights", "rhsm", fails)
                               /\ returnCode' = (IF ~fails /\ ~consumerUUID
                                                    THEN returnCode + 1 ELSE returnCode)
                               /\ status' = status
  BY DEF RhsmStatus, IInv
<1>2. /\ queried = {} /\ returnCode = 0
      /\ queried' = {"rhsm"} /\ pc' = "insights"
      /\ failedQueries' = IF fails THEN {"rhsm"} ELSE {}
      /\ StartupTypeOK' /\ machineReadable' = FALSE
      /\ UNCHANGED <<consumerUUID, insightsRegistered, unitState>>
  BY <1>1 DEF Query, StartupTypeOK, IInv, QueriedByPc, StartupPcs, TypeOK, CountedSoFar, Ind
<1>3. returnCode' = CountedSoFar'
  BY <1>1, <1>2 DEF CountedSoFar, Ind
<1>4. TypeOK'
  BY <1>1, <1>2, <1>3, ThreeComponents DEF IInv, TypeOK, CountedSoFar, Ind,
     Components, UnitStates
<1>5. QED
  BY <1>2, <1>3, <1>4 DEF IInv, QueriedByPc, StartupPcs, Components

(* insightsStatus keeps IInv: it counts a failure and "not registered". *)
LEMMA InsightsStatusIInv ==
    ASSUME IInv, InsightsStatus
    PROVE  IInv'
<1>1. PICK fails \in BOOLEAN : Query("insights", "yggdrasil", "insights", fails)
                               /\ returnCode' = (IF fails \/ ~insightsRegistered
                                                    THEN returnCode + 1 ELSE returnCode)
                               /\ status' = status
  BY DEF InsightsStatus, IInv
<1>2. /\ queried = {"rhsm"} /\ queried' = {"rhsm", "insights"} /\ pc' = "yggdrasil"
      /\ failedQueries \subseteq {"rhsm"}
      /\ failedQueries' = IF fails THEN failedQueries \cup {"insights"} ELSE failedQueries
      /\ StartupTypeOK' /\ machineReadable' = FALSE
      /\ UNCHANGED <<consumerUUID, insightsRegistered, unitState>>
  BY <1>1 DEF Query, IInv, QueriedByPc, TypeOK, StartupTypeOK
<1>3. returnCode' = CountedSoFar'
  BY <1>1, <1>2 DEF IInv, CountedSoFar, Ind
<1>4. TypeOK'
  BY <1>1, <1>2, <1>3, ThreeComponents DEF IInv, TypeOK, CountedSoFar, Ind,
     Components, UnitStates
<1>5. QED
  BY <1>2, <1>3, <1>4 DEF IInv, QueriedByPc, StartupPcs, Components

(* yggdrasilStatus keeps IInv: in human mode a listed unit that is not    *)
(* active counts one, as does a unit that is not listed.                   *)
LEMMA YggdrasilStatusIInv ==
    ASSUME IInv, YggdrasilStatus
    PROVE  IInv'
<1>1. PICK fails \in BOOLEAN :
         /\ Query("yggdrasil", "finish", "yggdrasil", fails)
         /\ returnCode' = (IF ~fails /\ (unitState = "absent"
                                        \/ (~machineReadable /\ unitState /= "active"))
                              THEN returnCode + 1 ELSE returnCode)
         /\ status' = status
  BY DEF YggdrasilStatus, IInv
<1>2. /\ queried = {"rhsm", "insights"} /\ queried' = Components /\ pc' = "finish"
      /\ failedQueries \subseteq {"rhsm", "insights"}
      /\ failedQueries' = IF fails THEN failedQueries \cup {"yggdrasil"} ELSE failedQueries
      /\ StartupTypeOK' /\ machineReadable' = FALSE
      /\ UNCHANGED <<consumerUUID, insightsRegistered, unitState>>
  BY <1>1 DEF Query, IInv, QueriedByPc, TypeOK, StartupTypeOK, Components
<1>3. returnCode' = CountedSoFar'
  BY <1>1, <1>2 DEF IInv, CountedSoFar, Ind, Components
<1>4. TypeOK'
  BY <1>1, <1>2, <1>3, ThreeComponents DEF IInv, TypeOK, CountedSoFar, Ind,
     Components, UnitStates
<1>5. QED
  BY <1>2, <1>3, <1>4 DEF IInv, QueriedByPc, StartupPcs, Components

(* os.Exit(returnCode) keeps IInv. *)
LEMMA ExitWithReturnCodeIInv ==
    ASSUME IInv, ExitWithReturnCode
    PROVE  IInv'
<1>1. queried = Components /\ pc' = "exit" /\ exitCode' = returnCode /\ UNCHANGED statusVars
  BY DEF ExitWithReturnCode, Exit, IInv, QueriedByPc
<1>2. returnCode \in Nat
  BY ThreeComponents DEF IInv, TypeOK
<1>3. TypeOK'
  BY <1>1, <1>2 DEF ExitWithReturnCode, IInv, TypeOK, StartupTypeOK, statusVars, StartupPcs
<1>4. QED
  BY <1>1, <1>3 DEF ExitWithReturnCode, IInv, QueriedByPc, CountedSoFar, statusVars

(* Every step keeps IInv. *)
LEMMA NextIInv == IInv /\ [Next]_vars => IInv'
<1> SUFFICES ASSUME IInv, [Next]_vars PROVE IInv'
  OBVIOUS
<1>1. CASE (Startup \/ FileEdit) /\ UNCHANGED statusVars
  BY <1>1, StartupStepIInv
<1>2. CASE RhsmStatus
  BY <1>2, RhsmStatusIInv
<1>3. CASE InsightsStatus
  BY <1>3, InsightsStatusIInv
<1>4. CASE YggdrasilStatus
  BY <1>4, YggdrasilStatusIInv
<1>5. CASE ExitWithReturnCode
  BY <1>5, ExitWithReturnCodeIInv
<1>6. CASE UNCHANGED vars
  BY <1>6 DEF vars, startupVars, statusVars, IInv, TypeOK, StartupTypeOK, QueriedByPc,
     CountedSoFar
<1>7. QED
  BY <1>1, <1>2, <1>3, <1>4, <1>5, <1>6 DEF Next, StatusAction

THEOREM StatusInvariant == Spec => []IInv
BY InitIInv, NextIInv, PTL DEF Spec

(* Every reachable state of status is well typed; in particular the      *)
(* returnCode it exits with is at most the number of components (TypeOK). *)
THEOREM StatusTypeCorrect == Spec => []TypeOK
BY StatusInvariant, PTL DEF IInv

(* IInv implies ExitCodeCountsDown: with no failed query, what was      *)
(* counted is exactly the set of components that are down.              *)
LEMMA IInvExitCodeCountsDown == IInv => ExitCodeCountsDown
<1> SUFFICES ASSUME IInv, pc = "exit", queried = Components, failedQueries = {}
             PROVE  exitCode = Cardinality(Down)
  BY DEF ExitCodeCountsDown
<1>1. exitCode = Ind(~consumerUUID) + Ind(~insightsRegistered) + Ind(unitState /= "active")
  BY DEF IInv, CountedSoFar, Ind, Components
<1>2. Down \in SUBSET Components
  BY DEF Down
<1>3. /\ ("rhsm" \in Down) = ~consumerUUID
      /\ ("insights" \in Down) = ~insightsRegistered
      /\ ("yggdrasil" \in Down) = (unitState /= "active")
  BY DEF Down, Components
<1>4. QED
  BY <1>1, <1>2, <1>3, CardinalityOfComponents

(* When every query answered, status exits with the number of components *)
(* that are down (ExitCodeCountsDown): rhsmStatus, insightsStatus and    *)
(* yggdrasilStatus each count their component exactly when it is down.  *)
THEOREM ExitCodeCountsDownHolds == Spec => []ExitCodeCountsDown
BY StatusInvariant, IInvExitCodeCountsDown, PTL

=============================================================================
