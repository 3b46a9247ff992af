------------------------- MODULE ConfResolverProofs -------------------------
(* Proofs about ConfResolver, for every value of the constants.           *)
EXTENDS ConfResolver, TLAPS

(* Spec invariant I1: the embedded defaults give every field a value that *)
(* Config.Update accepts, the log-level among the four names.              *)
BaselineTotal ==
    /\ Baseline \in DTO
    /\ Baseline /= Malformed
    /\ Baseline.CertFile /= Absent
    /\ Baseline.KeyFile /= Absent
    /\ Baseline.CADir /= Absent
    /\ Baseline.LogLevel \in DOMAIN Levels

USE ConstantsAssumption

LEMMA ZeroConfigType == ZeroConfig \in Config
<1>1. EmptyString \in Paths /\ 0 \in Int
  OBVIOUS
<1>2. QED
  BY <1>1 DEF ZeroConfig, Config

(* Config.Update maps a Config and a configDTO to a Config. *)
LEMMA UpdateType ==
    ASSUME NEW c \in Config, NEW d \in DTO
    PROVE  Update(c, d) \in Config
<1>1. Keep(d.CertFile, c.CertFile) \in Paths
  BY DEF Keep, Config, DTO
<1>2. Keep(d.KeyFile, c.KeyFile) \in Paths
  BY DEF Keep, Config, DTO
<1>3. Keep(d.CADir, c.CADir) \in Paths
  BY DEF Keep, Config, DTO
<1>4. (IF d.LogLevel \in DOMAIN Levels THEN Levels[d.LogLevel] ELSE c.LogLevel) \in Int
  BY DEF Levels, Config
<1>5. QED
  BY <1>1, <1>2, <1>3, <1>4 DEF Update, Config

(* Applying total defaults erases every trace of the value they are       *)
(* applied to.                                                             *)
LEMMA UpdateWithTotalBaseline ==
    ASSUME BaselineTotal, NEW c \in Config
    PROVE  Update(c, Baseline) = BaselineConfig
BY DEF BaselineTotal, Update, Keep, BaselineConfig

(* The type invariant holds in every reachable state.                     *)
THEOREM TypeCorrect == Spec => []TypeOK
<1>1. Init => TypeOK
  BY ZeroConfigType DEF Init, TypeOK, NoError, Errors
<1>2. TypeOK /\ [Next]_vars => TypeOK'
  <2> SUFFICES ASSUME TypeOK, [Next]_vars PROVE TypeOK'
    OBVIOUS
  <2> USE DEF TypeOK
  <2>1. ASSUME NEW at \in {"baseline", "main", "readdir", "load"},
               NEW kind \in {"notexist", "io", "parse"},
               Fail(at, kind)
        PROVE  err' \in Errors /\ pc' = "install"
                /\ UNCHANGED <<resolved, pending, dtos, configuration>>
    BY <2>1 DEF Fail, Errors
  <2>2. CASE ReadBaseline
    <3>1. CASE Baseline = Malformed
      BY <2>2, <3>1 DEF ReadBaseline, Errors, fsVars
    <3>2. CASE Baseline /= Malformed
      BY <2>2, <3>2, UpdateType DEF ReadBaseline, fsVars
    <3>3. QED BY <3>1, <3>2
  <2>3. CASE ReadMain
    BY <2>1, <2>3, UpdateType DEF ReadMain, fsVars
  <2>4. CASE StatDropInDir
    BY <2>4 DEF StatDropInDir, fsVars
  <2>5. CASE ReadDropInDir
    BY <2>1, <2>5 DEF ReadDropInDir, FindDropInFiles, fsVars
  <2>6. CASE LoadDropIn
    <3>1. PICK n \in pending :
                 /\ \A m \in pending : n <= m
                 /\ \/ entries[n] = Missing /\ Fail("load", "notexist")
                    \/ entries[n] \in {Unreadable, IsDir} /\ Fail("load", "io")
                    \/ entries[n] = Malformed /\ Fail("load", "parse")
                    \/ /\ entries[n] \in Docs
                       /\ dtos' = Append(dtos, entries[n])
                       /\ pending' = pending \ {n}
                       /\ UNCHANGED <<pc, resolved, err, configuration>>
      BY <2>6 DEF LoadDropIn
    <3>2. UNCHANGED fsVars
      BY <2>6 DEF LoadDropIn
    <3>3. CASE entries[n] \in Docs /\ dtos' = Append(dtos, entries[n])
               /\ pending' = pending \ {n} /\ UNCHANGED <<pc, resolved, err, configuration>>
      <4>1. entries[n] \in DTO
        BY <3>3
      <4>2. dtos' \in Seq(DTO)
        BY <3>3, <4>1
      <4>3. QED
        BY <3>2, <3>3, <4>2 DEF fsVars
    <3>4. QED
      BY <2>1, <3>1, <3>2, <3>3 DEF fsVars
  <2>7. CASE DropInsParsed
    BY <2>7 DEF DropInsParsed, fsVars
  <2>8. CASE ApplyDropIn
    BY <2>8, UpdateType DEF ApplyDropIn, fsVars
  <2>9. CASE ReadReturns
    BY <2>9 DEF ReadReturns, fsVars
  <2>10. CASE Install
    BY <2>10, UpdateType DEF Install, fsVars, Errors, NoError
  <2>11. CASE FsChange
    BY <2>11 DEF FsChange, procVars
  <2>12. CASE UNCHANGED vars
    BY <2>12 DEF vars
  <2>13. QED
    BY <2>2, <2>3, <2>4, <2>5, <2>6, <2>7, <2>8, <2>9, <2>10, <2>11, <2>12
       DEF Next, Resolver
<1>3. QED
  BY <1>1, <1>2, PTL DEF Spec

(* Once init() has fallen back after a failed Read, conf.Configuration is *)
(* exactly the embedded defaults' configuration: nothing the main file or  *)
(* the drop-ins set before the failure survives, provided the defaults     *)
(* give every field (spec I1).                                             *)
THEOREM FallbackCorrect == BaselineTotal => (Spec => []FallbackIsBaselineOnly)
<1> SUFFICES ASSUME BaselineTotal PROVE Spec => []FallbackIsBaselineOnly
  OBVIOUS
<1>1. Init => FallbackIsBaselineOnly
  BY DEF Init, FallbackIsBaselineOnly
<1>2. TypeOK /\ FallbackIsBaselineOnly /\ [Next]_vars => FallbackIsBaselineOnly'
  <2> SUFFICES ASSUME TypeOK, FallbackIsBaselineOnly, [Next]_vars
               PROVE  FallbackIsBaselineOnly'
    OBVIOUS
  <2> USE DEF FallbackIsBaselineOnly
  <2>1. CASE Install
    <3>1. CASE err = NoError
      BY <2>1, <3>1 DEF Install
    <3>2. CASE err /= NoError
      <4>1. configuration' = Update(resolved, Baseline)
        BY <2>1, <3>2 DEF Install, BaselineTotal
      <4>2. Update(resolved, Baseline) = BaselineConfig
        BY UpdateWithTotalBaseline DEF TypeOK
      <4>3. QED
        BY <4>1, <4>2
    <3>3. QED
      BY <3>1, <3>2
  <2>2. CASE ReadBaseline
    BY <2>2 DEF ReadBaseline
  <2>3. CASE ReadMain
    BY <2>3 DEF ReadMain, Fail
  <2>4. CASE StatDropInDir
    BY <2>4 DEF StatDropInDir
  <2>5. CASE ReadDropInDir
    BY <2>5 DEF ReadDropInDir, Fail
  <2>6. CASE LoadDropIn
    BY <2>6 DEF LoadDropIn, Fail
  <2>7. CASE DropInsParsed
    BY <2>7 DEF DropInsParsed
  <2>8. CASE ApplyDropIn
    BY <2>8 DEF ApplyDropIn
  <2>9. CASE ReadReturns
    BY <2>9 DEF ReadReturns
  <2>10. CASE FsChange
    BY <2>10 DEF FsChange, procVars
  <2>11. CASE UNCHANGED vars
    BY <2>11 DEF vars
  <2>12. QED
    BY <2>1, <2>2, <2>3, <2>4, <2>5, <2>6, <2>7, <2>8, <2>9, <2>10, <2>11
       DEF Next, Resolver
<1>3. QED
  BY <1>1, <1>2, TypeCorrect, PTL DEF Spec

=============================================================================
