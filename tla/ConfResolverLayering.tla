------------------------ MODULE ConfResolverLayering ------------------------
(***************************************************************************)
(* The proof that, when no other process edits /etc/rhc, init() installs  *)
(* the documented layered configuration (InstalledIsLayeredResult): each *)
(* field from the last of defaults, main file and sorted .toml drop-ins  *)
(* that sets it, or the defaults alone when a file is broken.            *)
(*                                                                         *)
(* Read does not compute the layered result field by field: it folds     *)
(* Config.Update over the documents in load order.  LInv states how far  *)
(* the fold has got at each pc: resolved is the layered result of the    *)
(* layers applied so far, and dtos holds the documents of the remaining  *)
(* drop-ins in the order of their names, all greater than those applied. *)
(* The witness of that order is a sequence of names s.                    *)
(***************************************************************************)
EXTENDS ConfResolverProofs, SequenceTheorems

(* The defaults and the main file as layers. *)
BaseLayers == {-2} \cup (IF mainFile \in Docs THEN {-1} ELSE {})

(* The drop-in names Read is to apply. *)
DropNames == IF dropInDir = "present" THEN OverrideFiles ELSE {}

(* s lists names in increasing order, and dtos holds their documents. *)
Sorted(s) == \A i, j \in DOMAIN s : i < j => s[i] < s[j]
NamesOf(s) == {s[i] : i \in DOMAIN s}
Lists(s) == dtos = [i \in DOMAIN s |-> entries[s[i]]]

(* Every name of A comes before every name of B. *)
Precedes(A, B) == \A a \in A, b \in B : a < b

(* Read's progress, when no other process has touched /etc/rhc. *)
LInv ==
    fsChanges = 0 =>
      /\ pc \in {"baseline", "main", "stat", "readdir", "load", "apply"} => err = NoError
      /\ pc \in {"baseline", "main", "stat", "readdir"} => dtos = <<>>
      /\ pc = "baseline" => resolved = ZeroConfig
      /\ pc \in {"main", "stat", "readdir", "load", "apply"} => Baseline \in DTO
      /\ pc = "main" => resolved = LayeredResult({-2})
      /\ pc \in {"stat", "readdir", "load", "apply"} =>
            mainFile \notin {Unreadable, Malformed}
      /\ pc \in {"stat", "readdir", "load"} => resolved = LayeredResult(BaseLayers)
      /\ pc \in {"readdir", "load"} => dropInDir /= "missing"
      /\ pc = "load" =>
            /\ dropInDir = "present"
            /\ pending \subseteq DropNames
            /\ \E s \in [1..Len(dtos) -> Names] :
                  /\ Sorted(s) /\ Lists(s)
                  /\ NamesOf(s) = DropNames \ pending
                  /\ Precedes(NamesOf(s), pending)
                  /\ \A n \in NamesOf(s) : entries[n] \in Docs
      /\ pc = "apply" =>
            /\ dropInDir /= "unreadable"
            /\ \A n \in DropNames : entries[n] \in Docs
            /\ \E s \in [1..Len(dtos) -> Names] :
                  /\ Sorted(s) /\ Lists(s)
                  /\ NamesOf(s) \subseteq DropNames
                  /\ Precedes(DropNames \ NamesOf(s), NamesOf(s))
                  /\ resolved = LayeredResult(BaseLayers \cup (DropNames \ NamesOf(s)))
      /\ pc \in {"install", "done"} =>
            IF err = NoError THEN ~Broken /\ resolved = LayeredResult(Layers) ELSE Broken
      /\ pc = "done" /\ err = NoError => configuration = resolved

-----------------------------------------------------------------------------
(* The layered result, layer by layer.                                    *)

(* The highest of a set of integers is what CHOOSE picks for it. *)
LEMMA ChooseHighest ==
    ASSUME NEW S \in SUBSET Int, NEW n \in S, \A t \in S : t <= n
    PROVE  (CHOOSE r \in S : \A t \in S : t <= r) = n
<1>1. \E r \in S : \A t \in S : t <= r
  OBVIOUS
<1>2. PICK m \in S : m = (CHOOSE r \in S : \A t \in S : t <= r) /\ \A t \in S : t <= m
  BY <1>1
<1>3. QED
  BY <1>2

(* No layer: every field keeps the zero value of Config. *)
LEMMA NoLayers == LayeredResult({}) = ZeroConfig
BY DEF LayeredResult, ZeroConfig

(* A layer above all of L decides each field it sets, and leaves the     *)
(* others as L gives them.                                                 *)
LEMMA TopLayerField ==
    ASSUME NEW L \in SUBSET Int, NEW n \in Int, \A l \in L : l < n,
           NEW f \in DOMAIN ZeroConfig
    PROVE  LayeredResult(L \cup {n})[f] =
              IF Sets(LayerDoc(n), f) THEN FieldValue(f, LayerDoc(n)[f])
              ELSE LayeredResult(L)[f]
<1> DEFINE ws == {r \in L : Sets(LayerDoc(r), f)}
           wn == {r \in L \cup {n} : Sets(LayerDoc(r), f)}
<1>1. CASE Sets(LayerDoc(n), f)
  <2>1. n \in wn /\ wn \in SUBSET Int /\ \A t \in wn : t <= n
    <3>1. n \in wn
      BY <1>1, Zenon DEF wn
    <3>2. wn \subseteq L \cup {n}
      BY Zenon DEF wn
    <3>3. L \cup {n} \subseteq Int /\ \A t \in L \cup {n} : t <= n
      OBVIOUS
    <3>4. QED
      BY <3>1, <3>2, <3>3, Zenon
  <2>2. (CHOOSE r \in wn : \A t \in wn : t <= r) = n
    BY <2>1, ChooseHighest
  <2>3. LayeredResult(L \cup {n})[f] =
           IF wn = {} THEN ZeroConfig[f]
           ELSE FieldValue(f, LayerDoc(CHOOSE r \in wn : \A t \in wn : t <= r)[f])
    BY DEF LayeredResult, wn
  <2>4. QED
    BY <1>1, <2>1, <2>2, <2>3
<1>2. CASE ~Sets(LayerDoc(n), f)
  <2>1. wn = ws
    BY <1>2, Zenon DEF wn, ws
  <2>2. LayeredResult(L \cup {n})[f] =
           IF wn = {} THEN ZeroConfig[f]
           ELSE FieldValue(f, LayerDoc(CHOOSE r \in wn : \A t \in wn : t <= r)[f])
    BY DEF LayeredResult, wn
  <2>3. LayeredResult(L)[f] =
           IF ws = {} THEN ZeroConfig[f]
           ELSE FieldValue(f, LayerDoc(CHOOSE r \in ws : \A t \in ws : t <= r)[f])
    BY DEF LayeredResult, ws
  <2>4. QED
    BY <1>2, <2>1, <2>2, <2>3
<1>3. QED
  BY <1>1, <1>2

(* Config.Update with the document of a layer above all of L adds that    *)
(* layer: the fold Read performs computes the layered result.              *)
LEMMA TopLayerUpdate ==
    ASSUME NEW L \in SUBSET Int, NEW n \in Int, \A l \in L : l < n,
           LayerDoc(n) \in DTO
    PROVE  Update(LayeredResult(L), LayerDoc(n)) = LayeredResult(L \cup {n})
<1> DEFINE d == LayerDoc(n)
           c == LayeredResult(L)
<1>1. DOMAIN ZeroConfig = {"CertFile", "KeyFile", "LogLevel", "CADir"}
  BY DEF ZeroConfig
<1>2. \A f \in {"CertFile", "KeyFile", "CADir"} :
         LayeredResult(L \cup {n})[f] = Keep(d[f], c[f])
  BY <1>1, TopLayerField DEF Sets, FieldValue, Keep
<1>3. LayeredResult(L \cup {n})["LogLevel"] =
         IF d.LogLevel \in DOMAIN Levels THEN Levels[d.LogLevel] ELSE c.LogLevel
  <2>1. d.LogLevel \in DOMAIN Levels => d.LogLevel /= Absent
    BY ConstantsAssumption DEF Levels
  <2>2. QED
    BY <1>1, <2>1, TopLayerField DEF Sets, FieldValue
<1>4. LayeredResult(L \cup {n}) = [f \in DOMAIN ZeroConfig |-> LayeredResult(L \cup {n})[f]]
  BY DEF LayeredResult
<1>5. QED
  BY <1>1, <1>2, <1>3, <1>4 DEF Update

-----------------------------------------------------------------------------
(* Steps of Read leave the files alone.                                    *)

(* What the layers are depends on the files only. *)
LEMMA FilesFrame ==
    ASSUME UNCHANGED fsVars
    PROVE  /\ BaseLayers' = BaseLayers
           /\ DropNames' = DropNames
           /\ Layers' = Layers
           /\ Broken' = Broken
           /\ fsChanges' = fsChanges
BY DEF fsVars, BaseLayers, DropNames, OverrideFiles, Layers, Broken

LEMMA LayeredFrame ==
    ASSUME UNCHANGED fsVars, NEW X
    PROVE  LayeredResult(X)' = LayeredResult(X')
BY DEF LayeredResult, LayerDoc, fsVars

(* findDropInFiles' filter picks exactly the override documents. *)
LEMMA DropInFilesAreOverrides ==
    ASSUME TypeOK
    PROVE  FindDropInFiles(entries) = OverrideFiles
BY ConstantsAssumption DEF TypeOK, FindDropInFiles, OverrideFiles, EntryStates, FileStates

-----------------------------------------------------------------------------
(* Each step of Read keeps LInv.                                          *)

LEMMA ReadBaselineLInv ==
    ASSUME TypeOK, LInv, fsChanges = 0, ReadBaseline
    PROVE  LInv'
<1>1. UNCHANGED fsVars /\ pc = "baseline" /\ resolved = ZeroConfig /\ err = NoError
      /\ dtos = <<>>
  BY DEF ReadBaseline, LInv
<1>2. CASE Baseline = Malformed
  BY <1>1, <1>2, FilesFrame DEF ReadBaseline, LInv
<1>3. CASE Baseline /= Malformed
  <2>1. Baseline \in DTO /\ Baseline = LayerDoc(-2)
    BY <1>3, ConstantsAssumption DEF LayerDoc
  <2>2. resolved' = LayeredResult({-2})
    BY <1>1, <1>3, <2>1, NoLayers, TopLayerUpdate DEF ReadBaseline
  <2>3. pc' = "main" /\ UNCHANGED <<err, dtos>>
    BY <1>3 DEF ReadBaseline
  <2>4. QED
    BY <1>1, <2>1, <2>2, <2>3, FilesFrame, LayeredFrame DEF LInv
<1>4. QED
  BY <1>2, <1>3

LEMMA ReadMainLInv ==
    ASSUME TypeOK, LInv, fsChanges = 0, ReadMain
    PROVE  LInv'
<1>1. /\ UNCHANGED fsVars /\ pc = "main" /\ err = NoError /\ dtos = <<>>
      /\ Baseline \in DTO /\ resolved = LayeredResult({-2})
  BY DEF ReadMain, LInv
<1>2. CASE mainFile = Missing /\ pc' = "stat"
           /\ UNCHANGED <<resolved, err, pending, dtos, configuration>>
  <2>1. BaseLayers = {-2} /\ mainFile \notin {Unreadable, Malformed}
    BY <1>2, ConstantsAssumption DEF BaseLayers
  <2>2. resolved' = LayeredResult(BaseLayers)'
    BY <1>1, <1>2, <2>1, FilesFrame, LayeredFrame
  <2>3. QED
    BY <1>1, <1>2, <2>1, <2>2, FilesFrame DEF LInv, fsVars
<1>3. CASE mainFile \in {Unreadable, Malformed} /\ err' /= NoError /\ pc' = "install"
  BY <1>1, <1>3, FilesFrame DEF LInv, Broken
<1>4. CASE mainFile \in Docs /\ resolved' = Update(resolved, mainFile) /\ pc' = "stat"
           /\ UNCHANGED <<err, pending, dtos, configuration>>
  <2>1. mainFile = LayerDoc(-1) /\ mainFile \in DTO
    BY <1>4, ConstantsAssumption DEF LayerDoc
  <2>2. resolved' = LayeredResult({-2} \cup {-1})
    BY <1>1, <1>4, <2>1, TopLayerUpdate
  <2>3. BaseLayers = {-2} \cup {-1} /\ mainFile \notin {Unreadable, Malformed}
    BY <1>4, ConstantsAssumption DEF BaseLayers
  <2>4. resolved' = LayeredResult(BaseLayers)'
    BY <1>1, <2>2, <2>3, FilesFrame, LayeredFrame
  <2>5. QED
    BY <1>1, <1>4, <2>3, <2>4, FilesFrame DEF LInv, fsVars
<1>5. QED
  BY <1>2, <1>3, <1>4 DEF ReadMain, Fail, NoError

(* The empty list of drop-ins is sorted and lists no document. *)
LEMMA NoDropInsListed ==
    ASSUME dtos = <<>>
    PROVE  /\ <<>> \in [1..Len(dtos) -> Names]
           /\ Sorted(<<>>) /\ Lists(<<>>) /\ NamesOf(<<>>) = {}
BY DEF Sorted, Lists, NamesOf

LEMMA StatDropInDirLInv ==
    ASSUME TypeOK, LInv, fsChanges = 0, StatDropInDir
    PROVE  LInv'
<1>1. /\ UNCHANGED fsVars /\ UNCHANGED <<resolved, err, pending, dtos, configuration>>
      /\ pc = "stat" /\ err = NoError /\ dtos = <<>> /\ Baseline \in DTO
      /\ mainFile \notin {Unreadable, Malformed} /\ resolved = LayeredResult(BaseLayers)
  BY DEF StatDropInDir, LInv
<1>2. CASE dropInDir = "missing"
  <2>1. pc' = "apply" /\ DropNames = {}
    BY <1>2 DEF StatDropInDir, DropNames
  <2>2. Lists(<<>>)' /\ <<>> \in [1..Len(dtos') -> Names] /\ Sorted(<<>>)
        /\ NamesOf(<<>>) = {}
    BY <1>1, NoDropInsListed DEF Lists, fsVars
  <2>3. resolved' = LayeredResult(BaseLayers \cup (DropNames \ NamesOf(<<>>)))'
    BY <1>1, <2>1, <2>2, FilesFrame, LayeredFrame
  <2>4. QED
    BY <1>1, <1>2, <2>1, <2>2, <2>3, FilesFrame DEF LInv, fsVars, Precedes
<1>3. CASE dropInDir /= "missing"
  <2>1. pc' = "readdir"
    BY <1>3 DEF StatDropInDir
  <2>2. resolved' = LayeredResult(BaseLayers)'
    BY <1>1, FilesFrame, LayeredFrame
  <2>3. QED
    BY <1>1, <1>3, <2>1, <2>2, FilesFrame DEF LInv, fsVars
<1>4. QED
  BY <1>2, <1>3

LEMMA ReadDropInDirLInv ==
    ASSUME TypeOK, LInv, fsChanges = 0, ReadDropInDir
    PROVE  LInv'
<1>1. /\ UNCHANGED fsVars /\ pc = "readdir" /\ err = NoError /\ dtos = <<>>
      /\ Baseline \in DTO /\ dropInDir /= "missing"
      /\ mainFile \notin {Unreadable, Malformed} /\ resolved = LayeredResult(BaseLayers)
  BY DEF ReadDropInDir, LInv
<1>2. CASE dropInDir = "unreadable" /\ Fail("readdir", "io")
  <2>1. pc' = "install" /\ err' /= NoError /\ Broken
    BY <1>2 DEF Fail, NoError, Broken
  <2>2. QED
    BY <1>1, <2>1, FilesFrame DEF LInv
<1>3. CASE /\ dropInDir = "present" /\ pending' = FindDropInFiles(entries)
           /\ pc' = "load" /\ UNCHANGED <<resolved, err, dtos, configuration>>
  <2>1. pending' = DropNames
    BY <1>3, DropInFilesAreOverrides DEF DropNames
  <2>2. Lists(<<>>)' /\ <<>> \in [1..Len(dtos') -> Names] /\ Sorted(<<>>)
        /\ NamesOf(<<>>) = {}
    BY <1>1, <1>3, NoDropInsListed DEF Lists, fsVars
  <2>3. NamesOf(<<>>) = DropNames \ pending' /\ Precedes(NamesOf(<<>>), pending')
    BY <2>1, <2>2 DEF Precedes
  <2>4. resolved' = LayeredResult(BaseLayers)'
    BY <1>1, <1>3, FilesFrame, LayeredFrame
  <2>5. QED
    BY <1>1, <1>3, <2>1, <2>2, <2>3, <2>4, FilesFrame DEF LInv, fsVars
<1>4. QED
  BY <1>1, <1>2, <1>3 DEF ReadDropInDir

(* An override file is neither missing nor a directory, and its name ends *)
(* in ".toml".                                                             *)
LEMMA OverrideEntry ==
    ASSUME TypeOK, NEW n \in OverrideFiles
    PROVE  /\ n \in TomlNames /\ n \in Names
           /\ entries[n] \in Docs \cup {Unreadable, Malformed}
BY ConstantsAssumption DEF OverrideFiles, FileStates

LEMMA LoadDropInLInv ==
    ASSUME TypeOK, LInv, fsChanges = 0, LoadDropIn
    PROVE  LInv'
<1>1. /\ UNCHANGED fsVars /\ pc = "load" /\ err = NoError /\ Baseline \in DTO
      /\ dropInDir = "present" /\ mainFile \notin {Unreadable, Malformed}
      /\ resolved = LayeredResult(BaseLayers) /\ pending \subseteq DropNames
  BY DEF LoadDropIn, LInv
<1>2. PICK s \in [1..Len(dtos) -> Names] :
              /\ Sorted(s) /\ Lists(s)
              /\ NamesOf(s) = DropNames \ pending
              /\ Precedes(NamesOf(s), pending)
              /\ \A m \in NamesOf(s) : entries[m] \in Docs
  BY <1>1 DEF LInv
<1>3. PICK n \in pending :
         /\ \A m \in pending : n <= m
         /\ \/ entries[n] = Missing /\ Fail("load", "notexist")
            \/ entries[n] \in {Unreadable, IsDir} /\ Fail("load", "io")
            \/ entries[n] = Malformed /\ Fail("load", "parse")
            \/ /\ entries[n] \in Docs
               /\ dtos' = Append(dtos, entries[n])
               /\ pending' = pending \ {n}
               /\ UNCHANGED <<pc, resolved, err, configuration>>
  BY DEF LoadDropIn
<1>4. n \in TomlNames /\ n \in Names /\ entries[n] \in Docs \cup {Unreadable, Malformed}
  BY <1>1, OverrideEntry DEF DropNames
<1>5. CASE entries[n] \in {Unreadable, Malformed}
  <2>1. pc' = "install" /\ err' /= NoError
    BY <1>3, <1>5, ConstantsAssumption DEF Fail, NoError
  <2>2. Broken
    BY <1>1, <1>4, <1>5 DEF Broken
  <2>3. QED
    BY <1>1, <2>1, <2>2, FilesFrame DEF LInv
<1>6. CASE entries[n] \in Docs
  <2>0. PICK k \in Nat : k = Len(dtos)
    BY DEF TypeOK
  <2> DEFINE t == [i \in 1..k + 1 |-> IF i <= k THEN s[i] ELSE n]
  <2>1. /\ dtos' = Append(dtos, entries[n]) /\ pending' = pending \ {n}
        /\ UNCHANGED <<pc, resolved, err, configuration>>
    BY <1>3, <1>6, ConstantsAssumption DEF Fail
  <2>2. Len(dtos') = k + 1 /\ k \in Nat
    BY <2>0, <2>1 DEF TypeOK
  <2>3. t \in [1..Len(dtos') -> Names]
    BY <1>4, <2>0, <2>2
  <2>4. Sorted(t)
    BY <1>2, <2>0, <2>2 DEF Sorted, Precedes, NamesOf
  <2>5. Lists(t)'
    <3>1. dtos' = [i \in 1..k + 1 |-> IF i <= k THEN dtos[i] ELSE entries[n]]
      BY <2>0, <2>1 DEF TypeOK
    <3>2. \A i \in 1..k : dtos[i] = entries[s[i]]
      BY <1>2, <2>0 DEF Lists
    <3>3. \A i \in 1..k + 1 : entries[t[i]] = IF i <= k THEN dtos[i] ELSE entries[n]
      BY <2>2, <3>2
    <3>4. entries' = entries /\ DOMAIN t = 1..k + 1
      BY <1>1 DEF fsVars
    <3>5. QED
      BY <3>1, <3>3, <3>4 DEF Lists
  <2>6. NamesOf(t) = NamesOf(s) \cup {n}
    BY <2>0, <2>2 DEF NamesOf
  <2>7. NamesOf(t) = DropNames \ pending'
    BY <1>1, <1>2, <2>1, <2>6
  <2>71. Precedes(NamesOf(t), pending')
    <3>1. pending \subseteq Nat
      BY ConstantsAssumption DEF TypeOK
    <3>2. \A b \in pending \ {n} : n < b
      BY <1>3, <3>1
    <3>3. QED
      BY <1>2, <2>1, <2>6, <3>2 DEF Precedes
  <2>72. pending' \subseteq DropNames /\ \A m \in NamesOf(t) : entries[m] \in Docs
    BY <1>1, <1>2, <1>6, <2>1, <2>6
  <2>8. resolved' = LayeredResult(BaseLayers)'
    BY <1>1, <2>1, FilesFrame, LayeredFrame
  <2>9. \E u \in [1..Len(dtos') -> Names] :
           /\ Sorted(u) /\ Lists(u)'
           /\ NamesOf(u) = DropNames' \ pending'
           /\ Precedes(NamesOf(u), pending')
           /\ \A m \in NamesOf(u) : entries'[m] \in Docs
    <3>1. DropNames' = DropNames /\ entries' = entries
      BY <1>1, FilesFrame DEF fsVars
    <3>2. QED
      BY <2>3, <2>4, <2>5, <2>7, <2>71, <2>72, <3>1
  <2>10. QED
    BY <1>1, <2>1, <2>72, <2>8, <2>9, FilesFrame DEF LInv, fsVars
<1>7. QED
  BY <1>4, <1>5, <1>6

LEMMA DropInsParsedLInv ==
    ASSUME TypeOK, LInv, fsChanges = 0, DropInsParsed
    PROVE  LInv'
<1>1. /\ UNCHANGED fsVars /\ UNCHANGED <<resolved, err, pending, dtos, configuration>>
      /\ pc' = "apply" /\ pc = "load" /\ pending = {}
      /\ err = NoError /\ Baseline \in DTO /\ dropInDir = "present"
      /\ mainFile \notin {Unreadable, Malformed} /\ resolved = LayeredResult(BaseLayers)
  BY DEF DropInsParsed, LInv
<1>2. PICK s \in [1..Len(dtos) -> Names] :
              /\ Sorted(s) /\ Lists(s)
              /\ NamesOf(s) = DropNames \ pending
              /\ \A m \in NamesOf(s) : entries[m] \in Docs
  BY <1>1 DEF LInv
<1>3. /\ NamesOf(s) = DropNames
      /\ BaseLayers \cup (DropNames \ NamesOf(s)) = BaseLayers
      /\ Precedes(DropNames \ NamesOf(s), NamesOf(s))
  BY <1>1, <1>2 DEF Precedes
<1>4. Lists(s)' /\ s \in [1..Len(dtos') -> Names]
  BY <1>1, <1>2 DEF Lists, fsVars
<1>5. resolved' = LayeredResult(BaseLayers \cup (DropNames \ NamesOf(s)))'
  BY <1>1, <1>3, FilesFrame, LayeredFrame
<1>6. \E u \in [1..Len(dtos') -> Names] :
         /\ Sorted(u) /\ Lists(u)'
         /\ NamesOf(u) \subseteq DropNames'
         /\ Precedes(DropNames' \ NamesOf(u), NamesOf(u))
         /\ resolved' = LayeredResult(BaseLayers \cup (DropNames \ NamesOf(u)))'
  BY <1>1, <1>2, <1>3, <1>4, <1>5, FilesFrame
<1>7. QED
  BY <1>1, <1>2, <1>3, <1>6, FilesFrame DEF LInv, fsVars

LEMMA ReadReturnsLInv ==
    ASSUME TypeOK, LInv, fsChanges = 0, ReadReturns
    PROVE  LInv'
<1>1. /\ UNCHANGED fsVars /\ UNCHANGED <<resolved, err, pending, dtos, configuration>>
      /\ pc' = "install" /\ pc = "apply" /\ dtos = <<>> /\ err = NoError
      /\ dropInDir /= "unreadable" /\ mainFile \notin {Unreadable, Malformed}
      /\ \A n \in DropNames : entries[n] \in Docs
  BY DEF ReadReturns, LInv
<1>2. PICK s \in [1..Len(dtos) -> Names] :
              /\ resolved = LayeredResult(BaseLayers \cup (DropNames \ NamesOf(s)))
  BY <1>1 DEF LInv
<1>3. NamesOf(s) = {}
  BY <1>1, <1>2 DEF NamesOf
<1>4. resolved = LayeredResult(Layers)
  <2>1. BaseLayers \cup (DropNames \ NamesOf(s)) = Layers
    BY <1>3 DEF BaseLayers, DropNames, Layers
  <2>2. QED
    BY <1>2, <2>1
<1>5. ~Broken
  <2>1. ASSUME dropInDir = "present", NEW n \in TomlNames,
               entries[n] \in {Unreadable, Malformed}
        PROVE  FALSE
    <3>1. n \in DropNames
      BY <2>1, ConstantsAssumption DEF DropNames, OverrideFiles, FileStates
    <3>2. QED
      BY <1>1, <2>1, <3>1, ConstantsAssumption
  <2>2. QED
    BY <1>1, <2>1 DEF Broken
<1>6. resolved' = LayeredResult(Layers)'
  BY <1>1, <1>4, FilesFrame, LayeredFrame
<1>7. QED
  BY <1>1, <1>5, <1>6, FilesFrame DEF LInv

LEMMA InstallLInv ==
    ASSUME TypeOK, LInv, fsChanges = 0, Install
    PROVE  LInv'
<1>1. /\ UNCHANGED fsVars /\ UNCHANGED <<resolved, err>> /\ pc = "install"
      /\ IF err = NoError THEN ~Broken /\ resolved = LayeredResult(Layers) ELSE Broken
  BY DEF Install, LInv
<1>2. /\ pc' \in {"done", "panic"}
      /\ (pc' = "done" /\ err = NoError) => configuration' = resolved
  BY DEF Install
<1>3. resolved' = LayeredResult(Layers)' <=> resolved = LayeredResult(Layers)
  BY <1>1, FilesFrame, LayeredFrame
<1>4. QED
  BY <1>1, <1>2, <1>3, FilesFrame DEF LInv

LEMMA ApplyDropInLInv ==
    ASSUME TypeOK, LInv, fsChanges = 0, ApplyDropIn
    PROVE  LInv'
<1>1. /\ UNCHANGED fsVars /\ UNCHANGED <<pc, err, pending, configuration>>
      /\ pc = "apply" /\ dtos /= <<>> /\ err = NoError /\ Baseline \in DTO
      /\ dropInDir /= "unreadable" /\ mainFile \notin {Unreadable, Malformed}
      /\ \A m \in DropNames : entries[m] \in Docs
      /\ resolved' = Update(resolved, Head(dtos)) /\ dtos' = Tail(dtos)
  BY DEF ApplyDropIn, LInv
<1>2. PICK s \in [1..Len(dtos) -> Names] :
              /\ Sorted(s) /\ Lists(s)
              /\ NamesOf(s) \subseteq DropNames
              /\ Precedes(DropNames \ NamesOf(s), NamesOf(s))
              /\ resolved = LayeredResult(BaseLayers \cup (DropNames \ NamesOf(s)))
  BY <1>1 DEF LInv
<1>3. PICK k \in Nat : k = Len(dtos) - 1
  BY <1>1 DEF TypeOK
<1>35. PICK top, t, X : /\ top = s[1]
                        /\ t = [i \in 1..k |-> s[i + 1]]
                        /\ X = BaseLayers \cup (DropNames \ NamesOf(s))
  OBVIOUS
<1>4. Len(dtos) = k + 1 /\ DOMAIN s = 1..k + 1 /\ \A i \in 1..k + 1 : s[i] \in Nat
  <2>1. dtos \in Seq(DTO)
    BY <1>35 DEF TypeOK
  <2>2. Len(dtos) = k + 1
    BY <1>35, <1>3, <2>1
  <2>3. QED
    BY <1>35, <2>2, ConstantsAssumption
<1>40. top \in NamesOf(s) /\ top \in Nat
  BY <1>35, <1>4 DEF NamesOf
<1>5. Head(dtos) = LayerDoc(top) /\ LayerDoc(top) \in DTO
  <2>1. Head(dtos) = entries[top]
    BY <1>35, <1>1, <1>2, <1>4 DEF Lists, TypeOK
  <2>2. entries[top] = LayerDoc(top)
    BY <1>35, <1>40 DEF LayerDoc
  <2>3. QED
    BY <1>35, <1>1, <1>2, <1>40, <2>1, <2>2, ConstantsAssumption
<1>6. X \in SUBSET Int /\ \A l \in X : l < top
  <2>1. BaseLayers \subseteq {-2, -1}
    BY <1>35 DEF BaseLayers
  <2>2. DropNames \subseteq Nat
    BY <1>35, ConstantsAssumption DEF DropNames, OverrideFiles
  <2>3. \A l \in BaseLayers : l < top
    BY <1>40, <2>1
  <2>4. \A l \in DropNames \ NamesOf(s) : l < top
    BY <1>2, <1>40 DEF Precedes
  <2>5. BaseLayers \subseteq Int /\ DropNames \subseteq Int
    BY <2>1, <2>2
  <2>6. QED
    BY <1>35, <2>3, <2>4, <2>5, Zenon
<1>7. resolved' = LayeredResult(X \cup {top})
  <2>1. Update(LayeredResult(X), LayerDoc(top)) = LayeredResult(X \cup {top})
    BY <1>5, <1>6, <1>40, TopLayerUpdate
  <2>2. resolved = LayeredResult(X)
    BY <1>2, <1>35
  <2>3. QED
    BY <1>1, <1>5, <2>1, <2>2
<1>8. NamesOf(t) = NamesOf(s) \ {top}
  <2>1. \A i \in 2..k + 1 : s[i] /= top
    BY <1>35, <1>2, <1>4 DEF Sorted
  <2>2. \A i \in 1..k : t[i] = s[i + 1] /\ i + 1 \in 2..k + 1
    BY <1>35
  <2>3. NamesOf(t) \subseteq NamesOf(s) \ {top}
    BY <1>4, <1>35, <2>1, <2>2 DEF NamesOf
  <2>4. ASSUME NEW j \in 1..k + 1, s[j] /= top
        PROVE  s[j] \in NamesOf(t)
    <3>1. j - 1 \in 1..k /\ t[j - 1] = s[j]
      BY <1>35, <2>4
    <3>2. DOMAIN t = 1..k
      BY <1>35
    <3>3. QED
      BY <3>1, <3>2 DEF NamesOf
  <2>5. QED
    BY <1>4, <2>3, <2>4 DEF NamesOf
<1>9. X \cup {top} = BaseLayers \cup (DropNames \ NamesOf(t))
  BY <1>35, <1>2, <1>40, <1>8
<1>10. /\ t \in [1..Len(dtos') -> Names]
       /\ Sorted(t)
       /\ NamesOf(t) \subseteq DropNames
       /\ Precedes(DropNames \ NamesOf(t), NamesOf(t))
  <2>0. dtos \in Seq(DTO) /\ Len(dtos') = k
    BY <1>1, <1>4 DEF TypeOK
  <2>1. t \in [1..Len(dtos') -> Names]
    BY <1>35, <1>2, <1>4, <2>0
  <2>11. Sorted(t)
    BY <1>35, <1>2, <1>4 DEF Sorted
  <2>2. \A b \in NamesOf(t) : top < b
    BY <1>35, <1>2, <1>4, <1>8 DEF Sorted, NamesOf
  <2>3. QED
    BY <1>35, <1>2, <1>40, <1>8, <2>1, <2>11, <2>2 DEF Precedes
<1>11. Lists(t)'
  <2>0. dtos \in Seq(DTO)
    BY DEF TypeOK
  <2>1. dtos' = [i \in 1..k |-> dtos[i + 1]]
    <3>1. /\ Tail(dtos) \in Seq(DTO) /\ Len(Tail(dtos)) = k
          /\ \A i \in 1..k : Tail(dtos)[i] = dtos[i + 1]
      BY <1>1, <1>4, <2>0, HeadTailProperties
    <3>2. DOMAIN Tail(dtos) = 1..k
      BY <3>1
    <3>21. Tail(dtos) \in [1..k -> DTO]
      BY <3>1, LenProperties
    <3>3. Tail(dtos) = [i \in 1..k |-> Tail(dtos)[i]]
      BY <3>21, Zenon
    <3>4. QED
      BY <1>1, <3>1, <3>3
  <2>2. \A i \in 1..k : dtos[i + 1] = entries[t[i]]
    BY <1>35, <1>2, <1>4 DEF Lists
  <2>3. DOMAIN t = 1..k /\ entries' = entries
    BY <1>35, <1>1 DEF fsVars
  <2>4. QED
    BY <2>1, <2>2, <2>3 DEF Lists
<1>12. resolved' = LayeredResult(BaseLayers \cup (DropNames \ NamesOf(t)))'
  BY <1>35, <1>1, <1>7, <1>9, FilesFrame, LayeredFrame
<1>13. \E u \in [1..Len(dtos') -> Names] :
          /\ Sorted(u) /\ Lists(u)'
          /\ NamesOf(u) \subseteq DropNames'
          /\ Precedes(DropNames' \ NamesOf(u), NamesOf(u))
          /\ resolved' = LayeredResult(BaseLayers \cup (DropNames \ NamesOf(u)))'
  BY <1>35, <1>1, <1>10, <1>11, <1>12, FilesFrame
<1>14. QED
  BY <1>35, <1>1, <1>13, FilesFrame DEF LInv, fsVars

-----------------------------------------------------------------------------
(* LInv is inductive, and gives InstalledIsLayeredResult.                  *)

LEMMA InitLInv == Init => LInv
BY DEF Init, LInv

LEMMA NextLInv ==
    ASSUME TypeOK, LInv, [Next]_vars
    PROVE  LInv'
<1>1. CASE fsChanges /= 0
  <2>1. fsChanges' /= 0
    BY <1>1 DEF TypeOK, Next, Resolver, FsChange, vars, fsVars, ReadBaseline, ReadMain,
       StatDropInDir, ReadDropInDir, LoadDropIn, DropInsParsed, ApplyDropIn,
       ReadReturns, Install
  <2>2. QED
    BY <2>1 DEF LInv
<1>2. CASE fsChanges = 0
  <2>1. CASE ReadBaseline
    BY <1>2, <2>1, ReadBaselineLInv
  <2>2. CASE ReadMain
    BY <1>2, <2>2, ReadMainLInv
  <2>3. CASE StatDropInDir
    BY <1>2, <2>3, StatDropInDirLInv
  <2>4. CASE ReadDropInDir
    BY <1>2, <2>4, ReadDropInDirLInv
  <2>5. CASE LoadDropIn
    BY <1>2, <2>5, LoadDropInLInv
  <2>6. CASE DropInsParsed
    BY <1>2, <2>6, DropInsParsedLInv
  <2>7. CASE ApplyDropIn
    BY <1>2, <2>7, ApplyDropInLInv
  <2>8. CASE ReadReturns
    BY <1>2, <2>8, ReadReturnsLInv
  <2>9. CASE Install
    BY <1>2, <2>9, InstallLInv
  <2>10. CASE FsChange
    BY <1>2, <2>10 DEF FsChange, LInv
  <2>11. CASE UNCHANGED vars
    <3>1. UNCHANGED fsVars
      BY <2>11 DEF vars, fsVars
    <3>2. /\ LayeredResult(BaseLayers)' = LayeredResult(BaseLayers)
          /\ LayeredResult(Layers)' = LayeredResult(Layers)
          /\ LayeredResult({-2})' = LayeredResult({-2})
          /\ UNCHANGED <<pc, resolved, err, pending, dtos, configuration>>
          /\ UNCHANGED <<mainFile, dropInDir, entries, fsChanges>>
      BY <2>11, <3>1, FilesFrame, LayeredFrame DEF vars, fsVars
    <3>3. CASE pc = "load"
      <4>1. PICK s \in [1..Len(dtos) -> Names] :
                 /\ Sorted(s) /\ Lists(s)
                 /\ NamesOf(s) = DropNames \ pending
                 /\ Precedes(NamesOf(s), pending)
                 /\ \A m \in NamesOf(s) : entries[m] \in Docs
        BY <1>2, <3>3 DEF LInv
      <4>2. s \in [1..Len(dtos') -> Names] /\ Lists(s)'
        BY <3>2, <4>1 DEF Lists
      <4>3. QED
        BY <1>2, <3>1, <3>2, <3>3, <4>1, <4>2, FilesFrame DEF LInv
    <3>4. CASE pc = "apply"
      <4>1. PICK s \in [1..Len(dtos) -> Names] :
                 /\ Sorted(s) /\ Lists(s)
                 /\ NamesOf(s) \subseteq DropNames
                 /\ Precedes(DropNames \ NamesOf(s), NamesOf(s))
                 /\ resolved = LayeredResult(BaseLayers \cup (DropNames \ NamesOf(s)))
        BY <1>2, <3>4 DEF LInv
      <4>2. s \in [1..Len(dtos') -> Names] /\ Lists(s)'
        BY <3>2, <4>1 DEF Lists
      <4>3. resolved' = LayeredResult(BaseLayers \cup (DropNames \ NamesOf(s)))'
        BY <3>1, <3>2, <4>1, FilesFrame, LayeredFrame
      <4>4. QED
        BY <1>2, <3>1, <3>2, <3>4, <4>1, <4>2, <4>3, FilesFrame DEF LInv
    <3>5. CASE pc \notin {"load", "apply"}
      BY <1>2, <3>1, <3>2, <3>5, FilesFrame DEF LInv
    <3>6. QED
      BY <3>3, <3>4, <3>5
  <2>12. QED
    BY <2>1, <2>2, <2>3, <2>4, <2>5, <2>6, <2>7, <2>8, <2>9, <2>10, <2>11
       DEF Next, Resolver
<1>3. QED
  BY <1>1, <1>2

(* Read's progress invariant holds in every reachable state. *)
THEOREM LayeredInvariant == Spec => []LInv
BY InitLInv, NextLInv, TypeCorrect, PTL DEF Spec

(* When no other process edits /etc/rhc while init() runs, the            *)
(* conf.Configuration it installs is the documented layered result of     *)
(* the defaults, the main file and the sorted .toml drop-ins, or the       *)
(* defaults alone when one of those files is broken                        *)
(* (InstalledIsLayeredResult), provided the defaults give every field.     *)
THEOREM InstalledIsLayeredResultHolds ==
    BaselineTotal => (Spec => []InstalledIsLayeredResult)
<1> SUFFICES ASSUME BaselineTotal PROVE Spec => []InstalledIsLayeredResult
  OBVIOUS
<1>1. LInv /\ FallbackIsBaselineOnly => InstalledIsLayeredResult
  BY DEF LInv, FallbackIsBaselineOnly, InstalledIsLayeredResult
<1>2. QED
  BY <1>1, LayeredInvariant, FallbackCorrect, PTL

=============================================================================
