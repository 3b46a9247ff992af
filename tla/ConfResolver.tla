---------------------------- MODULE ConfResolver ----------------------------
(***************************************************************************)
(* The layered configuration engine of internal/conf/config.go: the        *)
(* package init() that calls ConfigSource.Read on /etc/rhc/config.toml and *)
(* /etc/rhc/config.toml.d/, Read itself (embedded defaults, main file,     *)
(* drop-in discovery, drop-in parsing, the merge loop), Config.Update, and *)
(* the fallback that installs conf.Configuration.                          *)
(*                                                                         *)
(* Each blocking file-system call of Read is one step, so that another     *)
(* process editing /etc/rhc (an administrator, a package update, a config  *)
(* management tool) can change the files between two calls: FsChange.     *)
(* TOML text is abstracted to the configDTO it decodes to (a record whose  *)
(* fields are a value or Absent, the nil pointer) or to Malformed.         *)
(***************************************************************************)
EXTENDS Integers, Sequences

CONSTANTS
    Paths,        \* values of the string fields (cert-file, key-file, ca-dir)
    EmptyString,  \* "", the zero value of a Go string
    Tokens,       \* strings a document may give as log-level
    Docs,         \* the well-formed documents a file may hold, as configDTO values
    Baseline,     \* the embedded default document (data/etc/config.toml)
    Names,        \* names of drop-in directory entries, as their rank in byte order
    TomlNames,    \* the names that end in ".toml"
    Absent,       \* a nil *string field of configDTO
    Missing,      \* a path that does not exist
    Unreadable,   \* a path whose read fails with an error other than not-exist
    Malformed,    \* a file that is not valid TOML for configDTO
    IsDir,        \* a directory entry that is itself a directory
    MaxFsChanges  \* bound on the edits other processes make during one Read

(* slog.Level values of the four names Config.Update recognises. *)
Levels == [DEBUG |-> -4, INFO |-> 0, WARN |-> 4, ERROR |-> 8]

(* The public, fully valued configuration (type Config). *)
Config == [CertFile : Paths, KeyFile : Paths, LogLevel : Int, CADir : Paths]

(* The decoded partial document (type configDTO); Absent is a nil field. *)
DTO == [CertFile : Paths \cup {Absent}, KeyFile : Paths \cup {Absent},
        LogLevel : Tokens \cup {Absent}, CADir : Paths \cup {Absent}]

(* What a regular file can hold, and what a drop-in entry can be. *)
FileStates == Docs \cup {Missing, Unreadable, Malformed}
EntryStates == FileStates \cup {IsDir}
DirStates == {"missing", "unreadable", "present"}

ASSUME ConstantsAssumption ==
    /\ EmptyString \in Paths
    /\ Docs \subseteq DTO
    /\ Baseline \in DTO \cup {Malformed}
    /\ Names \subseteq Nat
    /\ TomlNames \subseteq Names
    /\ Absent \notin Paths \cup Tokens \cup {"DEBUG", "INFO", "WARN", "ERROR"}
    /\ {Missing, Unreadable, Malformed, IsDir} \cap Docs = {}
    /\ Missing /= Unreadable /\ Missing /= Malformed /\ Missing /= IsDir
    /\ Unreadable /= Malformed /\ Unreadable /= IsDir /\ Malformed /= IsDir
    /\ MaxFsChanges \in Nat

(* The zero value of Config; slog.Level's zero value is INFO. *)
ZeroConfig == [CertFile |-> EmptyString, KeyFile |-> EmptyString,
               LogLevel |-> 0, CADir |-> EmptyString]

(* A slip: the nil check on a configDTO field dropped. *)
KeepNoNilCheck(v, old) == v

(* Config.Update: a non-nil field overwrites, a nil one leaves the value;   *)
(* a log-level outside the four names matches no case and is ignored.      *)
Keep(v, old) == IF v = Absent THEN old ELSE v
Update(c, dto) ==
    [CertFile |-> Keep(dto.CertFile, c.CertFile),
     KeyFile  |-> Keep(dto.KeyFile, c.KeyFile),
     LogLevel |-> IF dto.LogLevel \in DOMAIN Levels
                    THEN Levels[dto.LogLevel] ELSE c.LogLevel,
     CADir    |-> Keep(dto.CADir, c.CADir)]

NoError == [at |-> "none", kind |-> "none"]
Errors == [at : {"baseline", "main", "readdir", "load"},
           kind : {"notexist", "io", "parse"}]

VARIABLES
    mainFile,       \* contents of /etc/rhc/config.toml
    dropInDir,      \* state of /etc/rhc/config.toml.d/
    entries,        \* entries[n]: the entry named n in that directory
    fsChanges,      \* edits made so far by other processes
    pc,             \* where init()/Read is
    resolved,       \* Read's local accumulator
    err,            \* the error Read returns
    pending,        \* drop-in paths found and not yet read
    dtos,           \* parsed drop-in documents, in load order
    configuration   \* the global conf.Configuration

fsVars == <<mainFile, dropInDir, entries, fsChanges>>
procVars == <<pc, resolved, err, pending, dtos, configuration>>
vars == <<mainFile, dropInDir, entries, fsChanges,
          pc, resolved, err, pending, dtos, configuration>>

Init ==
    /\ mainFile \in FileStates
    /\ dropInDir \in DirStates
    /\ entries \in [Names -> EntryStates]
    /\ fsChanges = 0
    /\ pc = "baseline"
    /\ resolved = ZeroConfig
    /\ err = NoError
    /\ pending = {}
    /\ dtos = <<>>
    /\ configuration = ZeroConfig

(* Read returns (resolved, error) and init() takes over. *)
Fail(at, kind) ==
    /\ err' = [at |-> at, kind |-> kind]
    /\ pc' = "install"
    /\ UNCHANGED <<resolved, pending, dtos, configuration>>

(* Read parses the embedded defaults; if they do not parse, Read fails and *)
(* init() panics when it parses them again.                                *)
ReadBaseline ==
    /\ pc = "baseline"
    /\ IF Baseline = Malformed
          THEN /\ err' = [at |-> "baseline", kind |-> "parse"]
               /\ pc' = "panic"
               /\ UNCHANGED resolved
          ELSE /\ resolved' = Update(resolved, Baseline)
               /\ pc' = "main"
               /\ UNCHANGED err
    /\ UNCHANGED <<pending, dtos, configuration>>
    /\ UNCHANGED fsVars

(* os.ReadFile(cs.Path): a missing file is skipped; any other read error or *)
(* a parse error ends Read.                                                *)
ReadMain ==
    /\ pc = "main"
    /\ \/ /\ mainFile = Missing
          /\ pc' = "stat"
          /\ UNCHANGED <<resolved, err, pending, dtos, configuration>>
       \/ /\ mainFile = Unreadable
          /\ Fail("main", "io")
       \/ /\ mainFile = Malformed
          /\ Fail("main", "parse")
       \/ /\ mainFile \in Docs
          /\ resolved' = Update(resolved, mainFile)
          /\ pc' = "stat"
          /\ UNCHANGED <<err, pending, dtos, configuration>>
    /\ UNCHANGED fsVars

(* findDropInFiles' os.Stat: only a not-exist error returns no files.     *)
StatDropInDir ==
    /\ pc = "stat"
    /\ pc' = IF dropInDir = "missing" THEN "apply" ELSE "readdir"
    /\ UNCHANGED <<resolved, err, pending, dtos, configuration>>
    /\ UNCHANGED fsVars

(* A slip: the ".toml" suffix filter dropped. *)
FindDropInFilesAnySuffix(ents) == {n \in Names : ents[n] \notin {Missing, IsDir}}

(* The regular files ending in ".toml" of the directory listing.          *)
FindDropInFiles(ents) == {n \in TomlNames : ents[n] \notin {Missing, IsDir}}

(* os.ReadDir, then the filter on IsDir and ".toml"; sort.Strings is the  *)
(* order LoadDropIn takes them in.                                         *)
ReadDropInDir ==
    /\ pc = "readdir"
    /\ \/ /\ dropInDir = "missing"
          /\ Fail("readdir", "notexist")
       \/ /\ dropInDir = "unreadable"
          /\ Fail("readdir", "io")
       \/ /\ dropInDir = "present"
          /\ pending' = FindDropInFiles(entries)
          /\ pc' = "load"
          /\ UNCHANGED <<resolved, err, dtos, configuration>>
    /\ UNCHANGED fsVars

(* One iteration of parseDropInFiles' loop, on the least path left: any   *)
(* read or parse error returns nil, so no drop-in at all is applied.       *)
LoadDropIn ==
    /\ pc = "load"
    /\ \E n \in pending :
          /\ \A m \in pending : n <= m
          /\ \/ /\ entries[n] = Missing
                /\ Fail("load", "notexist")
             \/ /\ entries[n] \in {Unreadable, IsDir}
                /\ Fail("load", "io")
             \/ /\ entries[n] = Malformed
                /\ Fail("load", "parse")
             \/ /\ entries[n] \in Docs
                /\ dtos' = Append(dtos, entries[n])
                /\ pending' = pending \ {n}
                /\ UNCHANGED <<pc, resolved, err, configuration>>
    /\ UNCHANGED fsVars

(* parseDropInFiles returns the documents once every path is parsed.       *)
DropInsParsed ==
    /\ pc = "load"
    /\ pending = {}
    /\ pc' = "apply"
    /\ UNCHANGED <<resolved, err, pending, dtos, configuration>>
    /\ UNCHANGED fsVars

(* One iteration of Read's loop applying the drop-ins in order.           *)
ApplyDropIn ==
    /\ pc = "apply"
    /\ dtos /= <<>>
    /\ resolved' = Update(resolved, Head(dtos))
    /\ dtos' = Tail(dtos)
    /\ UNCHANGED <<pc, err, pending, configuration>>
    /\ UNCHANGED fsVars

(* Read returns (resolved, nil).                                          *)
ReadReturns ==
    /\ pc = "apply"
    /\ dtos = <<>>
    /\ pc' = "install"
    /\ UNCHANGED <<resolved, err, pending, dtos, configuration>>
    /\ UNCHANGED fsVars

(* Slips in init(): the fallback without re-applying the defaults, and a *)
(* fatal exit instead of the fallback.                                      *)
InstallKeepsPartial ==
    /\ pc = "install"
    /\ configuration' = resolved
    /\ pc' = "done"
    /\ UNCHANGED <<resolved, err, pending, dtos>>
    /\ UNCHANGED fsVars
InstallFatalOnError ==
    /\ pc = "install"
    /\ configuration' = IF err = NoError THEN resolved ELSE configuration
    /\ pc' = IF err = NoError THEN "done" ELSE "panic"
    /\ UNCHANGED <<resolved, err, pending, dtos>>
    /\ UNCHANGED fsVars

(* init(): on error, the defaults are parsed again (a parse failure       *)
(* panics) and applied on top of the value Read returned; the result       *)
(* becomes conf.Configuration.                                             *)
Install ==
    /\ pc = "install"
    /\ IF err /= NoError /\ Baseline = Malformed
          THEN /\ pc' = "panic"
               /\ UNCHANGED configuration
          ELSE /\ configuration' = IF err = NoError THEN resolved
                                                    ELSE Update(resolved, Baseline)
               /\ pc' = "done"
    /\ UNCHANGED <<resolved, err, pending, dtos>>
    /\ UNCHANGED fsVars

(* Another process edits /etc/rhc while init() runs.                      *)
FsChange ==
    /\ pc \notin {"done", "panic"}
    /\ fsChanges < MaxFsChanges
    /\ fsChanges' = fsChanges + 1
    /\ \/ /\ \E f \in FileStates : mainFile' = f
          /\ UNCHANGED <<dropInDir, entries>>
       \/ /\ \E d \in DirStates : dropInDir' = d
          /\ UNCHANGED <<mainFile, entries>>
       \/ /\ \E n \in Names, e \in EntryStates : entries' = [entries EXCEPT ![n] = e]
          /\ UNCHANGED <<mainFile, dropInDir>>
    /\ UNCHANGED procVars

Resolver ==
    \/ ReadBaseline \/ ReadMain \/ StatDropInDir \/ ReadDropInDir
    \/ LoadDropIn \/ DropInsParsed \/ ApplyDropIn \/ ReadReturns \/ Install

Next == Resolver \/ FsChange

(* init() runs to completion: every call blocks on local file I/O only.   *)
Spec == Init /\ [][Next]_vars /\ WF_vars(Resolver)

-----------------------------------------------------------------------------
(* Invariants and properties.                                             *)

(* Type invariant: every variable holds a value of its Go type; in       *)
(* particular no nil configDTO field ever reaches a Config (Update).       *)
TypeOK ==
    /\ mainFile \in FileStates
    /\ dropInDir \in DirStates
    /\ entries \in [Names -> EntryStates]
    /\ fsChanges \in 0..MaxFsChanges
    /\ pc \in {"baseline", "main", "stat", "readdir", "load", "apply",
               "install", "done", "panic"}
    /\ resolved \in Config
    /\ err \in Errors \cup {NoError}
    /\ pending \subseteq Names
    /\ dtos \in Seq(DTO)
    /\ configuration \in Config

(* The configuration the defaults alone give. *)
BaselineConfig == Update(ZeroConfig, Baseline)

(* Does document d set field f, in the sense of Config.Update? *)
Sets(d, f) == d[f] /= Absent /\ (f = "LogLevel" => d[f] \in DOMAIN Levels)
FieldValue(f, v) == IF f = "LogLevel" THEN Levels[v] ELSE v

(* Spec 4.2: the override documents are the entries ending in ".toml"    *)
(* that are not subdirectories.                                            *)
OverrideFiles == {n \in TomlNames : entries[n] \in FileStates \ {Missing}}

(* The layers of the current files, ranked: defaults -2, main file -1,    *)
(* drop-in n at n.                                                         *)
Layers == {-2} \cup (IF mainFile \in Docs THEN {-1} ELSE {})
               \cup (IF dropInDir = "present" THEN OverrideFiles ELSE {})
LayerDoc(r) == CASE r = -2 -> Baseline
                 [] r = -1 -> mainFile
                 [] OTHER  -> entries[r]

(* The documented result of layers ls, stated field by field: each field *)
(* takes the value of the highest-ranked layer of ls that sets it.         *)
LayeredResult(ls) ==
    [f \in DOMAIN ZeroConfig |->
        LET ws == {r \in ls : Sets(LayerDoc(r), f)}
        IN  IF ws = {} THEN ZeroConfig[f]
            ELSE FieldValue(f, LayerDoc(CHOOSE r \in ws : \A s \in ws : s <= r)[f])]

(* Some file Read would read cannot be read or parsed. *)
Broken ==
    \/ mainFile \in {Unreadable, Malformed}
    \/ dropInDir = "unreadable"
    \/ /\ dropInDir = "present"
       /\ \E n \in TomlNames : entries[n] \in {Unreadable, Malformed}

(* When no other process touched /etc/rhc, the installed conf.Configuration *)
(* is the defaults alone if any file is broken (fail loud, then fall back), *)
(* and otherwise the layered result: each field from the last of defaults, *)
(* main file and the sorted .toml drop-ins that sets it.                   *)
InstalledIsLayeredResult ==
    (pc = "done" /\ fsChanges = 0) =>
        configuration = IF Broken THEN BaselineConfig
                        ELSE LayeredResult(Layers)


(* init()'s fallback: whenever Read fails, conf.Configuration is exactly   *)
(* what the embedded defaults alone give, whatever the main file and the  *)
(* drop-ins read before the failure had set.                               *)
FallbackIsBaselineOnly ==
    (pc = "done" /\ err /= NoError) => configuration = BaselineConfig

(* A correctly built rhc always ends init() with a configuration installed *)
(* (spec 4.4: the process never runs without one), whatever the files.    *)
EventuallyConfigured == <>(pc = "done")

-----------------------------------------------------------------------------
(* Statements of the spec that the code does not meet (violation runs).   *)

(* The first malformed drop-in: the one whose parse fails. *)
BrokenDropIns == {n \in OverrideFiles : entries[n] = Malformed}
FirstBrokenDropIn == CHOOSE n \in BrokenDropIns : \A m \in BrokenDropIns : n <= m

(* Spec 4.3 step 3 and 8 "fail-loud on malformed override": when a drop-in *)
(* fails to parse, the value Read returns with the error reflects the      *)
(* drop-ins sorted before it.                                              *)
DropInErrorKeepsEarlierDropIns ==
    (pc = "install" /\ err = [at |-> "load", kind |-> "parse"] /\ fsChanges = 0) =>
        resolved = LayeredResult({r \in Layers : r < FirstBrokenDropIn})

(* The log-level token of the last layer that gives one, valid or not. *)
LastLevelToken ==
    LET ws == {r \in Layers : LayerDoc(r).LogLevel /= Absent}
    IN  LayerDoc(CHOOSE r \in ws : \A s \in ws : s <= r).LogLevel

(* Spec 4.3: a log-level outside DEBUG, INFO, WARN, ERROR is taken as INFO *)
(* where the process-wide configuration is built.                          *)
InvalidLevelTokenMeansInfo ==
    (pc = "done" /\ fsChanges = 0 /\ ~Broken /\ LastLevelToken \notin DOMAIN Levels)
        => configuration.LogLevel = Levels.INFO

(* Spec 4.2: a drop-in directory that does not exist is not an error.    *)
MissingDropInDirNeverFails == err /= [at |-> "readdir", kind |-> "notexist"]

=============================================================================
