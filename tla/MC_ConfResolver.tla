-------------------------- MODULE MC_ConfResolver --------------------------
(* Small instance of ConfResolver: two path values, the empty string among *)
(* them; a recognised and an unrecognised log-level ("debug" is not one of *)
(* the upper-case names Config.Update matches); four documents that set,   *)
(* clear and leave fields; two .toml drop-ins and one other entry.         *)
EXTENDS ConfResolver

MCEmptyString == ""
MCPaths == {MCEmptyString, "/a"}
MCTokens == {"INFO", "DEBUG", "debug"}

MCDoc(cert, key, level, cadir) ==
    [CertFile |-> cert, KeyFile |-> key, LogLevel |-> level, CADir |-> cadir]

(* data/etc/config.toml: every field given, log-level INFO (spec I1). *)
MCBaseline == MCDoc("", "", "INFO", "")

MCDocs == { MCDoc(Absent, Absent, Absent, Absent),
            MCDoc("/a", Absent, "DEBUG", Absent),
            MCDoc("", Absent, Absent, "/a"),
            MCDoc(Absent, "/a", "debug", Absent) }

MCNames == {1, 2, 3}
MCTomlNames == {1, 2}
=============================================================================
