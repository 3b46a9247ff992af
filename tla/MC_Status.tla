---------------------------- MODULE MC_Status ----------------------------
(* rhc status on a small instance: the log-level texts of MC_CliStartup, *)
(* --format none or json, every answer of RHSM, Insights and systemd.    *)
EXTENDS Status

MCText(b, o) == [base |-> b, offset |-> o]
MCLevelTexts == {MCText("INFO", 0), MCText("DEBUG", 0), MCText("ERROR", 0),
                 MCText("ERROR", 4), MCText("LOUD", 0)}
MCCliLevels == {NotSet, MCText("ERROR", 4), MCText("LOUD", 0)}
MCFormats == {"none", "json"}
=============================================================================
