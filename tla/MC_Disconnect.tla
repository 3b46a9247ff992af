---------------------------- MODULE MC_Disconnect ----------------------------
(* rhc disconnect on a small instance: the log-level texts of MC_CliStartup *)
(* (ERROR+4 among them), --format none or json, every service state.        *)
EXTENDS Disconnect

MCText(b, o) == [base |-> b, offset |-> o]
MCLevelTexts == {MCText("INFO", 0), MCText("DEBUG", 0), MCText("ERROR", 0),
                 MCText("ERROR", 4), MCText("LOUD", 0)}
MCCliLevels == {NotSet, MCText("ERROR", 4), MCText("LOUD", 0)}
MCFormats == {"none", "json"}
=============================================================================
