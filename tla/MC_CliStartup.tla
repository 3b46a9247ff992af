---------------------------- MODULE MC_CliStartup ----------------------------
(* A small instance of CliStartup: five log-level texts (three names, one *)
(* offset above ERROR, one unknown name), three --format values.          *)
EXTENDS CliStartup

MCText(b, o) == [base |-> b, offset |-> o]
MCLevelTexts == {MCText("INFO", 0), MCText("DEBUG", 0), MCText("ERROR", 0),
                 MCText("ERROR", 4), MCText("LOUD", 0)}
MCCliLevels == {NotSet, MCText("DEBUG", 0), MCText("LOUD", 0)}
MCFormats == {"none", "json", "yaml"}
=============================================================================
