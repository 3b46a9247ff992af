CONSTANTS
    LevelTexts <- MCLevelTexts
    CliLevels <- MCCliLevels
    Formats <- MCFormats
    NotSet = NotSet
    Missing = Missing
    Unreadable = Unreadable
    Malformed = Malformed
    ExitCodeDataErr = 65
    MaxFileEdits = 1
SPECIFICATION StartupSpec
INVARIANT
    FormatJsonIsMachineReadable
CHECK_DEADLOCK FALSE
