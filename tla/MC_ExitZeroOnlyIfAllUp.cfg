CONSTANTS
    LevelTexts <- MCLevelTexts
    CliLevels <- MCCliLevels
    Formats <- MCFormats
    NotSet = NotSet
    Missing = Missing
    Unreadable = Unreadable
    Malformed = Malformed
    ExitCodeDataErr = 65
    MaxFileEdits = 0
SPECIFICATION Spec
INVARIANT
    ExitZeroOnlyIfAllUp
CHECK_DEADLOCK FALSE
