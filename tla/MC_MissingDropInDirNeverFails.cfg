CONSTANTS
    Paths <- MCPaths
    EmptyString <- MCEmptyString
    Tokens <- MCTokens
    Docs <- MCDocs
    Baseline <- MCBaseline
    Names <- MCNames
    TomlNames <- MCTomlNames
    Absent = Absent
    Missing = Missing
    Unreadable = Unreadable
    Malformed = Malformed
    IsDir = IsDir
    MaxFsChanges = 1
SPECIFICATION Spec
INVARIANT
    MissingDropInDirNeverFails
CHECK_DEADLOCK FALSE
