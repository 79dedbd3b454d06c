\* Two names on a command line, so that one command replaces a member twice,
\* adds two, or is refused after its first step.
SPECIFICATION Spec
CONSTANTS
    Paths <- MCPaths
    Base <- MCBase
    Objects <- MCObjects
    Torn <- MCTorn
    NoFile = NoFile
    Foreign = Foreign
    NoName = NoName
    Absolute = 99
    MaxMembers = 2
    MaxSymbols = 3
    MaxArguments = 2
INVARIANT IndexIsExact
PROPERTIES
    OnlyWholeArchivesLoad
    UpdateIsWhole
    ExtractedIsArchived
