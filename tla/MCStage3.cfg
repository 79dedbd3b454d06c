\* Keys: h, t, Enter, Delete and one that is ignored; three slots in the ring.
SPECIFICATION MCSpec
CONSTANTS
    Byte = {0, 13, 104, 116, 127}
    QueueSize = 2
    KeyboardId = 11
    Columns = 7
    Rows = 3
    FirstRow = 1
    Space = 32
    LineSize = 3
    Junk = 116
    Prompt <- MCPrompt
    Banner <- MCBanner
    Heading <- MCHeading
    NoSuchCommand <- MCUnknown
    Replies <- MCReplies
    TimeCommand <- MCTime
    HaltCommand <- MCHalt
    Epochs <- MCEpochs
INVARIANTS
    LineIsShown
PROPERTIES
    IsFifo
    TimeIsShown
    KeysAreTaken
