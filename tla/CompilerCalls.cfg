\* The constants of Compiler.cfg, and a program that calls in an index.
SPECIFICATION MCSpec
CONSTANTS
    WordBits = 8
    SignBit = 128
    Radix = 4
    StackTop = 252
    Junk = 1
    MaxNodes = 40
    MaxStatements = 12
    MaxLocals = 6
    MaxFunctions = 3
    MaxParameters = 4
    WordValues = 256
    IntValues = 256
    Spread = 100000
    Strange = 1000000000
    MaxSlots = 4
    SignShift = 7
    ByteMask = 3
    CharValues = 4
    MaxDepth = 9
    MaxPending = 4
    MaxRegister = 15
    MaxFaults = 0
    MaxEdits = 0
    Contents <- MCTexts
    Texts <- MCTexts
    Sources <- MCNested
    Revisions <- MCNested
    Parsed <- TextParses
    Emitted <- TextEmits
    Assembled <- TextAssembles
    ProgramOf <- MCProgramOf
CHECK_DEADLOCK FALSE
INVARIANT RequiredValuesSurvive
