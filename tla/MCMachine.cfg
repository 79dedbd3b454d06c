SPECIFICATION MCSpec
CONSTANTS
    WordBits = 8
    SignBit = 128
    AddressSpace = 256
    RamSize = 24
    Base <- MCBase
    Size <- MCSize
    Radix = 4
    RegisterCount = 3
    Decode <- MCDecode
    DiskDataOffset = 28
    DiskWords = {0, 201}
    Clock = {77}
    DeviceId = 84
    CpuIdValue = 33
    Blank = 2
    QueueSize = 1
    Keys = {3}
    Limits = {0, 2}
    CountModulus = 2
    Setups <- MCSetups
INVARIANTS
    CleanDisplayIsShown
PROPERTIES
    FaultIsPrecise
    WritesItsFootprint
    StopIsFinal
    ActsAsSeen
    RunReturns
