SPECIFICATION Spec
CONSTANTS
    HostFile = {"short"}
    HostSize <- MCHostSize
    Name = {"boot.bin", "BOOT.BIN", "NEXT.BIN"}
    Upper <- MCUpper
    SectorSize = 2
    Modulus = 8
    EntriesPerSector = 2
    DirectorySectors = 2
    DataStart = 4
    Sizes = {6}
    Zero = zero
    OutputBuffer = 2
    MaxSectors = 9
    MaxCuts = 1
INVARIANTS
    PayloadInDataArea
