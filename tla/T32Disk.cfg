SPECIFICATION Spec
CONSTANTS
    HostFile = {"empty", "short", "long"}
    HostSize <- MCHostSize
    Name = {"boot.bin", "BOOT.BIN", "NEXT.BIN", "X"}
    Upper <- MCUpper
    SectorSize = 2
    Modulus = 8
    EntriesPerSector = 2
    DirectorySectors = 2
    DataStart = 3
    Sizes = {5, 6}
    Zero = zero
    OutputBuffer = 2
    MaxSectors = 7
    MaxCuts = 1
INVARIANTS
    FilesIntact
    NamesUnique
    ExtractedMatches
    NoForeignData
