SPECIFICATION BootSpec
CHECK_DEADLOCK FALSE
CONSTANTS
    full = full
    big = big
    bare = bare
    empty = empty
    raw = raw
    foreign = foreign
    Image = {full, big, bare, empty, raw, foreign}
    NoFile = NoFile
    SectorWords = 2
    ImageWords <- MCImageWords
    Lbas = {0, 1, 2, 3, 4, 5, 6, 7}
    Zero = zero
    GuestWords = {}
    MaxChanges = 1
    Content <- MCContent
    DirectoryEntries = 4
    Scratch = 0
    BootBase = 2
    NextBase = 6
    BootWords = 2
    RamWords = 12
    MaxSwaps = 1
INVARIANTS
    HandoffIsTheFile
    NotFoundIsTrue
    NoSplicedSector
PROPERTIES
    BootEnds
