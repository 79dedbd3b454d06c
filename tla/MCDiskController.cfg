SPECIFICATION Spec
CONSTANTS
    A = A
    B = B
    Image = {A, B}
    NoFile = NoFile
    SectorWords = 2
    ImageWords <- MCImageWords
    Lbas = {0, 1, 2}
    Zero = zero
    guest = guest
    GuestWords = {guest}
    MaxChanges = 2
INVARIANTS
    CountMatchesMedia
    NoCrossMedia
PROPERTIES
    SuccessMeansDone
    OnlyAddressedSector
    SwapIsAtomic
