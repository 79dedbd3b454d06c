SPECIFICATION Spec
CONSTANTS
    Firmware = {bios}
    Program = {hello, life}
    Disk = {image, other}
    NoPath = NoPath
    NoMachine = NoMachine
    Spaces = spaces
    Frame = {spaces, text}
PROPERTY
    LoadingDoesNotStart
