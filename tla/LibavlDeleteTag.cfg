SPECIFICATION Spec
CONSTANTS
    Tables <- OnlyTrb
    Travs = {}
    MaxHeight = 3
    AllocByte = 1
INVARIANTS
    DeleteDeletes
VIEW view
