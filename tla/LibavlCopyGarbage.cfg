SPECIFICATION Spec
CONSTANTS
    Tables <- OnlyRb
    Travs = {}
    MaxHeight = 3
    AllocByte = 0
INVARIANTS
    DestroysItemsOnly
VIEW view
