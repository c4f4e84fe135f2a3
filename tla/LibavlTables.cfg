SPECIFICATION Spec
CONSTANTS
    Tables <- AllKinds
    Travs = {1}
    MaxHeight = 3
    AllocByte = 0
INVARIANTS
    WellFormed
    DestroyedInOrder
    CopyFaithful
    BalanceMinimal
    TraverserStack
PROPERTIES
    TableSpec
VIEW view
