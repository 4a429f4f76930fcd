SPECIFICATION Spec
CONSTANTS
    Name = {"a", "b", "c"}
    Hash <- MCHash
    Word = 8
    Shift = 1
    File <- MCFile
    Address = {0, 1, 2, 3, 4, 5}
INVARIANTS SlotsAreAll NamesFindTheirSymbol AddressesFindTheirSymbol
CHECK_DEADLOCK FALSE
