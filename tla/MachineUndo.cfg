SPECIFICATION Spec
CONSTANTS
    Names = {"p"}
    MaxAddress = 1
    Loaded <- MemoriesOnly
    Offered = {"tree"}
    Orders <- NearlyListed
    Faulty = {"exclude"}
    MaxEdits = 2
    MaxId = 10
    MaxSelected = 2
    MaxSettings = 1
INVARIANTS
    UndoRestores
