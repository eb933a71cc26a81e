SPECIFICATION Spec
CONSTANTS
    Names = {"p"}
    MaxAddress = 1
    Loaded <- Boards
    Offered = {"select", "description", "tree", "add", "clone", "line", "device", "mappings", "bus", "irq", "memory", "rename"}
    Orders <- NearlyListed
    Faulty = {}
    MaxEdits = 2
    MaxId = 10
    MaxSelected = 2
    MaxSettings = 1
INVARIANTS
    TypeOK
    NothingRaises
    UndoRestores
    NothingDangles
    DeletesNoMore
