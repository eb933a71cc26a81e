SPECIFICATION FairSpec
CONSTANTS
    m = m
    s = s
    x = x
    y = y
    Name = Name
    Type = Type
    First = x
    Value = {x, y}
    Tracker = {m, s}
    Edits <- ReverserEdits
    Editors = {m}
    Api = {}
    Watching = {}
    Failing = {}
    Follows <- SlaveOfMaster
    MaxOps = 3
PROPERTIES
    SlaveCatchesUp
CHECK_DEADLOCK FALSE
