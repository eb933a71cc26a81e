SPECIFICATION Spec
CONSTANTS
    m = m
    s = s
    x = x
    y = y
    Name = Name
    Type = Type
    First = x
    Value = {x, y}
    Tracker = {m}
    Edits <- BrokenEdits
    Editors = {m}
    Api = {"undo", "do", "undo_sequence", "do_sequence"}
    Watching = {m}
    Failing <- DoTypeFails
    Follows <- Alone
    MaxOps = 4
INVARIANTS
    ContextIsReplay
    LeafsAreTips
    DoneLeadsToPosition
CHECK_DEADLOCK FALSE
