SPECIFICATION Spec
CONSTANTS
    m = m
    s = s
    x = x
    y = y
    Name = Name
    Type = Type
    First = x
    Value = {x, y}
    Tracker = {m}
    Edits <- GuiEdits
    Editors = {m}
    Api = {"undo_sequence", "do_sequence"}
    Watching = {m}
    Failing = {}
    Follows <- Alone
    MaxOps = 5
INVARIANTS
    TypeOK
    SequenceWhole
    DerivedStandsAlone
    NamesAreFollowed
    RedoRestores
CHECK_DEADLOCK FALSE
