\* Two handlers and a client whose Welcome they cross.
SPECIFICATION Spec
CONSTANTS
    Editors = {e1, e2}
    Watchers = {w1}
    Capacity = 1
    MaxEdits = 3
INVARIANTS
    NumberTellsAll
CHECK_DEADLOCK FALSE
