\* Three handlers and a client, whose receiver holds two messages.
SPECIFICATION FairSpec
CONSTANTS
    Editors = {e1, e2, e3}
    Watchers = {w1}
    Capacity = 2
    MaxEdits = 4
INVARIANTS
    TypeOK
    Converged
PROPERTIES
    ComesToRest
CHECK_DEADLOCK FALSE
