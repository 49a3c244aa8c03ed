\* Two connections and one kind of message.
SPECIFICATION Spec
CONSTANTS
    cursor = cursor
    Clients = {c1, c2}
    Kinds = {cursor}
    Rate <- MCRate
    Period <- MCPeriod
    MaxNow = 9
INVARIANTS
    TypeOK
    PassesBounded
    RefusedOnlyWhenSpent
CHECK_DEADLOCK FALSE
