\* One host connection: what reaches the database, with crashes at any point.
SPECIFICATION StoreSpec
CONSTANTS
    Topics = {t1, t2}
    NoTopic = NoTopic
    Titles = {a}
    Hosts = {h1}
    Kinds = {"add", "rename", "move", "delete", "setActive", "markDone", "import"}
    Shapes <- MCShapes
    MaxTopicDepth = 4
    MaxTopicsPerRoom = 3
    MaxBatch = 2
    MaxBacklog = 2
SYMMETRY Symmetry
INVARIANTS
    StoreTypeOK
    ReplayReachesRoom
    BatchesCommit
    StoredAcyclic
CHECK_DEADLOCK FALSE
