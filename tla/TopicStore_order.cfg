\* Two host connections: whatever order their operations reach the writer in,
\* and whatever batches are lost.
SPECIFICATION StoreSpec
CONSTANTS
    Topics = {t1, t2}
    NoTopic = NoTopic
    Titles = {a}
    Hosts = {h1, h2}
    Kinds = {"add", "move", "delete", "promote"}
    Shapes <- MCShapes
    MaxTopicDepth = 3
    MaxTopicsPerRoom = 3
    MaxBatch = 2
    MaxBacklog = 2
SYMMETRY StoreSymmetry
INVARIANTS
    StoredParentsExist
CHECK_DEADLOCK FALSE
