\* One host connection: a restart brings back a state the room was in, and
\* topics get into the database.
SPECIFICATION FairStoreSpec
CONSTANTS
    Topics = {t1, t2}
    NoTopic = NoTopic
    Titles = {a}
    Hosts = {h1}
    Kinds = {"add", "move", "delete"}
    Shapes <- MCShapes
    MaxTopicDepth = 3
    MaxTopicsPerRoom = 3
    MaxBatch = 2
    MaxBacklog = 2
PROPERTIES
    ImplementsWriteBehind
    TopicsReachDisk
CHECK_DEADLOCK FALSE
