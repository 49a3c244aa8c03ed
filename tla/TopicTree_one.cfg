\* One host connection: the checks of the handlers are not overtaken.
SPECIFICATION Spec
CONSTANTS
    Topics = {t1, t2, t3, t4}
    NoTopic = NoTopic
    Titles = {a}
    Hosts = {h1}
    Kinds = {"add", "rename", "move", "delete", "setActive", "markDone", "import"}
    Shapes <- MCShapes
    MaxTopicDepth = 3
    MaxTopicsPerRoom = 4
SYMMETRY Symmetry
INVARIANTS
    NoOrphans
    DepthWithinCap
CHECK_DEADLOCK FALSE
