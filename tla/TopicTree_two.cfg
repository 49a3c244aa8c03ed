\* Two host connections restructuring one room at the same time.
SPECIFICATION Spec
CONSTANTS
    Topics = {t1, t2, t3}
    NoTopic = NoTopic
    Titles = {a}
    Hosts = {h1, h2}
    Kinds = {"add", "rename", "move", "delete", "setActive", "markDone", "import", "promote"}
    Shapes <- MCShapes
    MaxTopicDepth = 3
    MaxTopicsPerRoom = 3
SYMMETRY Symmetry
INVARIANTS
    TypeOK
    ForestAcyclic
PROPERTIES
    DeleteClearsActive
CHECK_DEADLOCK FALSE
