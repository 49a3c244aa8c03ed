\* Two hosts, a pen board and an Excalidraw board.
SPECIFICATION Spec
CONSTANTS
    Pens = {p}
    Scenes = {e}
    Strokes = {s}
    Texts = {t}
    Contents = {v1, v2}
    Untitled = Untitled
    Titles = {Untitled, n1}
    MaxBoards = 1
    Hosts = {h1, h2}
    NoBoard = NoBoard
    MaxVersion = 2
    MaxBatch = 2
    MaxQueue = 1
    MaxBegun = 5
SYMMETRY MCSymmetry
INVARIANTS
    TypeOK
    FocusExists
    BoardsStored
    PenStored
    StrokesUndoable
    BoardsShown
    ScenesShown
    PenShown
    LossExplained
CHECK_DEADLOCK FALSE
