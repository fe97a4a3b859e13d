SPECIFICATION Spec
CONSTANTS
    Layouts <- MCLayouts
    Offsets = {0, 1, 2, 4}
    Sizes = {1, 2, 3, 4, 5, 6, 7, 8}
    Blocks = {1, 2, 3, 4, 5}
    RingSizes = {2, 4, 9}
INVARIANTS TypeOK ExactCover FramesMarked Refused
CHECK_DEADLOCK FALSE
