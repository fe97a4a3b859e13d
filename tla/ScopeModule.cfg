SPECIFICATION Spec
CONSTANTS
    Layouts = {1, 2, 3}
    Size = 5
    Host = host
    Viewer = viewer
    MaxRuns = 2
    MaxViews = 1
    MaxOptions = 1
    MaxFaults = 1
INVARIANTS TypeOK ReadScopeFresh MirrorUnlessRaced
CHECK_DEADLOCK FALSE
