SPECIFICATION Spec
CONSTANTS
    Proc = {z1, z2}
    Source = {"P", "Q"}
    Url = {"u"}
    Commit = {"c1", "c2"}
    Tip = "c1"
    Tree <- MCTree
    RootManifests <- MCRoots
    DirManifests <- MCDirs
    CutPoints = {5}
    MaxEdits = 1
SYMMETRY Symmetry
INVARIANTS GraphComplete Reproducible
PROPERTIES LockSound TakesPristine
CHECK_DEADLOCK FALSE
