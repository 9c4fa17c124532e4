\* /retry, two turns, /undo: in file mode, one operation at a time.
SPECIFICATION Spec
CONSTANTS
    p1 = p1
    p2 = p2
    a1 = a1
    a2 = a2
    o1 = o1
    o2 = o2
    o3 = o3
    Pods = {p1, p2}
    Actors = {a1, a2}
    Objects = {o1, o2, o3}
    NoPod = NoPod
    NoObject = NoObject
    NoRow = NoRow
    NoSnapshot = NoSnapshot
    Modes = {"file"}
    MaxMessages = 6
    Overlap = FALSE
    CrossPodClear = FALSE
SYMMETRY PodSymmetry
PROPERTY UndoKeepsEarlierTurns
