\* The operations on a session come one after the other, on two pods.
SPECIFICATION Spec
CONSTANTS
    p1 = p1
    p2 = p2
    a1 = a1
    a2 = a2
    o1 = o1
    o2 = o2
    o3 = o3
    Pods = {p1, p2}
    Actors = {a1, a2}
    Objects = {o1, o2, o3}
    NoPod = NoPod
    NoObject = NoObject
    NoRow = NoRow
    NoSnapshot = NoSnapshot
    Modes = {"file", "store"}
    MaxMessages = 4
    Overlap = FALSE
    CrossPodClear = FALSE
SYMMETRY PodSymmetry
INVARIANTS
    TypeOK
    RewriteFromCurrent
    GetSeesWrites
    
PROPERTY AppendExtendsHistory
