\* One turn after the other, and restarts.
SPECIFICATION Spec
CONSTANTS
    t1 = t1
    t2 = t2
    s1 = s1
    s2 = s2
    Turns = {t1, t2}
    Sigs = {s1, s2}
    NoSig = NoSig
    Disturbances = {"crash"}
    MaxIterations = 2
    MaxCalls = 2
    MaxIds = 3
    MaxInputs = 3
SYMMETRY TurnSymmetry
INVARIANT NeverRefused
