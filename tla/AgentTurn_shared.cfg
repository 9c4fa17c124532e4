\* Two turns on one session, with everything that can disturb them.
SPECIFICATION Spec
CONSTANTS
    t1 = t1
    t2 = t2
    s1 = s1
    s2 = s2
    Turns = {t1, t2}
    Sigs = {s1, s2}
    NoSig = NoSig
    Disturbances = {"overlap", "inject", "crash", "stream"}
    MaxIterations = 3
    MaxCalls = 2
    MaxIds = 4
    MaxInputs = 2
SYMMETRY TurnSymmetry
INVARIANTS
    TypeOK
    RoundsComplete
    PromptIsHistory
    LeavesWellFormed
    NoThreeAlike
