\* No assumption on how fast goroutines run: one slot, channels of one task.
SPECIFICATION Spec
CONSTANTS
    c1 = c1
    c2 = c2
    Chats = {c1, c2}
    NoChat = NoChat
    MaxTasks = 3
    MaxConcurrent = 1
    ChanCap = 1
    Keep = 1
    IdleTimeout = 0
    RunBound = 0
    Prompt = FALSE
SYMMETRY ChatSymmetry
INVARIANTS
    TypeOK
    SlotAccounting
    ConcurrencyBound
    PendingTaskPlaced
PROPERTY PrunesOldestCompleted
\* A send on a closed channel ends the process: nothing is enabled after it.
CHECK_DEADLOCK FALSE
