\* Two slots for three chats: a worker can wait for a slot longer than the
\* idle timeout.
SPECIFICATION Spec
CONSTANTS
    c1 = c1
    c2 = c2
    c3 = c3
    Chats = {c1, c2, c3}
    NoChat = NoChat
    MaxTasks = 4
    MaxConcurrent = 2
    ChanCap = 2
    Keep = 4
    IdleTimeout = 1
    RunBound = 1
    Prompt = TRUE
INVARIANT SerialPerChat
