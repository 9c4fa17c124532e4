\* A slot for every chat, and handlers that return within the idle timeout.
SPECIFICATION Spec
CONSTANTS
    c1 = c1
    c2 = c2
    Chats = {c1, c2}
    NoChat = NoChat
    MaxTasks = 4
    MaxConcurrent = 2
    ChanCap = 2
    Keep = 4
    IdleTimeout = 1
    RunBound = 1
    Prompt = TRUE
INVARIANTS
    SerialPerChat
    NoSendOnClosed
PROPERTY ServesChatsSerially
