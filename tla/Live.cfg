\* Every channel full with one message, one slot for two chats, fair scheduling.
SPECIFICATION LiveSpec
CONSTANTS
    g1 = g1
    g2 = g2
    c1 = c1
    c2 = c2
    NoChat = NoChat
    Chats = {g1, g2}
    ChatOf <- MessageChats
    MaxMessages = 4
    InCap = 1
    OutCap = 1
    QueueCap = 1
    SlotCount = 1

    
PROPERTIES
    EveryTaskCompletes
    
    GatewayProgress
\* Run returns, or hangs in one of the ways that GatewayProgress names.
CHECK_DEADLOCK FALSE
