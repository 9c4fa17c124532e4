\* Calls are shorter than idleTTL and never meet an eviction or the shutdown.
SPECIFICATION FairSpec
CONSTANTS
    s1 = s1
    s2 = s2
    a = a
    b = b
    e1 = e1
    e2 = e2
    e3 = e3
    Scopes = {s1, s2}
    Callers = {a, b}
    Executors = {e1, e2, e3}
    NoScope = NoScope
    NoExecutor = NoExecutor
    CallsDuringEviction = FALSE
    LongCalls = FALSE
    CallsAtShutdown = FALSE
INVARIANTS
    TypeOK
    
    EverySandboxTracked
    CallsHoldLiveSandbox
    
    
PROPERTY IdleReleased
CHECK_DEADLOCK FALSE
