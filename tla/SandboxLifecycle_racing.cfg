\* A call may start while its scope is being evicted.
SPECIFICATION Spec
CONSTANTS
    s1 = s1
    s2 = s2
    a = a
    b = b
    e1 = e1
    e2 = e2
    e3 = e3
    Scopes = {s1, s2}
    Callers = {a, b}
    Executors = {e1, e2, e3}
    NoScope = NoScope
    NoExecutor = NoExecutor
    CallsDuringEviction = TRUE
    LongCalls = FALSE
    CallsAtShutdown = FALSE
INVARIANT CallsHoldLiveSandbox
CHECK_DEADLOCK FALSE
