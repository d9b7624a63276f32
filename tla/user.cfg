SPECIFICATION UserSpec
CONSTANTS
    t1 = t1
    Blank = blank
    Clients = {t1, t2, t3}
    Writers = {t1, t2}
    Readers = {t2, t3}
    Bytes = {x, y}
    NoOne = noOne
    MaxLen = 2
    MaxQueued = 2
    OsThreads = {t1, t2, t3}
    FirstReady <- McFirstReady
    Direct = {d1}
    ByEcall = {e1}
    MaxId = 3
    MaxNodes = 4
    Handlers = {h1, h2}
    Leftovers = {junk, h1}
    Garbage = junk
    MaxHandlers = 3
    MaxCalls = 5
INVARIANTS PipeInv ReadyListInv  HandlersInv
PROPERTIES ImplementsChannel CallsReturn
CHECK_DEADLOCK FALSE
