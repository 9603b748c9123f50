SPECIFICATION Spec
CONSTANTS
    Proc = {p1}
    NoProc = NoProc
    MaxMonth = 2
    MaxEvents = 2
    ShortWrites = FALSE
    Unsettled = FALSE
INVARIANTS
    NextAppendMaySucceed
