SPECIFICATION Spec
CONSTANTS
    routineCall = routineCall
    otherCall = otherCall
    listTools = listTools
    Requests <- ThreeRequests
    ToolCalls <- TwoCalls
    Routine <- OneRoutine
    FailOpen = TRUE
INVARIANTS
    NoRequestLeftHanging
