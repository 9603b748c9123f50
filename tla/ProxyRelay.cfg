SPECIFICATION FairSpec
CONSTANTS
    routineCall = routineCall
    otherCall = otherCall
    listTools = listTools
    Requests <- ThreeRequests
    ToolCalls <- TwoCalls
    Routine <- OneRoutine
    FailOpen = TRUE
INVARIANTS
    GovernedRuns
    ExactlyOneAnswer
PROPERTIES
    CrashIsTold
    TeardownEnds
