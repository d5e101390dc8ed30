\* The same loop, run once, with fairness
CONSTANTS
    Handle = {h1, h2}
    Worker = {w}
    Loop = loop
    Free = Free
    NoHandle = NoHandle
    MaxPosts = 2
    MaxRuns = 1
    StopModes <- FromAnywhere
SPECIFICATION FairSpec
PROPERTIES
    PostedEventsRun
    StopEndsLoop
    ExecuteReturns
CHECK_DEADLOCK FALSE
