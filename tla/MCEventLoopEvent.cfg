\* stop() called by an event
CONSTANTS
    Handle = {h1, h2}
    Worker = {w}
    Loop = loop
    Free = Free
    NoHandle = NoHandle
    MaxPosts = 1
    MaxRuns = 1
    StopModes <- FromEvents
SPECIFICATION Spec
INVARIANT StopIsNotReported
CHECK_DEADLOCK FALSE
