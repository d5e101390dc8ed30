\* stop() called by another thread
CONSTANTS
    Handle = {h1, h2}
    Worker = {w}
    Loop = loop
    Free = Free
    NoHandle = NoHandle
    MaxPosts = 1
    MaxRuns = 1
    StopModes <- FromThreads
SPECIFICATION Spec
PROPERTY DisconnectsOnlyIdle
CHECK_DEADLOCK FALSE
