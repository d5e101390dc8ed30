\* Two faces and one worker; stop() from upcalls, timers, events or the worker
CONSTANTS
    Handle = {h1, h2}
    Worker = {w}
    Loop = loop
    Free = Free
    NoHandle = NoHandle
    MaxPosts = 2
    MaxRuns = 2
    StopModes <- FromAnywhere
SPECIFICATION Spec
INVARIANTS
    TypeOK
    EventsOnceInOrder
    UpcallStopIsQuiet
    LockLeaksOnlyByRaise
    StopDisconnectsOthers
PROPERTIES
    StopSparesBusy
    ImplementsQueue
CHECK_DEADLOCK FALSE
