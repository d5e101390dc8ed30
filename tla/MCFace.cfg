\* Three threads, every disciplined deployment
CONSTANTS
    t1 = t1  t2 = t2  
    Thread = {t1, t2, t3}
    NoThread = NoThread
    Free = Free
    Deployments <- Disciplined
SPECIFICATION Spec
INVARIANTS
    TypeOK
    ExclusiveAccess
    ReleaseOwn
    NoSelfDeadlock
    RunStateCoherent
    RunsDoNotOverlap
PROPERTY
    ImplementsAccess
