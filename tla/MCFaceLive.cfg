\* Two threads, every disciplined deployment, with fairness
CONSTANTS
    t1 = t1  t2 = t2
    Thread = {t1, t2}
    NoThread = NoThread
    Free = Free
    Deployments <- Disciplined
SPECIFICATION FairSpec
PROPERTIES
    UpcallCallsReturn
    LockComesBack
