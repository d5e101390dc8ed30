\* Two threads run the face while a third one puts
CONSTANTS
    t1 = t1  t2 = t2
    Thread = {t1, t2, t3}
    NoThread = NoThread
    Free = Free
    Deployments <- Undisciplined
SPECIFICATION FreeSpec
INVARIANT RunsDoNotOverlap
