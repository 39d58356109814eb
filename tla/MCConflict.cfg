SPECIFICATION Spec
INVARIANT ApartOnlyBySkip
 
INVARIANT LocalIsGreatest
CHECK_DEADLOCK FALSE
CONSTANTS
    r1 = r1
    r2 = r2
    Replicas <- MCReplicas
    Deltas <- MCMixed
    Initial <- MCInitial
