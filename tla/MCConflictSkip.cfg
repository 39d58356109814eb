SPECIFICATION Spec
INVARIANT Converged
CHECK_DEADLOCK FALSE
CONSTANTS
    r1 = r1
    r2 = r2
    Replicas <- MCReplicas
    Deltas <- MCSkip
    Initial <- MCInitial
