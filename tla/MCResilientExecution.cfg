SPECIFICATION FairSpec
INVARIANT TypeOK
INVARIANT NoNodeTwice
INVARIANT ExclusionExact
INVARIANT EveryAttemptAccounted
INVARIANT CompletedByEvidence
PROPERTY EvidenceOnlyGrows
PROPERTY CallEnds
PROPERTY ImplementsFailover
CHECK_DEADLOCK FALSE
CONSTANTS
    MaxAttempts = 3
    EmptyId = EmptyId
    Nothing = Nothing
    n1 = n1
    n2 = n2
    n3 = n3
    n4 = n4
    rid = rid
    other = other
    sig = sig
    Nodes <- MCNodes
    RequestIds <- MCRequestIds
    JobResults <- MCJobResults
    FailureNotices <- MCFailureNotices
