SPECIFICATION Spec
INVARIANT EngineNeverThrows
INVARIANT ResultGenuine
INVARIANT CompletedOnAttemptedNode
INVARIANT RequestsSignedForTarget
INVARIANT HonestPeerNotMisjudged
INVARIANT RepeatsConfined
CHECK_DEADLOCK FALSE
CONSTANTS
    MaxAttempts = 2
    MaxReplays = 1
    Expiring = {}
    EmptyId = EmptyId
    Nothing = Nothing
    a1 = a1
    a2 = a2
    b = b
    c = c
    d = d
    rid = rid
    text = text
    junk = junk
    Nodes <- MCNodes
    Correct <- MCCorrect
    Jobs <- MCJobs
    Job <- MCJob
    Endpoints <- MCEndpoints
    KnownKeys <- MCKnownKeys
    FaultyReplies <- MCFaultyReplies
