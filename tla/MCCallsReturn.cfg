SPECIFICATION FairSpec
INVARIANT ResultGenuine
PROPERTY CallsReturn
PROPERTY CallsImplementEngine
CHECK_DEADLOCK FALSE
CONSTANTS
    MaxAttempts = 2
    MaxReplays = 0
    Expiring <- MCJobs
    EmptyId = EmptyId
    Nothing = Nothing
    a1 = a1
    a2 = a2
    b = b
    c = c
    d = d
    rid = rid
    text = text
    junk = junk
    Nodes <- MCTwoNodes
    Correct <- MCOneCorrect
    Jobs <- MCJobs
    Job <- MCReused
    Endpoints <- MCTwoEndpoints
    KnownKeys <- MCKnownKeys
    FaultyReplies <- MCFewReplies
