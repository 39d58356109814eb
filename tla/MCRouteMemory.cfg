SPECIFICATION Spec
INVARIANT RoutesLearned
INVARIANT IndexLeadsToRecord
CONSTANTS
    a = a
    b = b
    a1 = a1
    a2 = a2
    b1 = b1
    r1 = r1
    r2 = r2
    junk = junk
    cond = cond
    Agents = {a, b}
    Callers = {a1, a2, b1}
    AgentOf <- MCAgentOf
    Conditions = {cond}
    Results = {r1, junk}
    Valid = {r1}
    Validating = {a1, b1}
    MadeUp <- MCMadeUp
    Nothing = Nothing
