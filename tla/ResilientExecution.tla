-------------------------- MODULE ResilientExecution --------------------------
(***************************************************************************)
(* ResilientExecutionEngine::execute (resilient_execution.hpp): one call,  *)
(* from its argument check to its return or its exception.  The route      *)
(* provider and the attempt executor are std::function parameters of the   *)
(* engine, so this module lets them return anything their signatures       *)
(* allow: any node, excluded or empty ones too, or no node; a result, a    *)
(* failure, both, neither, or an exception.  What the engine guarantees    *)
(* here it guarantees whatever is plugged into it.                         *)
(*                                                                         *)
(* The lifecycle is local to the call; the engine's thread can be          *)
(* suspended only inside the two callbacks, which is why one action runs   *)
(* from a callback's return to the next callback.                          *)
(***************************************************************************)
EXTENDS ExecutionState, FiniteSets

CONSTANTS
    Nodes,              \* the node identifiers a route provider may return
    RequestIds,         \* non-empty request identifiers
    JobResults,         \* the results an executor may return
    FailureNotices      \* the failure notices an executor may return

ASSUME IdsAreNotEmpty == EmptyId \notin Nodes /\ EmptyId \notin RequestIds
ASSUME NothingIsNoValue == Nothing \notin JobResults \cup Nodes \cup {EmptyId}

VARIABLES
    pc,         \* where the call is: "idle", "routing", "executing", "done", "threw"
    life,       \* the orchestrator's ExecutionState
    target      \* the node of the current attempt

vars == <<pc, life, target>>

Throw ==
    /\ pc' = "threw"
    /\ UNCHANGED <<life, target>>
-------------------------------------------------------------------------------
Init ==
    /\ pc = "idle"
    /\ life = NewExecution(EmptyId)
    /\ target = Nothing

Execute(rid) ==
    /\ pc = "idle"
    /\ IF rid = EmptyId
       THEN Throw
       ELSE /\ life' = NewExecution(rid)
            /\ pc' = AfterIteration(life')
            /\ UNCHANGED target

\* The provider has no target left: the loop breaks.
RouteExhausted ==
    /\ pc = "routing"
    /\ pc' = "done"
    /\ UNCHANGED <<life, target>>

\* Mutant: the engine trusts the provider and begin_attempt alone.
RouteSelected_Unchecked(node) ==
    /\ pc = "routing"
    /\ life' = BeginAttempt(life, node)
    /\ target' = node
    /\ pc' = "executing"

RouteSelected(node) ==
    /\ pc = "routing"
    /\ IF node \in life.excluded_nodes \/ BeginAttemptThrows(life, node)
       THEN Throw
       ELSE /\ life' = BeginAttempt(life, node)
            /\ target' = node
            /\ pc' = "executing"

ResultReturned(result) ==
    /\ pc = "executing"
    /\ IF AcceptResultThrows(life, result)
       THEN Throw
       ELSE /\ life' = AcceptResult(life, result)
            /\ pc' = AfterIteration(life')
            /\ UNCHANGED target

\* Mutant: a failure naming another node than the attempted one is accepted.
FailureReturned_AnyNode(notice) ==
    /\ pc = "executing"
    /\ IF AcceptFailureThrows(life, notice)
       THEN Throw
       ELSE /\ life' = AcceptFailure(life, notice)
            /\ pc' = AfterIteration(life')
            /\ UNCHANGED target

FailureReturned(notice) ==
    /\ pc = "executing"
    /\ IF notice.failed_node_id # target \/ AcceptFailureThrows(life, notice)
       THEN Throw
       ELSE /\ life' = AcceptFailure(life, notice)
            /\ pc' = AfterIteration(life')
            /\ UNCHANGED target

\* The executor returned a result and a failure, or neither of them.
NoTerminalEvidence ==
    /\ pc = "executing"
    /\ Throw

\* An exception leaves a callback; execute does not catch it.
CallbackThrows ==
    /\ pc \in {"routing", "executing"}
    /\ Throw

Next ==
    \/ \E rid \in RequestIds \cup {EmptyId} : Execute(rid)
    \/ RouteExhausted
    \/ \E node \in Nodes \cup {EmptyId} : RouteSelected(node)
    \/ \E result \in JobResults : ResultReturned(result)
    \/ \E notice \in FailureNotices : FailureReturned(notice)
    \/ NoTerminalEvidence
    \/ CallbackThrows

Spec == Init /\ [][Next]_vars

\* The callbacks return or throw: routing is a local computation and the
\* executor has deadlines on every blocking call.
FairSpec == Spec /\ WF_vars(Next)
-------------------------------------------------------------------------------
Attempt == [node_id : Nodes, outcome : AttemptOutcomes]

ExecutionStates ==
    [request_id     : RequestIds \cup {EmptyId},
     attempts       : Seq(Attempt),
     excluded_nodes : SUBSET Nodes,
     completed      : BOOLEAN,
     result         : JobResults \cup {Nothing}]

\* The variables keep their types; an attempt always names a real node.
TypeOK ==
    /\ pc \in {"idle", "routing", "executing", "done", "threw"}
    /\ life \in ExecutionStates
    /\ target \in Nodes \cup {Nothing}

\* No node is tried twice for one request: the engine's check of the route
\* (lines 50-51) and begin_attempt's together stop a provider that ignores the
\* exclusions it is given, whatever happened on the attempts in between.
NoNodeTwice ==
    \A i, k \in 1..Len(life.attempts) :
        i # k => life.attempts[i].node_id # life.attempts[k].node_id

\* The exclusion set is exactly the set of nodes whose attempt FAILED: what the
\* provider is shown neither forgets a failed node nor blames an untried one.
ExclusionExact ==
    life.excluded_nodes =
        {life.attempts[i].node_id :
            i \in {k \in 1..Len(life.attempts) : life.attempts[k].outcome = "FAILED"}}

\* A call that returns without a result has an authenticated failure for every
\* attempt it made, and a call that returns with one has a failure for every
\* attempt but the last; no attempt is left IN_FLIGHT behind the caller's back
\* unless the result came from another node than the attempted one.
EveryAttemptAccounted ==
    pc = "done" =>
        /\ \A i \in 1..Len(life.attempts) :
               life.attempts[i].outcome # "FAILED" =>
                   life.completed /\ i = Len(life.attempts)
        /\ life.completed =>
               /\ life.attempts # <<>>
               /\ life.attempts[Len(life.attempts)].outcome =
                      IF life.result.responder_node_id = target THEN "OK" ELSE "IN_FLIGHT"

\* A lifecycle says it is completed exactly when it holds a result, and that
\* result answers this request, is signed and succeeded.
CompletedByEvidence ==
    /\ life.completed <=> life.result # Nothing
    /\ life.completed =>
           /\ life.result.request_id = life.request_id
           /\ life.result.signature # NoSignature
           /\ life.result.status = "OK"

\* The attempt limit is never overrun, however the failures and the routes
\* alternate (exhausted() in the loop and again in begin_attempt).
WithinAttemptLimit == Len(life.attempts) <= MaxAttempts

\* Where the loop stands, in terms of the lifecycle: at the route provider every
\* attempt so far has failed and one more is allowed; at the executor the last
\* attempt, and only that one, is in flight on the target.
LoopPosition ==
    LET n == Len(life.attempts)
    IN  /\ \A i \in 1..n : i < n => life.attempts[i].outcome = "FAILED"
        /\ pc = "idle" => life = NewExecution(EmptyId)
        /\ pc = "routing" =>
               /\ LoopContinues(life)
               /\ n > 0 => life.attempts[n].outcome = "FAILED"
        /\ pc = "executing" =>
               /\ ~life.completed
               /\ n > 0
               /\ life.attempts[n] = [node_id |-> target, outcome |-> "IN_FLIGHT"]

\* As many nodes are excluded as attempts have failed, so the limit on the
\* attempts is a limit on the nodes the request can reach.
ExclusionCount ==
    /\ IsFiniteSet(life.excluded_nodes)
    /\ pc \in {"idle", "routing"} => Cardinality(life.excluded_nodes) = Len(life.attempts)
    /\ pc = "executing" => Cardinality(life.excluded_nodes) + 1 = Len(life.attempts)

\* The inductive invariant behind the proofs.  NoNodeTwice and ExclusionExact
\* are not inductive alone: whether a new attempt repeats a node, and whether a
\* failure closes the attempt it is about, depends on where the loop stands.
LifecycleInv ==
    /\ TypeOK
    /\ LoopPosition
    /\ NoNodeTwice
    /\ ExclusionExact
    /\ EveryAttemptAccounted
    /\ CompletedByEvidence
    /\ WithinAttemptLimit
    /\ ExclusionCount

\* One step's change to the evidence: a step of a running call appends one
\* attempt or closes the one in flight, and never reopens a failed attempt,
\* forgets an exclusion or replaces a result.
EvidenceStep ==
    pc # "idle" =>
        /\ life.excluded_nodes \subseteq life'.excluded_nodes
        /\ life.completed => life' = life
        /\ life'.request_id = life.request_id
        /\ \A i \in 1..Len(life.attempts) :
               /\ i <= Len(life'.attempts)
               /\ life'.attempts[i].node_id = life.attempts[i].node_id
               /\ life.attempts[i].outcome # "IN_FLIGHT" => life'.attempts[i] = life.attempts[i]

\* The evidence a caller will read only ever grows (the orchestrator is the
\* only writer of its state and has no operation that takes anything back).
EvidenceOnlyGrows == [][EvidenceStep]_vars

\* Every call ends, by returning or by throwing: each iteration of the loop
\* uses up an attempt, and there are MaxAttempts of them.
CallEnds == <>(pc \in {"done", "threw"})
-------------------------------------------------------------------------------
\* The abstract state that a lifecycle and a program counter stand for.
AbstractStatus ==
    CASE pc = "threw" -> "aborted"
      [] pc = "done"  -> IF life.completed THEN "completed" ELSE "gave_up"
      [] OTHER        -> "running"

F == INSTANCE Failover WITH
        failed <- life.excluded_nodes,
        trying <- IF pc = "executing" THEN target ELSE Nothing,
        status <- AbstractStatus

\* The engine implements the failover contract: the loop, the lifecycle's three
\* mutators and the two callbacks together never do anything Failover forbids.
ImplementsFailover == F!Spec
===============================================================================
