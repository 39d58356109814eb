---------------------------- MODULE ExecutionState ----------------------------
(***************************************************************************)
(* The lifecycle record that ExecutionFailoverOrchestrator owns            *)
(* (execution_orchestrator.hpp) and its three mutators, as operators on    *)
(* the record.  Every mutator checks all of its conditions before it       *)
(* writes, so each is a pair: the condition under which the call throws    *)
(* and leaves the state alone, and the state it produces otherwise.        *)
(*                                                                         *)
(* Of the evidence it is handed, the lifecycle reads a result's request,   *)
(* responder, status and whether it is signed, and a failure's request,    *)
(* failed node and whether it is signed.                                   *)
(***************************************************************************)
EXTENDS Contracts

CONSTANT MaxAttempts    \* constructor argument max_attempts

\* The constructor rejects max_attempts = 0.
ASSUME MaxAttemptsPositive == MaxAttempts \in Nat \ {0}

AttemptOutcomes == {"IN_FLIGHT", "FAILED", "OK"}

NewExecution(rid) ==
    [request_id     |-> rid,
     attempts       |-> <<>>,
     excluded_nodes |-> {},
     completed      |-> FALSE,
     result         |-> Nothing]

\* Mutant: the limit is one attempt too generous.
Exhausted_OffByOne(st) == Len(st.attempts) > MaxAttempts

Exhausted(st) == Len(st.attempts) >= MaxAttempts

BeginAttemptThrows(st, node) ==
    \/ st.completed
    \/ node = EmptyId
    \/ node \in st.excluded_nodes
    \/ Exhausted(st)

BeginAttempt(st, node) ==
    [st EXCEPT !.attempts = Append(@, [node_id |-> node, outcome |-> "IN_FLIGHT"])]

\* The latest attempt was made on this node.
LastAttemptOn(st, node) ==
    /\ st.attempts # <<>>
    /\ st.attempts[Len(st.attempts)].node_id = node

\* The latest attempt gets an outcome, if it was made on this node.
CloseLastAttempt(st, node, outcome) ==
    IF LastAttemptOn(st, node)
    THEN [st.attempts EXCEPT ![Len(st.attempts)].outcome = outcome]
    ELSE st.attempts

AcceptFailureThrows(st, notice) ==
    \/ st.completed
    \/ notice.request_id # st.request_id
    \/ notice.failed_node_id = EmptyId
    \/ notice.signature = NoSignature

\* Mutant: the failure is recorded on the attempt but the node stays eligible.
AcceptFailure_NotExcluded(st, notice) ==
    [st EXCEPT !.attempts = CloseLastAttempt(st, notice.failed_node_id, "FAILED")]

\* Mutant: a failed attempt is withdrawn instead of recorded.
AcceptFailure_Withdrawn(st, notice) ==
    [st EXCEPT !.attempts = SubSeq(@, 1, Len(@) - 1)]

AcceptFailure(st, notice) ==
    [st EXCEPT
        !.excluded_nodes = @ \cup {notice.failed_node_id},
        !.attempts = CloseLastAttempt(st, notice.failed_node_id, "FAILED")]

\* Mutant: ensure_active and the status check are lost.
AcceptResultThrows_AnyStatus(st, result) ==
    \/ result.request_id # st.request_id
    \/ result.signature = NoSignature

AcceptResultThrows(st, result) ==
    \/ st.completed
    \/ result.request_id # st.request_id
    \/ result.signature = NoSignature
    \/ result.status # "OK"

\* Mutant: success wipes the evidence of the failures before it.
AcceptResult_ForgetsFailures(st, result) ==
    [st EXCEPT
        !.attempts = CloseLastAttempt(st, result.responder_node_id, "OK"),
        !.excluded_nodes = {},
        !.result = result,
        !.completed = TRUE]

AcceptResult(st, result) ==
    [st EXCEPT
        !.attempts = CloseLastAttempt(st, result.responder_node_id, "OK"),
        !.result = result,
        !.completed = TRUE]
-------------------------------------------------------------------------------
\* The engine's loop condition (resilient_execution.hpp) and where its call goes
\* after an iteration: back to the route provider or to the return statement.
LoopContinues(st) == ~st.completed /\ ~Exhausted(st)
AfterIteration(st) == IF LoopContinues(st) THEN "routing" ELSE "done"
===============================================================================
