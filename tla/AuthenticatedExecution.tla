------------------------ MODULE AuthenticatedExecution ------------------------
(***************************************************************************)
(* Resilient execution over authenticated TCP: ResilientExecutionEngine    *)
(* with the two callbacks the repository ships, the routing adapter        *)
(* ResolutiveRoutingProvider and AuthenticatedTcpAttemptExecutor, running  *)
(* several jobs at the same time against peers.                            *)
(*                                                                         *)
(* A correct peer is serve_one_job with the reference handler: it checks   *)
(* the target, the signature and the validity window, executes, and        *)
(* answers with a signed result; or it answers with a signed failure; or   *)
(* it goes away before or after executing.  It keeps no memory of what it  *)
(* served.  A faulty peer answers whatever it can sign itself or leave     *)
(* unsigned, or repeats what others sent, and hands a request it was given *)
(* on to a correct peer, over a connection of its own.                     *)
(*                                                                         *)
(* A connection lives for one attempt.  When the caller gives up on it     *)
(* (deadline, reset, a frame or an envelope that does not parse) a request *)
(* already delivered stays with the peer, which may still execute it; the  *)
(* answer then finds no reader.                                            *)
(***************************************************************************)
EXTENDS ExecutionState, FiniteSets

CONSTANTS
    Nodes,              \* node identifiers in the adapter's snapshot
    Correct,            \* the nodes that follow the protocol
    Jobs,               \* concurrent calls of execute
    Job,                \* Jobs -> [request_id, sender_node_id, operation, payload]
    Endpoints,          \* Nodes -> set of who may listen at the resolved
                        \* address; Nothing: the resolver has no endpoint
    KnownKeys,          \* nodes whose public key the resolver returns
    FaultyReplies(_, _),\* what a faulty peer may answer to a request
    Expiring,           \* the jobs whose validity window may close meanwhile
    MaxReplays          \* bound: how often faulty peers hand a request on

ASSUME CorrectAreNodes == Correct \subseteq Nodes /\ EmptyId \notin Nodes /\ Nothing \notin Nodes
ASSUME ExpiringAreJobs == Expiring \subseteq Jobs
ASSUME EndpointsAreNodes ==
    Endpoints \in [Nodes -> (SUBSET (Nodes \cup {Nothing})) \ {{}}]

\* No two jobs ask for the same thing under the same names (one sender may use a
\* request identifier again), and a sender is not one of the faulty peers.
ASSUME JobsAreDistinct ==
    /\ \A i, j \in Jobs : i # j => Job[i] # Job[j]
    /\ \A j \in Jobs :
          /\ Job[j] = [request_id |-> Job[j].request_id, sender_node_id |-> Job[j].sender_node_id,
                       operation |-> Job[j].operation, payload |-> Job[j].payload]
          /\ EmptyId \notin {Job[j].request_id, Job[j].sender_node_id}
          /\ Job[j].sender_node_id # Nothing
          /\ Job[j].sender_node_id \notin Nodes \ Correct

\* A faulty peer signs with no key but its own.
ASSUME NoForgery ==
    \A p \in Nodes \ Correct : \A j \in Jobs, t \in Nodes :
        \A m \in FaultyReplies(p, JobRequest(Job[j], t)) :
            m.signature = NoSignature \/ m.signature.key = p

VARIABLES
    pc,         \* per job: "idle", "routing", "dialing", "awaiting", "done",
                \* "threw" (the engine threw), "raised" (the executor threw)
    life,       \* per job: the orchestrator's ExecutionState
    target,     \* per job: the node of the current attempt
    reply,      \* per job: the frame in the open connection's receive buffer
    inbox,      \* requests delivered to a peer and not handled yet
    captured,   \* the deliveries that reached a faulty peer
    replays,    \* how many requests the faulty peers have handed on
    executed,   \* history: which peer executed which delivery
    sent,       \* history: every answer of a correct peer
    expired     \* jobs whose validity window has closed

callVars == <<pc, life, target, reply>>
peerVars == <<inbox, captured, replays, executed, sent>>
vars == <<callVars, peerVars, expired>>

AttemptNo(j) == Len(life[j].attempts)
PublicKey(node) == IF node \in KnownKeys THEN node ELSE Nothing
-------------------------------------------------------------------------------
Init ==
    /\ pc = [j \in Jobs |-> "idle"]
    /\ life = [j \in Jobs |-> NewExecution(EmptyId)]
    /\ target = [j \in Jobs |-> Nothing]
    /\ reply = [j \in Jobs |-> Nothing]
    /\ inbox = {}
    /\ captured = {}
    /\ replays = 0
    /\ executed = {}
    /\ sent = {}
    /\ expired = {}

Submit(j) ==
    /\ pc[j] = "idle"
    /\ life' = [life EXCEPT ![j] = NewExecution(Job[j].request_id)]
    /\ pc' = [pc EXCEPT ![j] = AfterIteration(life'[j])]
    /\ UNCHANGED <<target, reply, peerVars, expired>>

\* Mutant: the adapter hands the router its whole snapshot.
Eligible_All(j) == Nodes

\* The nodes the adapter offers the router: the snapshot without the excluded.
Eligible(j) == Nodes \ life[j].excluded_nodes

\* The router finds no node among the eligible ones; the loop breaks.
NoRoute(j) ==
    /\ pc[j] = "routing"
    /\ pc' = [pc EXCEPT ![j] = "done"]
    /\ UNCHANGED <<life, target, reply, peerVars, expired>>

\* The router selects an eligible node and the engine begins the attempt.
Route(j) ==
    /\ pc[j] = "routing"
    /\ \E node \in Eligible(j) :
          IF node \in life[j].excluded_nodes \/ BeginAttemptThrows(life[j], node)
          THEN /\ pc' = [pc EXCEPT ![j] = "threw"]
               /\ UNCHANGED <<life, target>>
          ELSE /\ life' = [life EXCEPT ![j] = BeginAttempt(@, node)]
               /\ target' = [target EXCEPT ![j] = node]
               /\ pc' = [pc EXCEPT ![j] = "dialing"]
    /\ UNCHANGED <<reply, peerVars, expired>>

\* What the executor says itself of a failed attempt, signed by the sender.
LocalFailure(j, reason) ==
    Sign(FailureNotice(Job[j].request_id, Job[j].sender_node_id, target[j], reason),
         Job[j].sender_node_id)

\* Mutant: a failure always leads back to the route provider.
Continued_IgnoresLimit(j) == IF life'[j].completed THEN "done" ELSE "routing"

\* Where the engine's loop stands after an iteration.
Continued(j) == AfterIteration(life'[j])

\* The engine's half of an iteration, from the executor's return: the evidence
\* is recorded, or the engine throws because the executor broke its contract.
\* The connection is closed either way.
Conclude(j, evidence) ==
    /\ \/ /\ evidence.type = "JOB_RESULT"
          /\ IF AcceptResultThrows(life[j], evidence)
             THEN pc' = [pc EXCEPT ![j] = "threw"] /\ UNCHANGED life
             ELSE /\ life' = [life EXCEPT ![j] = AcceptResult(@, evidence)]
                  /\ pc' = [pc EXCEPT ![j] = Continued(j)]
       \/ /\ evidence.type = "FAILURE_NOTICE"
          /\ IF evidence.failed_node_id # target[j] \/ AcceptFailureThrows(life[j], evidence)
             THEN pc' = [pc EXCEPT ![j] = "threw"] /\ UNCHANGED life
             ELSE /\ life' = [life EXCEPT ![j] = AcceptFailure(@, evidence)]
                  /\ pc' = [pc EXCEPT ![j] = Continued(j)]
    /\ reply' = [reply EXCEPT ![j] = Nothing]
    /\ UNCHANGED <<target, peerVars, expired>>

EndpointUnavailable(j) ==
    /\ pc[j] = "dialing"
    /\ Nothing \in Endpoints[target[j]]
    /\ Conclude(j, LocalFailure(j, "endpoint_unavailable"))

\* Mutant: the attempt carries the signature of the job's first target.
SignedRequest_Once(j) ==
    [Sign(JobRequest(Job[j], life[j].attempts[1].node_id), Job[j].sender_node_id)
        EXCEPT !.target_node_id = target[j]]

\* The request is signed afresh for each attempt, after its target is set.
SignedRequest(j) == Sign(JobRequest(Job[j], target[j]), Job[j].sender_node_id)

\* A request at a peer, over the caller's connection (replay 0) or over one that a
\* faulty peer opened.
Delivery(j, attempt, listener, request, replay) ==
    [job |-> j, attempt |-> attempt, listener |-> listener, request |-> request, replay |-> replay]

\* The connection opens and the whole request reaches whoever listens there.
SendRequest(j) ==
    /\ pc[j] = "dialing"
    /\ \E l \in Endpoints[target[j]] \ {Nothing} :
          LET m == Delivery(j, AttemptNo(j), l, SignedRequest(j), 0)
          IN  /\ inbox' = inbox \cup {m}
              /\ captured' = IF l \in Correct THEN captured ELSE captured \cup {m}
    /\ pc' = [pc EXCEPT ![j] = "awaiting"]
    /\ UNCHANGED <<life, target, reply, replays, executed, sent, expired>>

\* connect_ipv4_with_timeout throws (the address does not parse, the connection
\* is refused, the poll times out), or the request is not sent completely.
ConnectFails(j) ==
    /\ pc[j] = "dialing"
    /\ Endpoints[target[j]] # {Nothing}
    /\ Conclude(j, LocalFailure(j, "transport_unavailable"))

\* The answer does not come in time, the connection breaks, or what comes is not
\* a frame or an envelope that parses: the rest of what catch (...) covers.
ReceiveFails(j) ==
    /\ pc[j] = "awaiting"
    /\ Conclude(j, LocalFailure(j, "transport_unavailable"))

\* What the executor does outside its try block, and in its catch block, throws:
\* the endpoint resolver, signing the request, signing the local failure.  The
\* exception leaves execute; the connection, if any, is closed.
ExecutorThrows(j) ==
    /\ pc[j] \in {"dialing", "awaiting"}
    /\ pc' = [pc EXCEPT ![j] = "raised"]
    /\ reply' = [reply EXCEPT ![j] = Nothing]
    /\ UNCHANGED <<life, target, peerVars, expired>>

\* Mutant: a result addressed to somebody else is accepted.
ResultContract_AnyRecipient(j, r) ==
    /\ r.request_id = Job[j].request_id
    /\ r.responder_node_id = target[j]
    /\ r.status = "OK"

\* Mutant: a result of another node than the attempted one is accepted.
ResultContract_AnyResponder(j, r) ==
    /\ r.request_id = Job[j].request_id
    /\ r.recipient_node_id = Job[j].sender_node_id
    /\ r.status = "OK"

ResultContract(j, r) ==
    /\ r.request_id = Job[j].request_id
    /\ r.responder_node_id = target[j]
    /\ r.recipient_node_id = Job[j].sender_node_id
    /\ r.status = "OK"

\* Mutant: a notice about any node is passed on to the engine.
NoticeContract_AnyNode(j, f) ==
    /\ f.request_id = Job[j].request_id
    /\ f.reporting_node_id # EmptyId

NoticeContract(j, f) ==
    /\ f.request_id = Job[j].request_id
    /\ f.failed_node_id = target[j]
    /\ f.reporting_node_id # EmptyId

\* The evidence the executor makes of an answer: the answer itself when it keeps
\* the contract and its signature verifies, a local failure otherwise.
Judged(j, m) ==
    CASE m.type = "JOB_RESULT" /\ ~ResultContract(j, m) ->
            LocalFailure(j, "invalid_result_contract")
      [] m.type = "FAILURE_NOTICE" /\ ~NoticeContract(j, m) ->
            LocalFailure(j, "invalid_failure_contract")
      [] m.type = "JOB_RESULT" /\ ResultContract(j, m) ->
            IF Verifies(m, PublicKey(m.responder_node_id))
            THEN m ELSE LocalFailure(j, "invalid_result_signature")
      [] m.type = "FAILURE_NOTICE" /\ NoticeContract(j, m) ->
            IF Verifies(m, PublicKey(m.reporting_node_id))
            THEN m ELSE LocalFailure(j, "invalid_failure_signature")
      [] OTHER -> LocalFailure(j, "unsupported_response_type")

JudgeAnswer(j) ==
    /\ pc[j] = "awaiting"
    /\ reply[j] # Nothing
    /\ Conclude(j, Judged(j, reply[j]))
-------------------------------------------------------------------------------
\* A peer's answer reaches the caller if it was asked on the caller's connection
\* and that is still open; the caller closes it when the attempt ends.
Answer(m, a) ==
    reply' = IF m.replay = 0 /\ pc[m.job] = "awaiting" /\ AttemptNo(m.job) = m.attempt
             THEN [reply EXCEPT ![m.job] = a]
             ELSE reply

Handled(m) == inbox' = inbox \ {m}

\* Mutant: the handler takes a request for any node.
HandlerAccepts_AnyTarget(p, m) ==
    /\ WellFormedRequest(m.request)
    /\ m.job \notin expired
    /\ Verifies(m.request, m.request.sender_node_id)

\* The handler's checks: its own node is the target, and verify_job_request.
HandlerAccepts(p, m) ==
    /\ m.request.target_node_id = p
    /\ WellFormedRequest(m.request)
    /\ m.job \notin expired
    /\ Verifies(m.request, m.request.sender_node_id)

Execution(p, m) ==
    [node |-> p, request |-> m.request, attempt |-> m.attempt, replay |-> m.replay]

\* Mutant: the handler addresses the result to the target of the request.
HandlerResult_WrongRecipient(p, req) ==
    Sign(JobResult(req.request_id, p, req.target_node_id, "OK", ReferencePayload(req)), p)

HandlerResult(p, req) ==
    Sign(JobResult(req.request_id, p, req.sender_node_id, "OK", ReferencePayload(req)), p)

ServeJob(p, m) ==
    /\ HandlerAccepts(p, m)
    /\ Handled(m)
    /\ executed' = executed \cup {Execution(p, m)}
    /\ sent' = sent \cup {HandlerResult(p, m.request)}
    /\ Answer(m, HandlerResult(p, m.request))
    /\ UNCHANGED <<pc, life, target, captured, replays, expired>>

\* The peer dies, or its send fails, between executing and answering.
ServeThenDie(p, m) ==
    /\ HandlerAccepts(p, m)
    /\ Handled(m)
    /\ executed' = executed \cup {Execution(p, m)}
    /\ UNCHANGED <<callVars, captured, replays, sent, expired>>

\* The peer reports that it cannot execute.
ReportFailure(p, m) ==
    LET notice == Sign(FailureNotice(m.request.request_id, p, p, "remote_execution_unavailable"), p)
    IN  /\ Handled(m)
        /\ sent' = sent \cup {notice}
        /\ Answer(m, notice)
        /\ UNCHANGED <<pc, life, target, captured, replays, executed, expired>>

\* The handler raises on a bad request, or the peer is gone: no answer.
DropRequest(p, m) ==
    /\ Handled(m)
    /\ UNCHANGED <<callVars, captured, replays, executed, sent, expired>>

\* A faulty peer answers with what it can make, or with what was said before.
FaultyAnswer(p, m) ==
    /\ Handled(m)
    /\ \E a \in FaultyReplies(p, Unsigned(m.request)) \cup sent : Answer(m, a)
    /\ UNCHANGED <<pc, life, target, captured, replays, executed, sent, expired>>

\* A faulty peer hands a request it was given, as it was signed, on to a correct
\* peer.  The answer comes back to the faulty peer, which may pass it on.
Replay(m, p) ==
    /\ replays < MaxReplays
    /\ replays' = replays + 1
    /\ inbox' = inbox \cup {Delivery(m.job, m.attempt, p, m.request, replays + 1)}
    /\ UNCHANGED <<callVars, captured, executed, sent, expired>>

\* The clock passes the job's expires_at.
Expire(j) ==
    /\ j \notin expired
    /\ expired' = expired \cup {j}
    /\ UNCHANGED <<callVars, peerVars>>

CallStep(j) ==
    \/ Submit(j)
    \/ NoRoute(j)
    \/ Route(j)
    \/ EndpointUnavailable(j)
    \/ SendRequest(j)
    \/ ConnectFails(j)
    \/ ReceiveFails(j)
    \/ ExecutorThrows(j)
    \/ JudgeAnswer(j)

CorrectPeerStep(p, m) ==
    \/ ServeJob(p, m)
    \/ ServeThenDie(p, m)
    \/ ReportFailure(p, m)
    \/ DropRequest(p, m)

Next ==
    \/ \E j \in Jobs : CallStep(j)
    \/ \E m \in inbox : m.listener \in Correct /\ CorrectPeerStep(m.listener, m)
    \/ \E m \in inbox : m.listener \notin Correct /\ FaultyAnswer(m.listener, m)
    \/ \E m \in captured, p \in Correct : Replay(m, p)
    \/ \E j \in Expiring : Expire(j)

Spec == Init /\ [][Next]_vars

\* The caller's thread runs, and its connect, send and receive calls have
\* deadlines, so an attempt ends with or without the peer: nothing is assumed
\* of the peers or of the clock.
FairSpec == Spec /\ \A j \in Jobs : WF_vars(CallStep(j))
-------------------------------------------------------------------------------
RequestOf(j, p) == Sign(JobRequest(Job[j], p), Job[j].sender_node_id)

\* The adapter and the TCP executor never make the engine throw: no answer, real,
\* forged, late or repeated, gets past the executor's checks and then fails one
\* of the engine's, so a call ends with an outcome for its caller unless the
\* executor itself could not do its work.
EngineNeverThrows == \A j \in Jobs : pc[j] # "threw"

\* A job completed by a correct node was executed by that node, and the caller
\* holds the payload that execution produced, whatever faulty peers replay from
\* other jobs or other senders: what was executed is a request of this sender
\* with this identifier.  Where one sender uses an identifier twice it may be the
\* other request; the contract the executor checks does not tell them apart.
ResultGenuine ==
    \A j \in Jobs :
        LET r == life[j].result
        IN  life[j].completed /\ r.responder_node_id \in Correct =>
                \E e \in executed :
                    /\ e.node = r.responder_node_id
                    /\ e.request.request_id = Job[j].request_id
                    /\ e.request.sender_node_id = Job[j].sender_node_id
                    /\ r.payload = ReferencePayload(e.request)

\* A completed call ends with its last attempt OK on the node that answered; the
\* engine alone would complete on another node's result and leave it IN_FLIGHT.
CompletedOnAttemptedNode ==
    \A j \in Jobs :
        life[j].completed =>
            life[j].attempts[AttemptNo(j)] =
                [node_id |-> life[j].result.responder_node_id, outcome |-> "OK"]

\* Failover never leaves an earlier attempt's signature on a request: whatever a
\* peer has been handed names the node of its attempt and verifies as such, and
\* what a correct peer has executed some job signed for that very peer.
RequestsSignedForTarget ==
    /\ \A m \in inbox :
          /\ m.request.target_node_id = life[m.job].attempts[m.attempt].node_id
          /\ Verifies(m.request, Job[m.job].sender_node_id)
    /\ \A e \in executed :
          e.node \in Correct /\ \E j \in Jobs : e.request = RequestOf(j, e.node)

\* How far one job's execution can be repeated.  serve_one_job remembers nothing
\* of what it served (SECURITY_REVIEW_v0.2.md:122-124), so a faulty peer that was
\* handed a request can have it executed again, but only by the very node it was
\* signed for, and only if that faulty peer can listen at that node's address.
\* Over the callers' own connections, however late a peer is after a timeout, no
\* node executes one job for two attempts.  Every node that executed it, but the
\* one being tried now, has been excluded.
RepeatsConfined ==
    /\ \A d, e \in executed :
          d.node = e.node /\ d.request = e.request /\ d.replay = 0 /\ e.replay = 0 => d = e
    /\ \A e \in executed : e.replay # 0 => Endpoints[e.node] \ (Correct \cup {Nothing}) # {}
    /\ \A j \in Jobs : \A e \in executed :
          e.request = RequestOf(j, e.node) =>
              e.node \in life[j].excluded_nodes \cup {target[j]}

\* A correct node that is alone at its address is blamed for nothing it sent: any
\* answer of it in the receive buffer, result or failure notice, is the evidence
\* the executor returns, whatever late answers of other attempts, other jobs and
\* faulty peers are about.  (The answer may still not be read: ReceiveFails.)
HonestPeerNotMisjudged ==
    \A j \in Jobs :
        /\ pc[j] = "awaiting" /\ reply[j] # Nothing
        /\ target[j] \in Correct \cap KnownKeys
        /\ Endpoints[target[j]] \subseteq {target[j], Nothing}
        => Judged(j, reply[j]) = reply[j]

\* Every call returns or passes on what its executor threw, with every peer silent
\* if need be.
CallsReturn == \A j \in Jobs : <>(pc[j] \in {"done", "raised"})
-------------------------------------------------------------------------------
\* All the evidence the executor can hand to the engine.
Requests == {JobRequest(Job[j], t) : j \in Jobs, t \in Nodes}
FaultyMessages == UNION {FaultyReplies(p, req) : p \in Nodes \ Correct, req \in Requests}
LocalReasons ==
    {"endpoint_unavailable", "transport_unavailable", "unsupported_response_type",
     "invalid_result_contract", "invalid_result_signature",
     "invalid_failure_contract", "invalid_failure_signature"}

EvidenceResults ==
    {HandlerResult(req.target_node_id, req) : req \in Requests}
        \cup {m \in FaultyMessages : m.type = "JOB_RESULT"}

EvidenceNotices ==
    {Sign(FailureNotice(Job[j].request_id, Job[j].sender_node_id, t, reason), Job[j].sender_node_id) :
        j \in Jobs, t \in Nodes, reason \in LocalReasons}
    \cup {Sign(FailureNotice(Job[j].request_id, p, p, "remote_execution_unavailable"), p) :
        j \in Jobs, p \in Correct}
    \cup {m \in FaultyMessages : m.type = "FAILURE_NOTICE"}

Engine(j) == INSTANCE ResilientExecution WITH
    pc <- CASE pc[j] \in {"dialing", "awaiting"} -> "executing"
            [] pc[j] = "raised" -> "threw"
            [] OTHER -> pc[j],
    life <- life[j],
    target <- target[j],
    RequestIds <- {Job[i].request_id : i \in Jobs},
    JobResults <- EvidenceResults,
    FailureNotices <- EvidenceNotices

\* Each of the concurrent calls is a run of ResilientExecution: what is proved
\* there of the engine with arbitrary callbacks holds of every call here, with
\* any interleaving of callers, peers, crashes and late answers.  (This is
\* \A j \in Jobs : Engine(j)!Spec with the quantifier moved inside the box.)
CallsImplementEngine ==
    /\ \A j \in Jobs : Engine(j)!Init
    /\ [][\A j \in Jobs : [Engine(j)!Next]_(Engine(j)!vars)]_vars
===============================================================================
