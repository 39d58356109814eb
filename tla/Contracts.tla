------------------------------- MODULE Contracts -------------------------------
(***************************************************************************)
(* The messages of contracts.hpp and what signing and verifying them means *)
(* (job_auth.hpp, failure_notice.hpp, job.hpp).                            *)
(*                                                                         *)
(* A message is a record of the fields some decision reads.  A signature   *)
(* is the pair of the signing key and the signed content, which is every   *)
(* field of the message but the signature: canonical_*_json writes exactly *)
(* those, so a signature verifies when neither the key nor any field has   *)
(* changed.  A node's key is named by the node.                            *)
(***************************************************************************)
EXTENDS Naturals, Sequences

CONSTANTS
    EmptyId,        \* the empty node or request identifier
    Nothing         \* std::nullopt, and the null key pointer

\* An empty signature string.
NoSignature == <<>>

\* What canonical_*_json covers.
Unsigned(msg) == [msg EXCEPT !.signature = NoSignature]

Sign(msg, key) == [msg EXCEPT !.signature = [key |-> key, over |-> Unsigned(msg)]]

\* Mutant: whose key made the signature does not matter.
Verifies_AnyKey(msg, key) ==
    msg.signature # NoSignature /\ msg.signature.over = Unsigned(msg)

Verifies(msg, key) ==
    /\ key # Nothing
    /\ msg.signature # NoSignature
    /\ msg.signature = [key |-> key, over |-> Unsigned(msg)]

\* The request of an attempt: the caller's job with its target filled in.
JobRequest(job, target) ==
    [type           |-> "JOB_REQUEST",
     request_id     |-> job.request_id,
     sender_node_id |-> job.sender_node_id,
     target_node_id |-> target,
     operation      |-> job.operation,
     payload        |-> job.payload,
     signature      |-> NoSignature]

JobResult(rid, responder, recipient, status, payload) ==
    [type              |-> "JOB_RESULT",
     request_id        |-> rid,
     responder_node_id |-> responder,
     recipient_node_id |-> recipient,
     status            |-> status,
     payload           |-> payload,
     signature         |-> NoSignature]

FailureNotice(rid, reporter, failed, reason) ==
    [type              |-> "FAILURE_NOTICE",
     request_id        |-> rid,
     reporting_node_id |-> reporter,
     failed_node_id    |-> failed,
     reason            |-> reason,
     signature         |-> NoSignature]

\* validate_job_request and JobRequest.validate, but for the validity window,
\* which depends on when it is looked at.
WellFormedRequest(req) ==
    /\ EmptyId \notin {req.request_id, req.sender_node_id, req.target_node_id}
    /\ req.operation \in {"PING", "ECHO"}

\* The payload execute_reference_job answers a supported operation with.
ReferencePayload(req) == IF req.operation = "PING" THEN "PONG" ELSE req.payload
================================================================================
