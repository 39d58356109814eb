----------------------- MODULE MCAuthenticatedExecution -----------------------
(***************************************************************************)
(* AuthenticatedExecution with two callers that use the same request id,   *)
(* correct peers b and c, and a faulty peer d that may listen at b's       *)
(* address; the address on record for d is b's or missing.  In the smaller *)
(* instance d may also listen at its own.                                  *)
(***************************************************************************)
EXTENDS AuthenticatedExecution

CONSTANTS a1, a2, b, c, d, rid, text, junk

MCNodes == {b, c, d}
MCCorrect == {b, c}
MCOneCorrect == {b}
MCJobs == {a1, a2}
MCTwoNodes == {b, d}

MCJob ==
    [j \in MCJobs |->
        [request_id |-> rid, sender_node_id |-> j, payload |-> text,
         operation |-> IF j = a1 THEN "ECHO" ELSE "PING"]]

\* One sender, one identifier, two jobs.
MCReused == [j \in MCJobs |-> [MCJob[j] EXCEPT !.sender_node_id = a1]]

MCEndpoints == [n \in MCNodes |-> CASE n = b -> {b, d} [] n = c -> {c} [] n = d -> {b, Nothing}]
MCTwoEndpoints == [n \in MCTwoNodes |-> IF n = b THEN {b, d} ELSE {d, Nothing}]
MCKnownKeys == {b, c, d}

\* Answers one field away from a right one, signed by the faulty peer or not at all.
MCFaultyReplies(p, req) ==
    LET rid0 == req.request_id
        snd == req.sender_node_id
        tgt == req.target_node_id
        forged == {JobResult(rid0, tgt, snd, "OK", junk), JobResult(rid0, tgt, snd, "ERROR", junk),
                   JobResult(rid0, p, snd, "OK", junk),
                   FailureNotice(rid0, p, tgt, "busy"), FailureNotice(rid0, p, c, "busy"),
                   FailureNotice(rid0, EmptyId, tgt, "busy")}
    IN  {Sign(f, p) : f \in forged} \cup {JobResult(rid0, tgt, snd, "OK", junk)}
            \cup {[type |-> "PING", signature |-> NoSignature]}

MCFewReplies(p, req) ==
    {Sign(JobResult(req.request_id, req.target_node_id, req.sender_node_id, "OK", junk), p),
     Sign(FailureNotice(req.request_id, p, req.target_node_id, "busy"), p)}
===============================================================================
