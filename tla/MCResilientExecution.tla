------------------------- MODULE MCResilientExecution -------------------------
(***************************************************************************)
(* ResilientExecution on four nodes and three attempts.  The executor may return any         *)
(* combination of a right and a wrong request, an attempted, another or an *)
(* empty node, a present and a missing signature, and success and error.   *)
(***************************************************************************)
EXTENDS ResilientExecution

CONSTANTS n1, n2, n3, n4, rid, other, sig

MCNodes == {n1, n2, n3, n4}
MCRequestIds == {rid}

MCJobResults ==
    [request_id : {rid, other}, responder_node_id : {n1, n3, EmptyId},
     status : {"OK", "ERROR"}, signature : {sig, NoSignature}]

MCFailureNotices ==
    [request_id : {rid, other}, failed_node_id : MCNodes \cup {EmptyId},
     signature : {sig, NoSignature}]
===============================================================================
