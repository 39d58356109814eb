------------------------------- MODULE Failover -------------------------------
(***************************************************************************)
(* What resilient execution promises, without its lifecycle record: nodes  *)
(* are tried one at a time, a failed node is never tried again, at most    *)
(* MaxAttempts nodes fail, and the call ends as soon as a node succeeds,   *)
(* the limit is reached, nobody is left to try, or a callback breaks its   *)
(* contract.  ResilientExecution implements it.                            *)
(***************************************************************************)
EXTENDS Naturals, FiniteSets

CONSTANTS
    Nodes,
    MaxAttempts,
    Nothing         \* no node is being tried

VARIABLES
    failed,         \* the nodes that failed this request
    trying,         \* the node now being tried, or Nothing
    status          \* "running", "completed", "gave_up", "aborted"

fvars == <<failed, trying, status>>

Init ==
    /\ failed = {}
    /\ trying = Nothing
    /\ status = "running"

Try(n) ==
    /\ status = "running" /\ trying = Nothing
    /\ n \notin failed
    /\ Cardinality(failed) < MaxAttempts
    /\ trying' = n
    /\ UNCHANGED <<failed, status>>

\* The failure of the last permitted node ends the call.
Fail ==
    /\ trying # Nothing
    /\ failed' = failed \cup {trying}
    /\ trying' = Nothing
    /\ status' = IF Cardinality(failed') = MaxAttempts THEN "gave_up" ELSE "running"

Succeed ==
    /\ trying # Nothing
    /\ trying' = Nothing
    /\ status' = "completed"
    /\ UNCHANGED failed

NobodyLeft ==
    /\ status = "running" /\ trying = Nothing
    /\ status' = "gave_up"
    /\ UNCHANGED <<failed, trying>>

Abort ==
    /\ status = "running"
    /\ trying' = Nothing
    /\ status' = "aborted"
    /\ UNCHANGED failed

Next ==
    \/ \E n \in Nodes : Try(n)
    \/ Fail
    \/ Succeed
    \/ NobodyLeft
    \/ Abort

Spec == Init /\ [][Next]_fvars
===============================================================================
