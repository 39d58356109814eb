----------------------------- MODULE MCRouteMemory -----------------------------
(***************************************************************************)
(* Two agents with one condition: two callers share a's memory, one of     *)
(* them without a validator, and one uses b's.  The resolvers may answer   *)
(* r1, r2 or junk, which no validator takes.                               *)
(***************************************************************************)
EXTENDS RouteMemory

CONSTANTS a, b, a1, a2, b1, r1, r2, junk, cond

MCAgentOf == [c \in {a1, a2, b1} |-> IF c = b1 THEN b ELSE a]

MCOneEach == [c \in {a1, b1} |-> IF c = b1 THEN b ELSE a]

\* Every delta there can be, except that payload, digest and address fit each
\* other only where the route is junk.
MCMadeUp ==
    {d \in ReferenceDeltas :
        /\ d.digest = d.payload
        /\ d.trajectory_address = derive_address(d.payload.condition_key, d.payload.result)
        => d.payload.result = junk}
================================================================================
