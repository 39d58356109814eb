------------------------------ MODULE MCConflict ------------------------------
(***************************************************************************)
(* Two replicas and two sets of deltas.  The first mixes concurrent ones   *)
(* that differ in each component of the ordering key, two that skip        *)
(* versions, two that do not advance, and one outside its scope; replicas  *)
(* can settle at version 3 or 4, with and without deltas that skip or do   *)
(* not advance.  The other is the smallest with which replicas end up      *)
(* apart.                                                                  *)
(***************************************************************************)
EXTENDS Conflict

CONSTANTS r1, r2

MCReplicas == {r1, r2}

Delta(base, new, clock, org, sender, msg, ok) ==
    [base_version |-> base, new_version |-> new, logical_clock |-> clock,
     organization_id |-> org, sender_id |-> sender, message_id |-> msg, scope_allowed |-> ok]

MCInitial == Delta(0, 1, 1, 1, 1, 0, TRUE)

MCMixed ==
    {Delta(1, 2, 3, 1, 1, 1, TRUE), Delta(1, 2, 2, 2, 1, 2, TRUE), Delta(0, 1, 1, 1, 2, 3, TRUE),
     Delta(2, 3, 2, 1, 2, 4, TRUE), Delta(2, 3, 2, 2, 1, 5, TRUE), Delta(2, 3, 2, 2, 1, 6, TRUE),
     Delta(1, 3, 1, 1, 1, 7, TRUE), Delta(2, 2, 4, 1, 1, 8, TRUE), Delta(2, 1, 5, 1, 1, 9, TRUE),
     Delta(3, 4, 4, 1, 1, 10, FALSE), Delta(1, 4, 1, 1, 1, 11, TRUE)}

\* The deltas of tests/convergence/test_conflict_resolver.py:27-28, from one base to
\* different versions.
MCSkip == {Delta(1, 2, 2, 1, 1, 1, TRUE), Delta(1, 3, 3, 1, 1, 2, TRUE)}
===============================================================================
