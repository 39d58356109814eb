------------------------------- MODULE Conflict -------------------------------
(***************************************************************************)
(* conflict.py: replicas of one trajectory that receive the same deltas,   *)
(* late, repeated and in any order, and apply resolve to each.             *)
(*                                                                         *)
(* A delta is its DeltaMeta.  The three identifiers of the ordering key    *)
(* are compared as bytes, so each is given by its rank in that order.  The *)
(* replay flag is the receiver's: a delta it has accepted before.  The     *)
(* delivery of deltas is the caller's business and is left free.           *)
(***************************************************************************)
EXTENDS Naturals

CONSTANTS
    Replicas,
    Deltas,         \* every delta that exists
    Initial         \* the accepted state all replicas start from

Meta ==
    [base_version : Nat, new_version : Nat, logical_clock : Nat,
     organization_id : Nat, sender_id : Nat, message_id : Nat, scope_allowed : BOOLEAN]

ASSUME DeltasAreMeta == Deltas \subseteq Meta /\ Initial \in Meta

\* Message identifiers are unique.
ASSUME MessageIdsUnique ==
    \A d, e \in Deltas \cup {Initial} : d.message_id = e.message_id => d = e

VARIABLES
    local,          \* per replica: the delta it has accepted last
    accepted        \* per replica: the deltas it has accepted so far

vars == <<local, accepted>>

\* Mutant: the logical clock decides before the version, and nothing after it.
KeyGreater_ClockOnly(d, e) == d.logical_clock > e.logical_clock

\* d.ordering_key() > e.ordering_key(): the tuples compared lexicographically.
KeyGreater(d, e) ==
    LET key(x) == <<x.new_version, x.logical_clock, x.organization_id, x.sender_id, x.message_id>>
    IN  \E i \in 1..5 :
            /\ key(d)[i] > key(e)[i]
            /\ \A k \in 1..5 : k < i => key(d)[k] = key(e)[k]

\* Mutant: a delta of the same generation always replaces the local one.
Concurrent_LastWriterWins(loc, inc) == "ACCEPT_INCOMING"

\* Two deltas that propose the same version: the ordering key decides.
Concurrent(loc, inc) == IF KeyGreater(inc, loc) THEN "ACCEPT_INCOMING" ELSE "KEEP_LOCAL"

\* Mutant: a delta on a version this replica has not seen is accepted.
Descends_Future(loc, inc) == inc.base_version >= loc.new_version

Descends(loc, inc) == inc.base_version = loc.new_version

Resolve(loc, inc, replay) ==
    CASE replay -> "REJECT_REPLAY"
      [] ~replay /\ ~inc.scope_allowed -> "REJECT_SCOPE"
      [] ~replay /\ inc.scope_allowed ->
            CASE Descends(loc, inc) -> "ACCEPT_INCOMING"
              [] ~Descends(loc, inc) /\ inc.base_version > loc.new_version -> "REJECT_UNRESOLVED"
              [] inc.base_version < loc.new_version ->
                    IF inc.new_version # loc.new_version THEN "REJECT_STALE" ELSE Concurrent(loc, inc)

\* What replica r makes of delta d now.
Resolution(r, d) == Resolve(local[r], d, d \in accepted[r])

Init ==
    /\ local = [r \in Replicas |-> Initial]
    /\ accepted = [r \in Replicas |-> {}]

\* A delta arrives and replaces the local state if the resolver says so; every
\* other resolution leaves the replica as it was.
Deliver(r, d) ==
    /\ Resolution(r, d) = "ACCEPT_INCOMING"
    /\ local' = [local EXCEPT ![r] = d]
    /\ accepted' = [accepted EXCEPT ![r] = @ \cup {d}]

Next == \E r \in Replicas, d \in Deltas : Deliver(r, d)

Spec == Init /\ [][Next]_vars
-------------------------------------------------------------------------------
\* A replica holds the initial state or a delta, and has accepted only deltas.
TypeOK ==
    /\ local \in [Replicas -> Deltas \cup {Initial}]
    /\ accepted \in [Replicas -> SUBSET Deltas]

\* A replica is settled when no delta, delivered again, would change it.
Settled(r) == \A d \in Deltas : Resolution(r, d) # "ACCEPT_INCOMING"

\* A delta that moves the version forward.  Neither wire.py nor conflict.py asks
\* for it: resolve accepts any delta whose base is the local version.
Advances(d) == d.new_version > d.base_version

OnlyAdvances(r) == \A d \in accepted[r] : Advances(d)

\* What was accepted is within its scope, and a replica that has accepted only
\* deltas that advance has a history without a gap: every version up to its own
\* lies in the step of a delta it accepted, however the deltas were reordered or
\* repeated, so no state was built on a base the replica never held.
HistoryUnbroken ==
    \A r \in Replicas :
        /\ \A d \in accepted[r] : d.scope_allowed
        /\ OnlyAdvances(r) =>
              \A v \in (Initial.new_version + 1)..local[r].new_version :
                  \E d \in accepted[r] : d.base_version < v /\ v <= d.new_version

\* A replica holds a delta it has accepted, or the initial state.  As long as it
\* has accepted only deltas that advance, that is the greatest of them in the
\* ordering that decides conflicts, whatever order they arrived in.
LocalIsGreatest ==
    \A r \in Replicas :
        /\ local[r] \in accepted[r] \cup {Initial}
        /\ OnlyAdvances(r) =>
              \A d \in accepted[r] \cup {Initial} : d = local[r] \/ KeyGreater(local[r], d)

\* Replica q went past the version replica r stands at, in one delta.
Skipped(q, r) ==
    \E d \in accepted[q] :
        d.base_version < local[r].new_version /\ local[r].new_version < d.new_version

\* Two replicas that no delta can change any more are in the same state, unless
\* one of them accepted a delta that does not advance, or a delta by which it
\* skipped the version at which the other one stands.  With no such delta this is
\* the convergence of spec/conflict-resolution.md:59.
ApartOnlyBySkip ==
    \A r, q \in Replicas :
        /\ Settled(r) /\ Settled(q)
        /\ OnlyAdvances(r) /\ OnlyAdvances(q)
        /\ ~Skipped(q, r) /\ ~Skipped(r, q)
        => local[r] = local[q]

\* spec/conflict-resolution.md:59, for any deltas: after all admissible inputs the
\* replicas have the same accepted state, whatever order the deltas arrived in.
Converged == \A r, q \in Replicas : Settled(r) /\ Settled(q) => local[r] = local[q]
===============================================================================
