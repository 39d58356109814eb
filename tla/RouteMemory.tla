------------------------------ MODULE RouteMemory ------------------------------
(***************************************************************************)
(* ResolutiveRouteMemory (rm_bridge.py): each agent's memory of which      *)
(* route answers which condition, filled by an external resolver on a miss *)
(* and by deltas other agents export (wire.py's ReferenceDelta).           *)
(*                                                                         *)
(* Calls on one memory overlap: the external resolver runs in the middle   *)
(* of resolve and may come back into the memory, and other threads call it *)
(* between any two dictionary operations.  A delta reaches any agent, at   *)
(* any time and as often as it likes; besides the exported ones, agents    *)
(* are handed the deltas of MadeUp, whose fields somebody else filled in.  *)
(*                                                                         *)
(* A condition stands for its condition_key.  derive_address and the       *)
(* digest are collision free: the address is the pair it hashes, and the   *)
(* digest is the payload it was made over.                                 *)
(***************************************************************************)
EXTENDS FiniteSets

CONSTANTS
    Agents, Callers,
    AgentOf,        \* Callers -> Agents: whose memory a caller uses
    Conditions, Results,
    Valid,          \* the results a validator accepts
    Validating,     \* the callers that pass a validator to resolve
    MadeUp,         \* deltas no agent exported: made up, or changed on their way
    Nothing         \* dict.get's None

Addresses == Conditions \X Results
derive_address(condition, result) == <<condition, result>>

\* What export_delta puts into the payload: the route without its scope.
Payload(condition, result) == [condition_key |-> condition, result |-> result]
Payloads == [condition_key : Conditions, result : Results]

RouteRecord(payload, scope) == [payload |-> payload, scope |-> scope]
RouteRecords == [payload : Payloads, scope : {"shared", "global"}]

\* A ReferenceDelta (wire.py); the digest is over the payload alone.
Delta(address, payload, digest, scope) ==
    [trajectory_address |-> address, payload |-> payload, digest |-> digest, scope |-> scope]
ReferenceDeltas ==
    [trajectory_address : Addresses, payload : Payloads, digest : Payloads,
     scope : {"private", "user", "shared", "global"}]

ASSUME CallersHaveMemories == AgentOf \in [Callers -> Agents]
ASSUME ValidAreResults == Valid \subseteq Results /\ Validating \subseteq Callers
ASSUME MadeUpAreDeltas == MadeUp \subseteq ReferenceDeltas
ASSUME NothingIsNone == Nothing \notin Conditions \cup Addresses \cup RouteRecords

VARIABLES
    by_condition,   \* per agent: condition -> address or Nothing
    by_address,     \* per agent: address -> RouteRecord or Nothing
    pc,             \* per caller: where its call is, or how its last one ended
    call,           \* per caller: the call's locals
    deltas,         \* the deltas exported so far
    learned         \* history: the routes a resolver gave and no validator refused

vars == <<by_condition, by_address, pc, call, deltas, learned>>

Locals(condition, address, record) ==
    [condition |-> condition, address |-> address, record |-> record]

NoLocals == Locals(Nothing, Nothing, Nothing)

Memory(c) == AgentOf[c]

Ready(c) == pc[c] \in {"idle", "hit"}

Goto(c, where, locals) ==
    /\ pc' = [pc EXCEPT ![c] = where]
    /\ call' = [call EXCEPT ![c] = locals]

Return(c) == Goto(c, "idle", NoLocals)

SetCondition(c, condition, address) ==
    by_condition' = [by_condition EXCEPT ![Memory(c)][condition] = address]

SetAddress(c, address, record) ==
    by_address' = [by_address EXCEPT ![Memory(c)][address] = record]
--------------------------------------------------------------------------------
Init ==
    /\ by_condition = [a \in Agents |-> [k \in Conditions |-> Nothing]]
    /\ by_address = [a \in Agents |-> [d \in Addresses |-> Nothing]]
    /\ pc = [c \in Callers |-> "idle"]
    /\ call = [c \in Callers |-> NoLocals]
    /\ deltas = {}
    /\ learned = {}

\* resolve up to the lookup: a hit is fetched next, a miss goes to the resolver,
\* or raises when the caller has none.
Lookup(c, k) ==
    /\ Ready(c)
    /\ LET address == by_condition[Memory(c)][k]
       IN  \/ address # Nothing /\ Goto(c, "fetching", Locals(k, address, Nothing))
           \/ address = Nothing /\ Goto(c, "resolving", Locals(k, Nothing, Nothing))
           \/ address = Nothing /\ Return(c)
    /\ UNCHANGED <<by_condition, by_address, deltas, learned>>

\* The hit's record; a KeyError when the address is not there.
Fetch(c) ==
    /\ pc[c] = "fetching"
    /\ LET record == by_address[Memory(c)][call[c].address]
       IN  IF record = Nothing
           THEN Return(c)
           ELSE Goto(c, "hit", [call[c] EXCEPT !.record = record])
    /\ UNCHANGED <<by_condition, by_address, deltas, learned>>

\* The external resolver raises, and resolve with it.
ResolverRaises(c) ==
    /\ pc[c] = "resolving"
    /\ Return(c)
    /\ UNCHANGED <<by_condition, by_address, deltas, learned>>

\* The external resolver returns, and the validator decides if there is one.
Resolved(c, r) ==
    /\ pc[c] = "resolving"
    /\ LET k == call[c].condition
       IN  IF r \in Valid \/ c \notin Validating
           THEN /\ Goto(c, "indexing", Locals(k, derive_address(k, r), RouteRecord(Payload(k, r), "shared")))
                /\ learned' = learned \cup {Payload(k, r)}
           ELSE Return(c) /\ UNCHANGED learned
    /\ UNCHANGED <<by_condition, by_address, deltas>>

\* resolve registers the condition first ...
IndexCondition(c) ==
    /\ pc[c] = "indexing"
    /\ SetCondition(c, call[c].condition, call[c].address)
    /\ Goto(c, "storing", call[c])
    /\ UNCHANGED <<by_address, deltas, learned>>

\* ... and the record after it.
StoreRecord(c) ==
    /\ pc[c] = "storing"
    /\ SetAddress(c, call[c].address, call[c].record)
    /\ Return(c)
    /\ UNCHANGED <<by_condition, deltas, learned>>

\* export_delta of a route the memory holds.
Export(c, address) ==
    /\ Ready(c)
    /\ LET record == by_address[Memory(c)][address]
       IN  /\ record # Nothing
           /\ deltas' = deltas \cup {Delta(address, record.payload, record.payload, record.scope)}
    /\ Return(c)
    /\ UNCHANGED <<by_condition, by_address, learned>>

\* Mutant: the address is taken as it comes.
Importable_AnyAddress(d) == d.digest = d.payload /\ d.scope \in {"shared", "global"}

\* import_delta's checks: integrity, scope, route identity.  It looks at no
\* signature, and export_delta writes the same one into every delta.
Importable(d) ==
    /\ d.digest = d.payload
    /\ d.scope \in {"shared", "global"}
    /\ d.trajectory_address = derive_address(d.payload.condition_key, d.payload.result)

\* Mutant: only the first route of a condition is stored.
ImportedRecord_FirstOnly(c, address, payload, scope) ==
    IF by_condition[Memory(c)][payload.condition_key] = Nothing
    THEN RouteRecord(payload, scope)
    ELSE by_address[Memory(c)][address]

\* The record import_delta stores under the address.
ImportedRecord(c, address, payload, scope) == RouteRecord(payload, scope)

\* import_delta raises, or stores the record first ...
Import(c, d) ==
    /\ Ready(c)
    /\ LET record == ImportedRecord(c, d.trajectory_address, d.payload, d.scope)
       IN  IF Importable(d)
           THEN /\ SetAddress(c, d.trajectory_address, record)
                /\ Goto(c, "adopting", Locals(d.payload.condition_key, d.trajectory_address, record))
           ELSE Return(c) /\ UNCHANGED by_address
    /\ UNCHANGED <<by_condition, deltas, learned>>

\* ... and registers the condition after it.
IndexImported(c) ==
    /\ pc[c] = "adopting"
    /\ SetCondition(c, call[c].condition, call[c].address)
    /\ Return(c)
    /\ UNCHANGED <<by_address, deltas, learned>>

Next ==
    \E c \in Callers :
        \/ \E k \in Conditions : Lookup(c, k)
        \/ Fetch(c)
        \/ ResolverRaises(c)
        \/ \E r \in Results : Resolved(c, r)
        \/ IndexCondition(c)
        \/ StoreRecord(c)
        \/ \E address \in Addresses : Export(c, address)
        \/ \E d \in deltas \cup MadeUp : Import(c, d)
        \/ IndexImported(c)

Spec == Init /\ [][Next]_vars
--------------------------------------------------------------------------------
\* The routes of the made-up deltas whose digest is over the very payload they
\* carry and whose address is the one derived from it.
Forged ==
    {d.payload : d \in {m \in MadeUp :
        /\ m.digest = m.payload
        /\ m.trajectory_address = derive_address(m.payload.condition_key, m.payload.result)}}

\* Every route a memory holds under an address, and every one it answers with, is
\* for that very condition, stands under the address derived from it, and was
\* given by some agent's resolver and refused by no validator of that call, or is
\* one for which somebody made up payload, digest and address together: neither
\* overlapping calls nor a delta changed in fewer fields put anything else there.
RoutesLearned ==
    /\ \A a \in Agents, d \in Addresses :
          LET record == by_address[a][d]
          IN  record # Nothing =>
                 /\ record.payload \in learned \cup Forged
                 /\ d = derive_address(record.payload.condition_key, record.payload.result)
                 /\ record.scope \in {"shared", "global"}
    /\ \A c \in Callers :
          pc[c] = "hit" => /\ call[c].record.payload \in learned \cup Forged
                           /\ call[c].record.payload.condition_key = call[c].condition

\* A condition's address leads to its record in every memory, except while the
\* resolve that registered the condition (rm_bridge.py:78) still has to store
\* the record: only then does a hit raise.
IndexLeadsToRecord ==
    \A a \in Agents, k \in Conditions :
        LET address == by_condition[a][k]
        IN  address # Nothing =>
                /\ address[1] = k
                /\ \/ by_address[a][address] # Nothing
                   \/ \E c \in Callers :
                         Memory(c) = a /\ pc[c] = "storing" /\ call[c].address = address

\* "all replicas must converge to the same accepted state": agents that hold the
\* same routes, with no call under way, answer a condition with the same one.
ReplicasConverge ==
    \A a, b \in Agents :
        /\ \A c \in Callers : Ready(c)
        /\ {d \in Addresses : by_address[a][d] # Nothing} = {d \in Addresses : by_address[b][d] # Nothing}
        => by_condition[a] = by_condition[b]
================================================================================
