--------------------------- MODULE RouteMemory_proofs ---------------------------
(***************************************************************************)
(* What a route memory holds and answers with, proved for any number of    *)
(* agents, callers, conditions and results.                                *)
(*                                                                         *)
(* RoutesLearned and IndexLeadsToRecord are not inductive alone: a call    *)
(* carries a route or an address from one dictionary operation to the next *)
(* while other calls change both dictionaries, and a delta carries a route *)
(* from one memory to another.  CallSound and DeltasSound say what they    *)
(* carry.                                                                  *)
(***************************************************************************)
EXTENDS RouteMemory, TLAPS

Types ==
    /\ by_condition \in [Agents -> [Conditions -> Addresses \cup {Nothing}]]
    /\ by_address \in [Agents -> [Addresses -> RouteRecords \cup {Nothing}]]
    /\ pc \in [Callers -> {"idle", "hit", "fetching", "resolving", "indexing", "storing", "adopting"}]
    /\ call \in [Callers -> [condition : Conditions \cup {Nothing},
                             address : Addresses \cup {Nothing},
                             record : RouteRecords \cup {Nothing}]]
    /\ deltas \subseteq ReferenceDeltas
    /\ learned \subseteq Payloads

\* The routes the memories may hold.
Known == learned \cup Forged

USE DEF Known

MemorySound ==
    \A a \in Agents, d \in Addresses :
        LET record == by_address[a][d]
        IN  record # Nothing =>
               /\ record.payload \in Known
               /\ d = derive_address(record.payload.condition_key, record.payload.result)

\* What a call under way carries.
CallSound(c) ==
    /\ pc[c] = "resolving" => call[c].condition \in Conditions
    /\ pc[c] = "fetching" => call[c].address \in Addresses /\ call[c].address[1] = call[c].condition
    /\ pc[c] = "hit" =>
          /\ call[c].record.payload \in Known
          /\ call[c].record.payload.condition_key = call[c].condition
    /\ pc[c] \in {"indexing", "storing", "adopting"} =>
          /\ call[c].record \in RouteRecords
          /\ call[c].record.payload \in Known
          /\ call[c].condition = call[c].record.payload.condition_key
          /\ call[c].address = derive_address(call[c].condition, call[c].record.payload.result)
    /\ pc[c] = "adopting" => by_address[Memory(c)][call[c].address] # Nothing

\* The digest of an exported delta is over a route that was learned, or forged.
DeltasSound == \A d \in deltas : d.digest \in Known

RouteInv ==
    /\ Types
    /\ MemorySound
    /\ \A c \in Callers : CallSound(c)
    /\ DeltasSound
    /\ IndexLeadsToRecord
--------------------------------------------------------------------------------
\* What a step of caller c leaves alone.
Others(c) ==
    \A u \in Callers : u # c => pc'[u] = pc[u] /\ call'[u] = call[u]

\* Dictionaries and history only gain entries.
Grows ==
    /\ learned \subseteq learned'
    /\ \A a \in Agents, d \in Addresses : by_address[a][d] # Nothing => by_address'[a][d] # Nothing

\* The calls of the other callers stay sound.
LEMMA OthersStaySound ==
    ASSUME RouteInv, NEW c \in Callers, Others(c), Grows
    PROVE  \A u \in Callers : u # c => CallSound(u)'
<1> SUFFICES ASSUME NEW u \in Callers, u # c PROVE CallSound(u)' OBVIOUS
<1>1. CallSound(u) /\ Types BY DEF RouteInv
<1>2. pc'[u] = pc[u] /\ call'[u] = call[u] BY DEF Others
<1>3. AgentOf[u] \in Agents BY CallersHaveMemories
<1>4. pc[u] = "adopting" => by_address'[AgentOf[u]][call[u].address] # Nothing
    <2> SUFFICES ASSUME pc[u] = "adopting" PROVE by_address'[AgentOf[u]][call[u].address] # Nothing
        OBVIOUS
    <2>1. call[u].address \in Addresses
        BY <1>1 DEF CallSound, Addresses, derive_address, RouteRecords, Payloads
    <2>2. by_address[AgentOf[u]][call[u].address] # Nothing BY <1>1 DEF CallSound, Memory
    <2> QED BY <1>3, <2>1, <2>2 DEF Grows
<1> QED BY <1>1, <1>2, <1>4 DEF CallSound, Grows, Memory

\* A step that leaves the conditions alone, by a caller that is not storing,
\* leaves every condition leading to its record.
LEMMA IndexKept ==
    ASSUME RouteInv, NEW c \in Callers, Others(c), Grows, pc[c] # "storing",
           by_condition' = by_condition
    PROVE  IndexLeadsToRecord'
<1> SUFFICES ASSUME NEW a \in Agents, NEW k \in Conditions, by_condition[a][k] # Nothing
             PROVE  /\ by_condition[a][k][1] = k
                    /\ \/ by_address'[a][by_condition[a][k]] # Nothing
                       \/ \E u \in Callers :
                             /\ Memory(u) = a /\ pc'[u] = "storing"
                             /\ call'[u].address = by_condition[a][k]
    BY DEF IndexLeadsToRecord, Memory
<1> DEFINE address == by_condition[a][k]
<1>1. address \in Addresses BY DEF RouteInv, Types
<1>2. /\ address[1] = k
      /\ \/ by_address[a][address] # Nothing
         \/ \E u \in Callers : Memory(u) = a /\ pc[u] = "storing" /\ call[u].address = address
    BY DEF RouteInv, IndexLeadsToRecord
<1>3. CASE by_address[a][address] # Nothing BY <1>1, <1>2, <1>3 DEF Grows
<1>4. CASE \E u \in Callers : Memory(u) = a /\ pc[u] = "storing" /\ call[u].address = address
    BY <1>2, <1>4 DEF Others
<1> QED BY <1>2, <1>3, <1>4
--------------------------------------------------------------------------------
LEMMA InitRouteInv == Init => RouteInv
<1> SUFFICES ASSUME Init PROVE RouteInv OBVIOUS
<1>1. Types BY DEF Init, Types, NoLocals, Locals
<1>2. MemorySound BY DEF Init, MemorySound
<1>3. \A c \in Callers : CallSound(c) BY DEF Init, CallSound
<1>4. DeltasSound BY DEF Init, DeltasSound
<1>5. IndexLeadsToRecord BY DEF Init, IndexLeadsToRecord
<1> QED BY <1>1, <1>2, <1>3, <1>4, <1>5 DEF RouteInv

\* A step that only moves caller c's own call: the dictionaries, the deltas and
\* the history stay, and c was not storing.
LEMMA LocalStep ==
    ASSUME RouteInv, NEW c \in Callers, NEW where, NEW locals, Goto(c, where, locals),
           UNCHANGED <<by_condition, by_address, deltas, learned>>,
           pc[c] # "storing",
           where \in {"idle", "hit", "fetching", "resolving"},
           locals \in [condition : Conditions \cup {Nothing}, address : Addresses \cup {Nothing},
                       record : RouteRecords \cup {Nothing}],
           where = "resolving" => locals.condition \in Conditions,
           where = "fetching" => locals.address \in Addresses /\ locals.address[1] = locals.condition,
           where = "hit" => /\ locals.record.payload \in Known
                            /\ locals.record.payload.condition_key = locals.condition
    PROVE  RouteInv'
<1>1. Types BY DEF RouteInv
<1>2. pc'[c] = where /\ call'[c] = locals /\ Others(c) BY <1>1 DEF Goto, Types, Others
<1>3. Grows BY DEF Grows
<1>4. Types' BY <1>1 DEF Types, Goto
<1>5. MemorySound' BY DEF RouteInv, MemorySound
<1>6. \A u \in Callers : CallSound(u)'
    <2>1. CallSound(c)' BY <1>2 DEF CallSound
    <2> QED BY <1>2, <1>3, <2>1, OthersStaySound
<1>7. DeltasSound' BY DEF RouteInv, DeltasSound
<1>8. IndexLeadsToRecord' BY <1>2, <1>3, IndexKept
<1> QED BY <1>4, <1>5, <1>6, <1>7, <1>8 DEF RouteInv

LEMMA LookupStep ==
    ASSUME RouteInv, NEW c \in Callers, NEW k \in Conditions, Lookup(c, k)
    PROVE  RouteInv'
<1>1. pc[c] # "storing" /\ UNCHANGED <<by_condition, by_address, deltas, learned>>
    BY DEF Lookup, Ready
<1> DEFINE address == by_condition[AgentOf[c]][k]
<1>2. AgentOf[c] \in Agents BY CallersHaveMemories
<1>3. address \in Addresses \cup {Nothing} /\ (address # Nothing => address[1] = k)
    BY <1>2 DEF RouteInv, Types, IndexLeadsToRecord
<1>4. CASE address # Nothing /\ Goto(c, "fetching", Locals(k, address, Nothing))
    BY <1>1, <1>3, <1>4, LocalStep DEF Locals
<1>5. CASE Goto(c, "resolving", Locals(k, Nothing, Nothing))
    BY <1>1, <1>5, LocalStep DEF Locals
<1>6. CASE Goto(c, "idle", NoLocals)
    BY <1>1, <1>6, LocalStep DEF Locals, NoLocals
<1> QED BY <1>4, <1>5, <1>6 DEF Lookup, Memory, Return

LEMMA FetchStep ==
    ASSUME RouteInv, NEW c \in Callers, Fetch(c)
    PROVE  RouteInv'
<1> DEFINE record == by_address[AgentOf[c]][call[c].address]
<1>1. pc[c] = "fetching" /\ UNCHANGED <<by_condition, by_address, deltas, learned>> BY DEF Fetch
<1>2. AgentOf[c] \in Agents BY CallersHaveMemories
<1>3. call[c].address \in Addresses /\ call[c].address[1] = call[c].condition
    BY <1>1 DEF RouteInv, CallSound
<1>4. CASE record = Nothing
    <2>1. Goto(c, "idle", NoLocals) BY <1>4 DEF Fetch, Memory, Return
    <2> QED BY <1>1, <2>1, LocalStep DEF Locals, NoLocals
<1>5. CASE record # Nothing
    <2> DEFINE locals == [call[c] EXCEPT !.record = record]
    <2>1. Goto(c, "hit", locals) BY <1>5 DEF Fetch, Memory
    <2>2. record \in RouteRecords BY <1>2, <1>3, <1>5 DEF RouteInv, Types
    <2>3. record.payload \in Known /\ record.payload.condition_key = call[c].condition
        <3>1. /\ record.payload \in Known
              /\ call[c].address = derive_address(record.payload.condition_key, record.payload.result)
            BY <1>2, <1>3, <1>5 DEF RouteInv, MemorySound
        <3> QED BY <1>3, <3>1 DEF derive_address
    <2>4. /\ locals \in [condition : Conditions \cup {Nothing}, address : Addresses \cup {Nothing},
                         record : RouteRecords \cup {Nothing}]
          /\ locals.record = record /\ locals.condition = call[c].condition
        BY <2>2 DEF RouteInv, Types
    <2> QED BY <1>1, <2>1, <2>3, <2>4, LocalStep
<1> QED BY <1>4, <1>5

LEMMA ResolverRaisesStep ==
    ASSUME RouteInv, NEW c \in Callers, ResolverRaises(c)
    PROVE  RouteInv'
BY LocalStep DEF ResolverRaises, Return, Locals, NoLocals

\* A resolve that got its route, or a call that has none.
LEMMA ResolvedStep ==
    ASSUME RouteInv, NEW c \in Callers, NEW r \in Results, Resolved(c, r)
    PROVE  RouteInv'
<1> DEFINE k == call[c].condition
           record == RouteRecord(Payload(k, r), "shared")
<1>1. pc[c] = "resolving" /\ UNCHANGED <<by_condition, by_address, deltas>> BY DEF Resolved
<1>2. k \in Conditions BY <1>1 DEF RouteInv, CallSound
<1>3. CASE ~(r \in Valid \/ c \notin Validating)
    <2>1. Goto(c, "idle", NoLocals) /\ UNCHANGED learned BY <1>3 DEF Resolved, Return
    <2> QED BY <1>1, <2>1, LocalStep DEF Locals, NoLocals
<1>4. CASE r \in Valid \/ c \notin Validating
    <2>1. /\ Goto(c, "indexing", Locals(k, derive_address(k, r), record))
          /\ learned' = learned \cup {Payload(k, r)}
        BY <1>4 DEF Resolved
    <2>2. Payload(k, r) \in Payloads BY <1>2 DEF Payload, Payloads
    <2>3. record \in RouteRecords BY <2>2 DEF RouteRecord, RouteRecords
    <2>4. derive_address(k, r) \in Addresses BY <1>2 DEF derive_address, Addresses
    <2>5. Types BY DEF RouteInv
    <2>6. /\ pc'[c] = "indexing" /\ Others(c)
          /\ call'[c] = [condition |-> k, address |-> derive_address(k, r), record |-> record]
        BY <2>1, <2>5 DEF Goto, Types, Others, Locals
    <2>7. Grows BY <1>1, <2>1 DEF Grows
    <2>8. Types'
        <3>1. learned' \subseteq Payloads BY <2>1, <2>2, <2>5 DEF Types
        <3>2. pc' \in [Callers -> {"idle", "hit", "fetching", "resolving", "indexing", "storing", "adopting"}]
            BY <2>1, <2>5 DEF Types, Goto
        <3>3. Locals(k, derive_address(k, r), record)
                \in [condition : Conditions \cup {Nothing}, address : Addresses \cup {Nothing},
                     record : RouteRecords \cup {Nothing}]
            BY <1>2, <2>3, <2>4 DEF Locals
        <3>4. call' \in [Callers -> [condition : Conditions \cup {Nothing},
                                     address : Addresses \cup {Nothing},
                                     record : RouteRecords \cup {Nothing}]]
            BY <2>1, <2>5, <3>3 DEF Types, Goto
        <3> QED BY <1>1, <2>5, <3>1, <3>2, <3>4 DEF Types
    <2>9. MemorySound' BY <1>1, <2>1 DEF RouteInv, MemorySound
    <2>10. CallSound(c)'
        <3>1. record.payload = Payload(k, r) BY DEF RouteRecord
        <3>2. record.payload.condition_key = k /\ record.payload.result = r BY <3>1 DEF Payload
        <3>3. record.payload \in Known' BY <2>1, <3>1
        <3> HIDE DEF k, record
        <3> QED BY <2>3, <2>6, <3>2, <3>3 DEF CallSound
    <2>11. \A u \in Callers : CallSound(u)' BY <2>6, <2>7, <2>10, OthersStaySound
    <2>12. DeltasSound' BY <1>1, <2>1 DEF RouteInv, DeltasSound
    <2>13. IndexLeadsToRecord' BY <1>1, <2>6, <2>7, IndexKept
    <2> QED BY <2>8, <2>9, <2>11, <2>12, <2>13 DEF RouteInv
<1> QED BY <1>3, <1>4

\* Registering a condition keeps every condition leading to its record, if the
\* new address does: its record is there, or the caller stores it next.
LEMMA IndexedKept ==
    ASSUME RouteInv, NEW c \in Callers, Others(c), NEW k \in Conditions, NEW address \in Addresses,
           SetCondition(c, k, address), address[1] = k, pc[c] # "storing",
           by_address' = by_address,
           \/ by_address[AgentOf[c]][address] # Nothing
           \/ pc'[c] = "storing" /\ call'[c].address = address
    PROVE  IndexLeadsToRecord'
<1>1. Types BY DEF RouteInv
<1>2. AgentOf[c] \in Agents BY CallersHaveMemories
<1> SUFFICES ASSUME NEW a \in Agents, NEW j \in Conditions, by_condition'[a][j] # Nothing
             PROVE  /\ by_condition'[a][j][1] = j
                    /\ \/ by_address[a][by_condition'[a][j]] # Nothing
                       \/ \E u \in Callers :
                             /\ Memory(u) = a /\ pc'[u] = "storing"
                             /\ call'[u].address = by_condition'[a][j]
    BY DEF IndexLeadsToRecord, Memory
<1>3. CASE a = AgentOf[c] /\ j = k
    <2>1. by_condition'[a][j] = address BY <1>1, <1>2, <1>3 DEF SetCondition, Types, Memory
    <2> QED BY <1>3, <2>1 DEF Memory
<1>4. CASE ~(a = AgentOf[c] /\ j = k)
    <2>1. by_condition'[a][j] = by_condition[a][j]
        BY <1>1, <1>2, <1>4 DEF SetCondition, Types, Memory
    <2>2. /\ by_condition[a][j][1] = j
          /\ \/ by_address[a][by_condition[a][j]] # Nothing
             \/ \E u \in Callers : /\ Memory(u) = a /\ pc[u] = "storing"
                                   /\ call[u].address = by_condition[a][j]
        BY <2>1 DEF RouteInv, IndexLeadsToRecord
    <2> QED BY <2>1, <2>2 DEF Others
<1> QED BY <1>3, <1>4

\* What a caller that indexes, stores or adopts carries.
LEMMA Carried ==
    ASSUME RouteInv, NEW c \in Callers, pc[c] \in {"indexing", "storing", "adopting"}
    PROVE  /\ call[c].record \in RouteRecords /\ call[c].record # Nothing
           /\ call[c].record.payload \in Known
           /\ call[c].record.scope \in {"shared", "global"}
           /\ call[c].condition \in Conditions /\ call[c].address \in Addresses
           /\ call[c].address[1] = call[c].condition
           /\ call[c].condition = call[c].record.payload.condition_key
           /\ call[c].address = derive_address(call[c].record.payload.condition_key,
                                               call[c].record.payload.result)
<1>1. /\ call[c].record \in RouteRecords
      /\ call[c].record.payload \in Known
      /\ call[c].condition = call[c].record.payload.condition_key
      /\ call[c].address = derive_address(call[c].condition, call[c].record.payload.result)
    BY DEF RouteInv, CallSound
<1>2. call[c].record # Nothing BY <1>1, NothingIsNone
<1>3. call[c].record.payload \in Payloads /\ call[c].record.scope \in {"shared", "global"}
    BY <1>1 DEF RouteRecords
<1>4. call[c].record.payload.condition_key \in Conditions /\ call[c].record.payload.result \in Results
    BY <1>3 DEF Payloads
<1>5. call[c].address = <<call[c].condition, call[c].record.payload.result>> BY <1>1 DEF derive_address
<1>6. call[c].address \in Addresses /\ call[c].address[1] = call[c].condition
    BY <1>1, <1>4, <1>5 DEF Addresses
<1> QED BY <1>1, <1>2, <1>3, <1>4, <1>6

LEMMA IndexConditionStep ==
    ASSUME RouteInv, NEW c \in Callers, IndexCondition(c)
    PROVE  RouteInv'
<1>1. /\ pc[c] = "indexing" /\ UNCHANGED <<by_address, deltas, learned>>
      /\ SetCondition(c, call[c].condition, call[c].address)
      /\ Goto(c, "storing", call[c])
    BY DEF IndexCondition
<1>2. Types BY DEF RouteInv
<1>3. pc'[c] = "storing" /\ call'[c] = call[c] /\ Others(c) BY <1>1, <1>2 DEF Goto, Types, Others
<1>4. Grows BY <1>1 DEF Grows
<1>5. AgentOf[c] \in Agents BY CallersHaveMemories
<1>6. call[c].condition \in Conditions /\ call[c].address \in Addresses
      /\ call[c].address[1] = call[c].condition
    BY <1>1, Carried
<1>7. Types' BY <1>1, <1>2, <1>5, <1>6 DEF Types, Goto, SetCondition, Memory
<1>8. MemorySound' BY <1>1 DEF RouteInv, MemorySound
<1>9. CallSound(c)' BY <1>1, <1>3 DEF RouteInv, CallSound
<1>10. \A u \in Callers : CallSound(u)' BY <1>3, <1>4, <1>9, OthersStaySound
<1>11. DeltasSound' BY <1>1 DEF RouteInv, DeltasSound
<1>12. IndexLeadsToRecord' BY <1>1, <1>3, <1>6, IndexedKept
<1> QED BY <1>7, <1>8, <1>10, <1>11, <1>12 DEF RouteInv

LEMMA IndexImportedStep ==
    ASSUME RouteInv, NEW c \in Callers, IndexImported(c)
    PROVE  RouteInv'
<1>1. /\ pc[c] = "adopting" /\ UNCHANGED <<by_address, deltas, learned>>
      /\ SetCondition(c, call[c].condition, call[c].address)
      /\ Goto(c, "idle", NoLocals)
    BY DEF IndexImported, Return
<1>2. Types BY DEF RouteInv
<1>3. pc'[c] = "idle" /\ call'[c] = NoLocals /\ Others(c) BY <1>1, <1>2 DEF Goto, Types, Others
<1>4. Grows BY <1>1 DEF Grows
<1>5. AgentOf[c] \in Agents BY CallersHaveMemories
<1>6. /\ call[c].condition \in Conditions /\ call[c].address \in Addresses
      /\ call[c].address[1] = call[c].condition
    BY <1>1, Carried
<1>7. by_address[AgentOf[c]][call[c].address] # Nothing BY <1>1 DEF RouteInv, CallSound, Memory
<1>8. Types' BY <1>1, <1>2, <1>5, <1>6 DEF Types, Goto, SetCondition, Memory, NoLocals, Locals
<1>9. MemorySound' BY <1>1 DEF RouteInv, MemorySound
<1>10. CallSound(c)' BY <1>3 DEF CallSound
<1>11. \A u \in Callers : CallSound(u)' BY <1>3, <1>4, <1>10, OthersStaySound
<1>12. DeltasSound' BY <1>1 DEF RouteInv, DeltasSound
<1>13. IndexLeadsToRecord' BY <1>1, <1>3, <1>6, <1>7, IndexedKept
<1> QED BY <1>8, <1>9, <1>11, <1>12, <1>13 DEF RouteInv

\* Storing a route under its own address keeps the memories sound.
LEMMA StoredSound ==
    ASSUME RouteInv, NEW c \in Callers, NEW address \in Addresses, NEW record \in RouteRecords,
           SetAddress(c, address, record), learned' = learned, record.payload \in Known,
           address = derive_address(record.payload.condition_key, record.payload.result)
    PROVE  /\ MemorySound' /\ Grows
           /\ by_address' \in [Agents -> [Addresses -> RouteRecords \cup {Nothing}]]
           /\ by_address'[AgentOf[c]][address] = record /\ record # Nothing
<1>1. Types BY DEF RouteInv
<1>2. AgentOf[c] \in Agents BY CallersHaveMemories
<1>3. record # Nothing BY NothingIsNone
<1>4. by_address' \in [Agents -> [Addresses -> RouteRecords \cup {Nothing}]]
    BY <1>1, <1>2 DEF SetAddress, Types, Memory
<1>5. by_address'[AgentOf[c]][address] = record BY <1>1, <1>2 DEF SetAddress, Types, Memory
<1>6. \A a \in Agents, d \in Addresses :
        ~(a = AgentOf[c] /\ d = address) => by_address'[a][d] = by_address[a][d]
    BY <1>1, <1>2 DEF SetAddress, Types, Memory
<1>7. Grows
    <2>1. ASSUME NEW a \in Agents, NEW d \in Addresses, by_address[a][d] # Nothing
          PROVE  by_address'[a][d] # Nothing
        BY <1>3, <1>5, <1>6, <2>1
    <2> QED BY <2>1 DEF Grows
<1>8. MemorySound'
    <2> SUFFICES ASSUME NEW a \in Agents, NEW d \in Addresses, by_address'[a][d] # Nothing
                 PROVE  /\ by_address'[a][d].payload \in Known
                        /\ d = derive_address(by_address'[a][d].payload.condition_key,
                                              by_address'[a][d].payload.result)
        BY DEF MemorySound
    <2>1. CASE a = AgentOf[c] /\ d = address BY <1>5, <2>1
    <2>2. CASE ~(a = AgentOf[c] /\ d = address)
        <3>1. by_address'[a][d] = by_address[a][d] BY <1>6, <2>2
        <3> QED BY <3>1 DEF RouteInv, MemorySound
    <2> QED BY <2>1, <2>2
<1> QED BY <1>3, <1>4, <1>5, <1>7, <1>8

LEMMA StoreRecordStep ==
    ASSUME RouteInv, NEW c \in Callers, StoreRecord(c)
    PROVE  RouteInv'
<1> DEFINE address == call[c].address
           record == call[c].record
<1>1. /\ pc[c] = "storing" /\ UNCHANGED <<by_condition, deltas, learned>>
      /\ SetAddress(c, address, record) /\ Goto(c, "idle", NoLocals)
    BY DEF StoreRecord, Return
<1>2. Types BY DEF RouteInv
<1>3. pc'[c] = "idle" /\ call'[c] = NoLocals /\ Others(c) BY <1>1, <1>2 DEF Goto, Types, Others
<1>4. /\ record \in RouteRecords /\ record.payload \in Known /\ address \in Addresses
      /\ address = derive_address(record.payload.condition_key, record.payload.result)
    BY <1>1, Carried
<1>5. /\ MemorySound' /\ Grows
      /\ by_address' \in [Agents -> [Addresses -> RouteRecords \cup {Nothing}]]
      /\ by_address'[AgentOf[c]][address] # Nothing
    BY <1>1, <1>4, StoredSound
<1>6. Types' BY <1>1, <1>2, <1>5 DEF Types, Goto, NoLocals, Locals
<1>7. CallSound(c)' BY <1>3 DEF CallSound
<1>8. \A u \in Callers : CallSound(u)' BY <1>3, <1>5, <1>7, OthersStaySound
<1>9. DeltasSound' BY <1>1 DEF RouteInv, DeltasSound
<1>10. IndexLeadsToRecord'
    <2> SUFFICES ASSUME NEW a \in Agents, NEW k \in Conditions, by_condition[a][k] # Nothing
                 PROVE  /\ by_condition[a][k][1] = k
                        /\ \/ by_address'[a][by_condition[a][k]] # Nothing
                           \/ \E u \in Callers :
                                 /\ Memory(u) = a /\ pc'[u] = "storing"
                                 /\ call'[u].address = by_condition[a][k]
        BY <1>1 DEF IndexLeadsToRecord, Memory
    <2>1. by_condition[a][k] \in Addresses BY <1>2 DEF Types
    <2>2. /\ by_condition[a][k][1] = k
          /\ \/ by_address[a][by_condition[a][k]] # Nothing
             \/ \E u \in Callers : /\ Memory(u) = a /\ pc[u] = "storing"
                                   /\ call[u].address = by_condition[a][k]
        BY DEF RouteInv, IndexLeadsToRecord
    <2>3. CASE by_address[a][by_condition[a][k]] # Nothing BY <1>5, <2>1, <2>2, <2>3 DEF Grows
    <2>4. ASSUME NEW u \in Callers, Memory(u) = a, pc[u] = "storing",
                 call[u].address = by_condition[a][k]
          PROVE  \/ by_address'[a][by_condition[a][k]] # Nothing
                 \/ pc'[u] = "storing" /\ call'[u].address = by_condition[a][k]
        <3>1. CASE u = c BY <1>5, <2>4, <3>1 DEF Memory
        <3>2. CASE u # c BY <1>3, <2>4, <3>2 DEF Others
        <3> QED BY <3>1, <3>2
    <2> QED BY <2>2, <2>3, <2>4
<1> QED BY <1>5, <1>6, <1>8, <1>9, <1>10 DEF RouteInv

LEMMA ExportStep ==
    ASSUME RouteInv, NEW c \in Callers, NEW address \in Addresses, Export(c, address)
    PROVE  RouteInv'
<1> DEFINE record == by_address[AgentOf[c]][address]
           delta == Delta(address, record.payload, record.payload, record.scope)
<1>1. /\ pc[c] # "storing" /\ UNCHANGED <<by_condition, by_address, learned>>
      /\ record # Nothing /\ deltas' = deltas \cup {delta} /\ Goto(c, "idle", NoLocals)
    BY DEF Export, Ready, Return, Memory
<1>2. Types BY DEF RouteInv
<1>3. pc'[c] = "idle" /\ call'[c] = NoLocals /\ Others(c) BY <1>1, <1>2 DEF Goto, Types, Others
<1>4. Grows BY <1>1 DEF Grows
<1>5. AgentOf[c] \in Agents BY CallersHaveMemories
<1>6. record \in RouteRecords BY <1>1, <1>2, <1>5 DEF Types
<1>7. record.payload \in Known BY <1>1, <1>5 DEF RouteInv, MemorySound
<1>8. record.payload \in Payloads /\ record.scope \in {"shared", "global"} BY <1>6 DEF RouteRecords
<1>9. delta \in ReferenceDeltas /\ delta.digest = record.payload
    <2> HIDE DEF record
    <2> QED BY <1>8 DEF ReferenceDeltas, Delta
<1>10. Types' BY <1>1, <1>2, <1>9 DEF Types, Goto, NoLocals, Locals
<1>11. MemorySound' BY <1>1 DEF RouteInv, MemorySound
<1>12. CallSound(c)' BY <1>3 DEF CallSound
<1>13. \A u \in Callers : CallSound(u)' BY <1>3, <1>4, <1>12, OthersStaySound
<1>14. DeltasSound'
    <2> HIDE DEF delta, record
    <2> QED BY <1>1, <1>7, <1>9 DEF RouteInv, DeltasSound
<1>15. IndexLeadsToRecord' BY <1>1, <1>3, <1>4, IndexKept
<1> QED BY <1>10, <1>11, <1>13, <1>14, <1>15 DEF RouteInv

\* What import_delta lets in is a route of an exported delta or a forged one.
LEMMA ImportedIsKnown ==
    ASSUME RouteInv, NEW d \in deltas \cup MadeUp, Importable(d)
    PROVE  d.payload \in Known /\ d \in ReferenceDeltas
<1>1. d \in ReferenceDeltas BY MadeUpAreDeltas DEF RouteInv, Types
<1>2. CASE d \in deltas BY <1>1, <1>2 DEF Importable, RouteInv, DeltasSound
<1>3. CASE d \in MadeUp BY <1>1, <1>3 DEF Importable, Forged
<1> QED BY <1>2, <1>3

LEMMA ImportStep ==
    ASSUME RouteInv, NEW c \in Callers, NEW d \in deltas \cup MadeUp, Import(c, d)
    PROVE  RouteInv'
<1> DEFINE address == d.trajectory_address
           record == RouteRecord(d.payload, d.scope)
<1>1. pc[c] # "storing" /\ UNCHANGED <<by_condition, deltas, learned>> BY DEF Import, Ready
<1>2. Types BY DEF RouteInv
<1>3. CASE ~Importable(d)
    <2>1. Goto(c, "idle", NoLocals) /\ UNCHANGED by_address BY <1>3 DEF Import, Return
    <2> QED BY <1>1, <2>1, LocalStep DEF Locals, NoLocals
<1>4. CASE Importable(d)
    <2>1. /\ SetAddress(c, address, record)
          /\ Goto(c, "adopting", Locals(d.payload.condition_key, address, record))
        BY <1>4 DEF Import, ImportedRecord
    <2>2. d.payload \in Known /\ d \in ReferenceDeltas BY <1>4, ImportedIsKnown
    <2>3. d.payload \in Payloads BY <2>2 DEF ReferenceDeltas
    <2>4. d.payload.condition_key \in Conditions /\ d.payload.result \in Results BY <2>3 DEF Payloads
    <2>5. address = derive_address(d.payload.condition_key, d.payload.result) BY <1>4 DEF Importable
    <2>6. address \in Addresses BY <2>4, <2>5 DEF derive_address, Addresses
    <2>7. record \in RouteRecords /\ record.payload = d.payload
        BY <1>4, <2>3 DEF Importable, RouteRecord, RouteRecords
    <2> HIDE DEF address, record
    <2>8. /\ MemorySound' /\ Grows
          /\ by_address' \in [Agents -> [Addresses -> RouteRecords \cup {Nothing}]]
          /\ by_address'[AgentOf[c]][address] # Nothing
        BY <1>1, <2>1, <2>2, <2>5, <2>6, <2>7, StoredSound
    <2>9. /\ pc'[c] = "adopting" /\ Others(c)
          /\ call'[c] = [condition |-> d.payload.condition_key, address |-> address, record |-> record]
        BY <1>2, <2>1 DEF Goto, Types, Others, Locals
    <2>10. Types'
        <3>1. Locals(d.payload.condition_key, address, record)
                \in [condition : Conditions \cup {Nothing}, address : Addresses \cup {Nothing},
                     record : RouteRecords \cup {Nothing}]
            BY <2>4, <2>6, <2>7 DEF Locals
        <3> QED BY <1>1, <1>2, <2>1, <2>8, <3>1 DEF Types, Goto
    <2>11. CallSound(c)' BY <1>1, <2>2, <2>5, <2>7, <2>8, <2>9 DEF CallSound, Memory
    <2>12. \A u \in Callers : CallSound(u)' BY <2>8, <2>9, <2>11, OthersStaySound
    <2>13. DeltasSound' BY <1>1 DEF RouteInv, DeltasSound
    <2>14. IndexLeadsToRecord' BY <1>1, <2>8, <2>9, IndexKept
    <2> QED BY <2>8, <2>10, <2>12, <2>13, <2>14 DEF RouteInv
<1> QED BY <1>3, <1>4
--------------------------------------------------------------------------------
\* The dictionaries, the calls under way and the deltas stay sound however the
\* callers' operations interleave (rm_bridge.py's resolve, export_delta and
\* import_delta).
THEOREM RouteInvariant == Spec => []RouteInv
<1>1. Init => RouteInv BY InitRouteInv
<1>2. RouteInv /\ [Next]_vars => RouteInv'
    <2> SUFFICES ASSUME RouteInv, [Next]_vars PROVE RouteInv' OBVIOUS
    <2>1. CASE UNCHANGED vars
        BY <2>1 DEF vars, RouteInv, Types, MemorySound, CallSound, DeltasSound,
                    IndexLeadsToRecord, Memory
    <2>2. CASE Next
        <3>1. PICK c \in Callers :
                \/ \E k \in Conditions : Lookup(c, k)
                \/ Fetch(c)
                \/ ResolverRaises(c)
                \/ \E r \in Results : Resolved(c, r)
                \/ IndexCondition(c)
                \/ StoreRecord(c)
                \/ \E address \in Addresses : Export(c, address)
                \/ \E d \in deltas \cup MadeUp : Import(c, d)
                \/ IndexImported(c)
            BY <2>2 DEF Next
        <3> QED BY <3>1, LookupStep, FetchStep, ResolverRaisesStep, ResolvedStep, IndexConditionStep, StoreRecordStep,
                   ExportStep, ImportStep, IndexImportedStep
    <2> QED BY <2>1, <2>2
<1> QED BY <1>1, <1>2, PTL DEF Spec

\* Whatever a memory holds or answers with is for that very condition, stands
\* under its own address, and was given by a resolver or forged as a whole.
THEOREM OnlyLearnedRoutes == Spec => []RoutesLearned
<1>1. RouteInv => RoutesLearned
    <2> SUFFICES ASSUME RouteInv PROVE RoutesLearned OBVIOUS
    <2>1. ASSUME NEW a \in Agents, NEW d \in Addresses, by_address[a][d] # Nothing
          PROVE  by_address[a][d].scope \in {"shared", "global"}
        <3>1. by_address[a][d] \in RouteRecords BY <2>1 DEF RouteInv, Types
        <3> QED BY <3>1 DEF RouteRecords
    <2>2. \A c \in Callers : CallSound(c) BY DEF RouteInv
    <2> QED BY <2>1, <2>2 DEF RouteInv, MemorySound, CallSound, RoutesLearned
<1> QED BY <1>1, RouteInvariant, PTL

\* A hit finds its record, unless it falls between the two assignments of the
\* resolve that registered the condition.
THEOREM IndexLeads == Spec => []IndexLeadsToRecord
<1>1. RouteInv => IndexLeadsToRecord BY DEF RouteInv
<1> QED BY <1>1, RouteInvariant, PTL
================================================================================
