---------------------------- MODULE Conflict_proofs ----------------------------
(***************************************************************************)
(* What the v0.1 conflict rule guarantees any number of replicas, for any  *)
(* set of deltas that wire.py lets through.                                *)
(***************************************************************************)
EXTENDS Conflict, TLAPS

\* The ordering key compared component by component.
LEMMA KeyGreaterExpanded ==
    ASSUME NEW d, NEW e
    PROVE  KeyGreater(d, e) <=>
             \/ d.new_version > e.new_version
             \/ /\ d.new_version = e.new_version
                /\ \/ d.logical_clock > e.logical_clock
                   \/ /\ d.logical_clock = e.logical_clock
                      /\ \/ d.organization_id > e.organization_id
                         \/ /\ d.organization_id = e.organization_id
                            /\ \/ d.sender_id > e.sender_id
                               \/ /\ d.sender_id = e.sender_id
                                  /\ d.message_id > e.message_id
<1> DEFINE key(x) == <<x.new_version, x.logical_clock, x.organization_id, x.sender_id, x.message_id>>
           At(i) == /\ key(d)[i] > key(e)[i]
                    /\ \A k \in 1..5 : k < i => key(d)[k] = key(e)[k]
<1>1. KeyGreater(d, e) <=> At(1) \/ At(2) \/ At(3) \/ At(4) \/ At(5)
  <2>1. 1..5 = {1, 2, 3, 4, 5}
    OBVIOUS
  <2>2. KeyGreater(d, e) <=> \E i \in 1..5 : At(i)
    BY DEF KeyGreater
  <2> HIDE DEF At
  <2> QED
    BY <2>1, <2>2
<1>2. \A x : /\ key(x)[1] = x.new_version /\ key(x)[2] = x.logical_clock
             /\ key(x)[3] = x.organization_id /\ key(x)[4] = x.sender_id
             /\ key(x)[5] = x.message_id
  OBVIOUS
<1> HIDE DEF key
<1>3. At(1) <=> d.new_version > e.new_version
  BY <1>2
<1>4. At(2) <=> d.new_version = e.new_version /\ d.logical_clock > e.logical_clock
  BY <1>2
<1>5. At(3) <=> /\ d.new_version = e.new_version /\ d.logical_clock = e.logical_clock
                /\ d.organization_id > e.organization_id
  BY <1>2
<1>6. At(4) <=> /\ d.new_version = e.new_version /\ d.logical_clock = e.logical_clock
                /\ d.organization_id = e.organization_id
                /\ d.sender_id > e.sender_id
  BY <1>2
<1>7. At(5) <=> /\ d.new_version = e.new_version /\ d.logical_clock = e.logical_clock
                /\ d.organization_id = e.organization_id
                /\ d.sender_id = e.sender_id
                /\ d.message_id > e.message_id
  BY <1>2
<1> HIDE DEF At
<1> QED
  BY <1>1, <1>3, <1>4, <1>5, <1>6, <1>7

\* The ordering is a strict order that the version leads.
LEMMA KeyOrder ==
    ASSUME NEW d \in Meta, NEW e \in Meta, NEW f \in Meta
    PROVE  /\ KeyGreater(d, e) /\ KeyGreater(e, f) => KeyGreater(d, f)
           /\ KeyGreater(d, e) => ~KeyGreater(e, d)
           /\ KeyGreater(d, e) => d # e /\ d.new_version >= e.new_version
           /\ d.new_version > e.new_version => KeyGreater(d, e)
           /\ d.message_id # e.message_id => KeyGreater(d, e) \/ KeyGreater(e, d)
BY KeyGreaterExpanded DEF Meta

\* Distinct states are ordered, because message identifiers are unique.
LEMMA KeyTotal ==
    ASSUME NEW d \in Deltas \cup {Initial}, NEW e \in Deltas \cup {Initial}, d # e
    PROVE  KeyGreater(d, e) \/ KeyGreater(e, d)
<1>1. d \in Meta /\ e \in Meta
  BY DeltasAreMeta
<1>2. d.message_id # e.message_id
  BY MessageIdsUnique
<1> QED
  BY <1>1, <1>2, KeyOrder

\* When a replica accepts a delta.
LEMMA AcceptsWhen ==
    ASSUME TypeOK, NEW r \in Replicas, NEW d \in Deltas
    PROVE  Resolution(r, d) = "ACCEPT_INCOMING" <=>
             /\ d \notin accepted[r]
             /\ d.scope_allowed
             /\ \/ d.base_version = local[r].new_version
                \/ /\ d.base_version < local[r].new_version
                   /\ d.new_version = local[r].new_version
                   /\ KeyGreater(d, local[r])
<1>1. local[r] \in Meta /\ d \in Meta
  BY DeltasAreMeta DEF TypeOK
<1>2. /\ local[r].new_version \in Nat /\ d.base_version \in Nat /\ d.new_version \in Nat
      /\ d.scope_allowed \in BOOLEAN
  BY <1>1 DEF Meta
<1> QED
  BY <1>2 DEF Resolution, Resolve, Descends, Concurrent

-------------------------------------------------------------------------------
\* The inductive invariant: the two conditions on a replica's history, with the
\* types.  Each needs the other to carry a replica to the next version.
ReplicaInv == TypeOK /\ HistoryUnbroken /\ LocalIsGreatest

\* What an accepted delta is to the state it replaces: new to the replica and
\* within its scope; one that advances is greater, and its step starts no later
\* than the version it replaces.
LEMMA AcceptedIsGreater ==
    ASSUME TypeOK, NEW r \in Replicas, NEW d \in Deltas,
           Resolution(r, d) = "ACCEPT_INCOMING"
    PROVE  /\ d \notin accepted[r] /\ d.scope_allowed
           /\ d.base_version <= local[r].new_version
           /\ Advances(d) => KeyGreater(d, local[r])
<1>1. local[r] \in Meta /\ d \in Meta
  BY DeltasAreMeta DEF TypeOK
<1>2. /\ local[r].new_version \in Nat /\ d.base_version \in Nat /\ d.new_version \in Nat
  BY <1>1 DEF Meta
<1>3. /\ d \notin accepted[r]
      /\ d.scope_allowed
      /\ \/ d.base_version = local[r].new_version
         \/ /\ d.base_version < local[r].new_version
            /\ KeyGreater(d, local[r])
  BY AcceptsWhen
<1>4. CASE d.base_version = local[r].new_version
  <2>1. Advances(d) => d.new_version > local[r].new_version
    BY <1>4 DEF Advances
  <2> QED
    BY <1>1, <1>2, <1>3, <1>4, <2>1, KeyOrder
<1>5. CASE d.base_version < local[r].new_version /\ KeyGreater(d, local[r])
  BY <1>2, <1>3, <1>5
<1> QED
  BY <1>3, <1>4, <1>5

\* Initially every replica holds the initial state and nothing else.
LEMMA InitReplicaInv == Init => ReplicaInv
<1> SUFFICES ASSUME Init PROVE ReplicaInv
  OBVIOUS
<1>1. TypeOK
  BY DEF Init, TypeOK
<1>2. \A r \in Replicas : local[r] = Initial /\ accepted[r] = {}
  BY DEF Init
<1>3. (Initial.new_version + 1)..Initial.new_version = {}
  <2>1. Initial.new_version \in Nat
    BY DeltasAreMeta DEF Meta
  <2> QED
    BY <2>1
<1>4. HistoryUnbroken
  BY <1>2, <1>3 DEF HistoryUnbroken
<1>5. LocalIsGreatest
  BY <1>2 DEF LocalIsGreatest
<1> QED
  BY <1>1, <1>4, <1>5 DEF ReplicaInv

\* An accepted delta keeps a replica's history whole and its state the greatest.
LEMMA DeliverReplicaInv ==
    ASSUME ReplicaInv, NEW r \in Replicas, NEW d \in Deltas, Deliver(r, d)
    PROVE  ReplicaInv'
<1>1. /\ local \in [Replicas -> Deltas \cup {Initial}]
      /\ accepted \in [Replicas -> SUBSET Deltas]
      /\ TypeOK
  BY DEF ReplicaInv, TypeOK
<1>2. /\ local' = [local EXCEPT ![r] = d]
      /\ accepted' = [accepted EXCEPT ![r] = accepted[r] \cup {d}]
  BY DEF Deliver
<1>3. /\ local'[r] = d /\ accepted'[r] = accepted[r] \cup {d}
      /\ \A q \in Replicas : q # r => local'[q] = local[q] /\ accepted'[q] = accepted[q]
  BY <1>1, <1>2
<1>4. /\ d.scope_allowed
      /\ d.base_version <= local[r].new_version
      /\ Advances(d) => KeyGreater(d, local[r])
  BY <1>1, AcceptedIsGreater DEF Deliver
<1>5. TypeOK'
  BY <1>1, <1>2 DEF TypeOK
<1>6. /\ local[r] \in Meta /\ d \in Meta /\ Initial \in Meta /\ accepted[r] \subseteq Meta
  BY <1>1, DeltasAreMeta
<1>7. OnlyAdvances(r)' => OnlyAdvances(r) /\ Advances(d)
  BY <1>3 DEF OnlyAdvances
<1>8. \A q \in Replicas : q # r => (OnlyAdvances(q)' <=> OnlyAdvances(q))
  BY <1>3 DEF OnlyAdvances
<1>9. HistoryUnbroken'
  <2> SUFFICES ASSUME NEW q \in Replicas
               PROVE  /\ \A e \in accepted'[q] : e.scope_allowed
                      /\ OnlyAdvances(q)' =>
                            \A v \in (Initial.new_version + 1)..local'[q].new_version :
                               \E e \in accepted'[q] : e.base_version < v /\ v <= e.new_version
    BY DEF HistoryUnbroken
  <2>1. CASE q # r
    <3>1. /\ \A e \in accepted[q] : e.scope_allowed
          /\ OnlyAdvances(q) =>
                \A v \in (Initial.new_version + 1)..local[q].new_version :
                   \E e \in accepted[q] : e.base_version < v /\ v <= e.new_version
      BY DEF ReplicaInv, HistoryUnbroken
    <3> QED
      BY <1>3, <1>8, <2>1, <3>1
  <2>2. CASE q = r
    <3>1. \A e \in accepted'[r] : e.scope_allowed
      BY <1>3, <1>4 DEF ReplicaInv, HistoryUnbroken
    <3>2. ASSUME OnlyAdvances(r)', NEW v \in (Initial.new_version + 1)..d.new_version
          PROVE  \E e \in accepted'[r] : e.base_version < v /\ v <= e.new_version
      <4>1. \/ d.base_version < v /\ v <= d.new_version
            \/ v \in (Initial.new_version + 1)..local[r].new_version
        <5>1. /\ local[r].new_version \in Nat /\ d.new_version \in Nat /\ d.base_version \in Nat
              /\ Initial.new_version \in Nat
          BY <1>6 DEF Meta
        <5> QED
          BY <1>4, <5>1
      <4>2. CASE d.base_version < v /\ v <= d.new_version
        BY <1>3, <4>2
      <4>3. CASE v \in (Initial.new_version + 1)..local[r].new_version
        <5>1. PICK e \in accepted[r] : e.base_version < v /\ v <= e.new_version
          BY <1>7, <3>2, <4>3 DEF ReplicaInv, HistoryUnbroken
        <5> QED
          BY <1>3, <5>1
      <4> QED
        BY <4>1, <4>2, <4>3
    <3> QED
      BY <1>3, <2>2, <3>1, <3>2
  <2> QED
    BY <2>1, <2>2
<1>10. LocalIsGreatest'
  <2> SUFFICES ASSUME NEW q \in Replicas
               PROVE  /\ local'[q] \in accepted'[q] \cup {Initial}
                      /\ OnlyAdvances(q)' =>
                            \A e \in accepted'[q] \cup {Initial} :
                               e = local'[q] \/ KeyGreater(local'[q], e)
    BY DEF LocalIsGreatest
  <2>1. CASE q # r
    BY <1>3, <1>8, <2>1 DEF ReplicaInv, LocalIsGreatest
  <2>2. CASE q = r
    <3>1. ASSUME OnlyAdvances(r)', NEW e \in accepted[r] \cup {Initial} PROVE KeyGreater(d, e)
      <4>1. e = local[r] \/ KeyGreater(local[r], e)
        BY <1>7, <3>1 DEF ReplicaInv, LocalIsGreatest
      <4>2. e \in Meta
        BY <1>6
      <4> QED
        BY <1>4, <1>6, <1>7, <3>1, <4>1, <4>2, KeyOrder
    <3> QED
      BY <1>3, <2>2, <3>1
  <2> QED
    BY <2>1, <2>2
<1> QED
  BY <1>5, <1>9, <1>10 DEF ReplicaInv

\* The inductive invariant holds in every reachable state, for any deltas at all.
THEOREM ReplicaInvariant == Spec => []ReplicaInv
<1>1. Init => ReplicaInv
  BY InitReplicaInv
<1>2. ReplicaInv /\ [Next]_vars => ReplicaInv'
  <2> SUFFICES ASSUME ReplicaInv, [Next]_vars PROVE ReplicaInv'
    OBVIOUS
  <2>1. CASE Next
    BY <2>1, DeliverReplicaInv DEF Next
  <2>2. CASE UNCHANGED vars
    BY <2>2 DEF vars, ReplicaInv, TypeOK, HistoryUnbroken, LocalIsGreatest, OnlyAdvances
  <2> QED
    BY <2>1, <2>2
<1> QED
  BY <1>1, <1>2, PTL DEF Spec

\* A settled replica is behind another one only if that one skipped its version:
\* a delta with which the other left this version would be accepted here.
LEMMA SettledNotBehind ==
    ASSUME ReplicaInv, NEW r \in Replicas, NEW q \in Replicas, Settled(r),
           OnlyAdvances(r), OnlyAdvances(q), ~Skipped(q, r)
    PROVE  ~(local[r].new_version < local[q].new_version)
<1> SUFFICES ASSUME local[r].new_version < local[q].new_version PROVE FALSE
  OBVIOUS
<1> DEFINE v == local[r].new_version + 1
<1>1. /\ local[r] \in Meta /\ local[q] \in Meta /\ Initial \in Meta
      /\ accepted[r] \subseteq Deltas /\ accepted[q] \subseteq Deltas
  BY DeltasAreMeta DEF ReplicaInv, TypeOK
<1>2. /\ local[r].new_version \in Nat /\ local[q].new_version \in Nat
      /\ Initial.new_version \in Nat
  BY <1>1 DEF Meta
<1>3. Initial.new_version <= local[r].new_version
  <2>1. Initial = local[r] \/ KeyGreater(local[r], Initial)
    BY DEF ReplicaInv, LocalIsGreatest
  <2> QED
    BY <1>1, <1>2, <2>1, KeyOrder
<1>4. v \in (Initial.new_version + 1)..local[q].new_version
  BY <1>2, <1>3
<1>5. PICK d \in accepted[q] : d.base_version < v /\ v <= d.new_version
  BY <1>4 DEF ReplicaInv, HistoryUnbroken
<1>6. d \in Deltas /\ d \in Meta /\ d.scope_allowed
  BY <1>1, <1>5, DeltasAreMeta DEF ReplicaInv, HistoryUnbroken
<1>7. d.base_version \in Nat /\ d.new_version \in Nat
  BY <1>6 DEF Meta
<1>8. d.base_version = local[r].new_version
  <2>1. ~(d.base_version < local[r].new_version /\ local[r].new_version < d.new_version)
    BY <1>5 DEF Skipped
  <2> QED
    BY <1>2, <1>5, <1>7, <2>1
<1>9. d \notin accepted[r]
  <2> SUFFICES ASSUME d \in accepted[r] PROVE FALSE
    OBVIOUS
  <2>1. d = local[r] \/ KeyGreater(local[r], d)
    BY DEF ReplicaInv, LocalIsGreatest
  <2>2. local[r].new_version >= d.new_version
    BY <1>1, <1>2, <1>6, <2>1, KeyOrder
  <2> QED
    BY <1>2, <1>5, <1>7, <2>2
<1>10. Resolution(r, d) = "ACCEPT_INCOMING"
  BY <1>6, <1>8, <1>9, AcceptsWhen DEF ReplicaInv
<1> QED
  BY <1>6, <1>10 DEF Settled

\* A settled replica does not hold a lesser state of the same version.
LEMMA SettledNotLess ==
    ASSUME ReplicaInv, NEW r \in Replicas, NEW q \in Replicas, Settled(r),
           OnlyAdvances(r), OnlyAdvances(q),
           local[r].new_version = local[q].new_version
    PROVE  ~KeyGreater(local[q], local[r])
<1> SUFFICES ASSUME KeyGreater(local[q], local[r]) PROVE FALSE
  OBVIOUS
<1> DEFINE d == local[q]
<1>1. /\ local[r] \in Meta /\ d \in Meta /\ Initial \in Meta
      /\ d \in accepted[q] \cup {Initial}
      /\ accepted[r] \subseteq Meta
  BY DeltasAreMeta DEF ReplicaInv, TypeOK, LocalIsGreatest
<1>2. \A e \in accepted[r] \cup {Initial} : e = local[r] \/ KeyGreater(local[r], e)
  BY DEF ReplicaInv, LocalIsGreatest
<1>3. d \notin accepted[r] \cup {Initial}
  BY <1>1, <1>2, KeyOrder
<1>4. d \in Deltas /\ d.scope_allowed
  BY <1>1, <1>3 DEF ReplicaInv, TypeOK, HistoryUnbroken
<1>5. d.base_version < local[r].new_version
  BY <1>1, <1>3 DEF OnlyAdvances, Advances
<1>6. Resolution(r, d) = "ACCEPT_INCOMING"
  BY <1>3, <1>4, <1>5, AcceptsWhen DEF ReplicaInv
<1> QED
  BY <1>4, <1>6 DEF Settled

\* Two settled replicas differ only because one of them accepted a delta that does
\* not advance or skipped the version of the other, for any deltas at all.
THEOREM Convergence == Spec => []ApartOnlyBySkip
<1>1. ReplicaInv => ApartOnlyBySkip
  <2> SUFFICES ASSUME ReplicaInv, NEW r \in Replicas, NEW q \in Replicas, Settled(r), Settled(q),
                      OnlyAdvances(r), OnlyAdvances(q), ~Skipped(q, r), ~Skipped(r, q)
               PROVE  local[r] = local[q]
    BY DEF ApartOnlyBySkip
  <2>1. local[r] \in Meta /\ local[q] \in Meta
        /\ local[r] \in Deltas \cup {Initial} /\ local[q] \in Deltas \cup {Initial}
    BY DeltasAreMeta DEF ReplicaInv, TypeOK
  <2>2. local[r].new_version = local[q].new_version
    <3>1. local[r].new_version \in Nat /\ local[q].new_version \in Nat
      BY <2>1 DEF Meta
    <3> QED
      BY <3>1, SettledNotBehind
  <2>3. ~KeyGreater(local[q], local[r]) /\ ~KeyGreater(local[r], local[q])
    BY <2>2, SettledNotLess
  <2> QED
    BY <2>1, <2>3, KeyTotal
<1> QED
  BY <1>1, ReplicaInvariant, PTL

\* A replica never builds on a base it did not hold.
THEOREM HistoryHasNoGap == Spec => []HistoryUnbroken
<1>1. ReplicaInv => HistoryUnbroken
  BY DEF ReplicaInv
<1> QED
  BY <1>1, ReplicaInvariant, PTL

\* resolve leaves a replica with a delta it has accepted, and with the greatest
\* one as long as all of them advance.
THEOREM GreatestWins == Spec => []LocalIsGreatest
<1>1. ReplicaInv => LocalIsGreatest
  BY DEF ReplicaInv
<1> QED
  BY <1>1, ReplicaInvariant, PTL
================================================================================
