---------------------- MODULE ResilientExecution_proofs ----------------------
(***************************************************************************)
(* Proofs about ResilientExecution, for every set of nodes, every attempt  *)
(* limit and every behaviour of the two callbacks.                         *)
(***************************************************************************)
EXTENDS ResilientExecution, FiniteSetTheorems, TLAPS

\* begin_attempt appends one attempt, in flight on the node, and touches
\* nothing else.
LEMMA BeginAttemptFacts ==
    ASSUME NEW st \in ExecutionStates, NEW node \in Nodes
    PROVE  LET b == BeginAttempt(st, node)
               n == Len(st.attempts)
           IN  /\ b \in ExecutionStates
               /\ Len(b.attempts) = n + 1
               /\ \A i \in 1..n : b.attempts[i] = st.attempts[i]
               /\ b.attempts[n + 1] = [node_id |-> node, outcome |-> "IN_FLIGHT"]
               /\ b.request_id = st.request_id
               /\ b.excluded_nodes = st.excluded_nodes
               /\ b.completed = st.completed
               /\ b.result = st.result
<1> DEFINE a == [node_id |-> node, outcome |-> "IN_FLIGHT"]
<1>1. st.attempts \in Seq(Attempt)
  BY DEF ExecutionStates
<1>2. a \in Attempt
  BY DEF Attempt, AttemptOutcomes
<1>3. BeginAttempt(st, node) = [st EXCEPT !.attempts = Append(st.attempts, a)]
  BY DEF BeginAttempt
<1>4. Append(st.attempts, a) \in Seq(Attempt)
  BY <1>1, <1>2
<1> HIDE DEF a
<1>5. /\ Len(Append(st.attempts, a)) = Len(st.attempts) + 1
      /\ \A i \in 1..Len(st.attempts) : Append(st.attempts, a)[i] = st.attempts[i]
      /\ Append(st.attempts, a)[Len(st.attempts) + 1] = a
  BY <1>1, <1>2
<1>6. BeginAttempt(st, node).attempts = Append(st.attempts, a)
  BY <1>3 DEF ExecutionStates
<1>7. BeginAttempt(st, node) \in ExecutionStates
  BY <1>3, <1>4 DEF ExecutionStates
<1>8. /\ BeginAttempt(st, node).request_id = st.request_id
      /\ BeginAttempt(st, node).excluded_nodes = st.excluded_nodes
      /\ BeginAttempt(st, node).completed = st.completed
      /\ BeginAttempt(st, node).result = st.result
  BY <1>3 DEF ExecutionStates
<1> QED
  BY <1>5, <1>6, <1>7, <1>8 DEF a

\* Closing the last attempt changes its outcome only, and only when the
\* evidence is about the node it was made on.
LEMMA CloseLastAttemptFacts ==
    ASSUME NEW st \in ExecutionStates, NEW node, NEW outcome \in AttemptOutcomes
    PROVE  LET c == CloseLastAttempt(st, node, outcome)
               n == Len(st.attempts)
           IN  /\ c \in Seq(Attempt)
               /\ Len(c) = n
               /\ \A i \in 1..n : c[i].node_id = st.attempts[i].node_id
               /\ \A i \in 1..n : i < n => c[i] = st.attempts[i]
               /\ n > 0 => c[n].outcome = IF st.attempts[n].node_id = node
                                          THEN outcome
                                          ELSE st.attempts[n].outcome
<1> DEFINE n == Len(st.attempts)
<1>1. st.attempts \in Seq(Attempt) /\ n \in Nat
  BY DEF ExecutionStates
<1>2. CASE LastAttemptOn(st, node)
  <2> DEFINE c == [st.attempts EXCEPT ![n].outcome = outcome]
  <2>1. CloseLastAttempt(st, node, outcome) = c
    BY <1>2 DEF CloseLastAttempt
  <2>2. n > 0 /\ st.attempts[n].node_id = node
    BY <1>1, <1>2 DEF LastAttemptOn
  <2>3. st.attempts[n] \in Attempt
    BY <1>1, <2>2
  <2>4. [st.attempts[n] EXCEPT !.outcome = outcome] \in Attempt
    BY <2>3 DEF Attempt
  <2>5. /\ c \in Seq(Attempt)
        /\ Len(c) = n
        /\ \A i \in 1..n : i < n => c[i] = st.attempts[i]
        /\ c[n] = [st.attempts[n] EXCEPT !.outcome = outcome]
    BY <1>1, <2>2, <2>4
  <2>6. c[n].node_id = st.attempts[n].node_id /\ c[n].outcome = outcome
    BY <2>3, <2>5 DEF Attempt
  <2> HIDE DEF c
  <2>7. ASSUME NEW i \in 1..n PROVE c[i].node_id = st.attempts[i].node_id
    <3>1. i < n \/ i = n
      BY <1>1
    <3> QED
      BY <2>5, <2>6, <3>1
  <2> QED
    BY <2>1, <2>2, <2>5, <2>6, <2>7
<1>3. CASE ~LastAttemptOn(st, node)
  <2>1. CloseLastAttempt(st, node, outcome) = st.attempts
    BY <1>3 DEF CloseLastAttempt
  <2>2. n > 0 => st.attempts[n].node_id # node
    BY <1>1, <1>3 DEF LastAttemptOn
  <2> QED
    BY <1>1, <2>1, <2>2
<1> QED
  BY <1>2, <1>3

\* The fields of the lifecycle after an accepted failure.
LEMMA AcceptFailureFacts ==
    ASSUME NEW st \in ExecutionStates, NEW f, f.failed_node_id \in Nodes
    PROVE  LET s == AcceptFailure(st, f)
           IN  /\ s \in ExecutionStates
               /\ s.attempts = CloseLastAttempt(st, f.failed_node_id, "FAILED")
               /\ s.excluded_nodes = st.excluded_nodes \cup {f.failed_node_id}
               /\ s.request_id = st.request_id
               /\ s.completed = st.completed
               /\ s.result = st.result
<1> DEFINE c == CloseLastAttempt(st, f.failed_node_id, "FAILED")
<1>1. c \in Seq(Attempt)
  BY CloseLastAttemptFacts DEF AttemptOutcomes
<1>2. AcceptFailure(st, f) =
        [st EXCEPT !.excluded_nodes = st.excluded_nodes \cup {f.failed_node_id},
                   !.attempts = c]
  BY DEF AcceptFailure
<1> HIDE DEF c
<1> QED
  BY <1>1, <1>2 DEF ExecutionStates, c

\* The fields of the lifecycle after an accepted result.
LEMMA AcceptResultFacts ==
    ASSUME NEW st \in ExecutionStates, NEW r \in JobResults
    PROVE  LET s == AcceptResult(st, r)
           IN  /\ s \in ExecutionStates
               /\ s.attempts = CloseLastAttempt(st, r.responder_node_id, "OK")
               /\ s.excluded_nodes = st.excluded_nodes
               /\ s.request_id = st.request_id
               /\ s.completed = TRUE
               /\ s.result = r
<1> DEFINE c == CloseLastAttempt(st, r.responder_node_id, "OK")
<1>1. c \in Seq(Attempt)
  BY CloseLastAttemptFacts DEF AttemptOutcomes
<1>2. AcceptResult(st, r) =
        [st EXCEPT !.attempts = c, !.result = r, !.completed = TRUE]
  BY DEF AcceptResult
<1> HIDE DEF c
<1> QED
  BY <1>1, <1>2 DEF ExecutionStates, c
-------------------------------------------------------------------------------
\* At the executor the target is a node: it is the one of the attempt in flight.
LEMMA TargetIsANode ==
    ASSUME LifecycleInv, pc = "executing"
    PROVE  target \in Nodes
<1> DEFINE a == life.attempts
           n == Len(a)
<1>1. a \in Seq(Attempt) /\ n \in Nat
  BY DEF LifecycleInv, TypeOK, ExecutionStates
<1>2. n > 0 /\ a[n] = [node_id |-> target, outcome |-> "IN_FLIGHT"]
  BY DEF LifecycleInv, LoopPosition
<1>3. a[n] \in Attempt
  BY <1>1, <1>2
<1> QED
  BY <1>2, <1>3 DEF Attempt

\* The node of the attempt in flight is not excluded: no other attempt was made
\* on it, and this one has not failed.
LEMMA TargetNotExcluded ==
    ASSUME LifecycleInv, pc = "executing"
    PROVE  target \notin life.excluded_nodes
<1> DEFINE a == life.attempts
           n == Len(a)
<1>1. n \in Nat
  BY DEF LifecycleInv, TypeOK, ExecutionStates
<1>2. n > 0 /\ a[n].node_id = target /\ a[n].outcome # "FAILED"
  BY DEF LifecycleInv, LoopPosition
<1>3. \A i \in 1..n : i # n => a[i].node_id # target
  <2>1. n \in 1..n
    BY <1>1, <1>2
  <2> QED
    BY <1>2, <2>1 DEF LifecycleInv, NoNodeTwice
<1> QED
  BY <1>2, <1>3 DEF LifecycleInv, ExclusionExact

\* Before the call the lifecycle is empty, so every part holds trivially.
LEMMA InitLifecycleInv == Init => LifecycleInv
<1> SUFFICES ASSUME Init PROVE LifecycleInv
  OBVIOUS
<1>1. /\ pc = "idle" /\ target = Nothing
      /\ life = NewExecution(EmptyId)
      /\ life.attempts = <<>> /\ life.excluded_nodes = {}
      /\ life.completed = FALSE /\ life.result = Nothing
  BY DEF Init, NewExecution
<1>2. TypeOK
  BY <1>1 DEF TypeOK, ExecutionStates, NewExecution, Init
<1>3. Len(life.attempts) = 0
  BY <1>1
<1>4. LoopPosition /\ NoNodeTwice /\ ExclusionExact /\ EveryAttemptAccounted
  BY <1>1, <1>3 DEF LoopPosition, NoNodeTwice, ExclusionExact, EveryAttemptAccounted
<1>5. CompletedByEvidence
  BY <1>1 DEF CompletedByEvidence
<1>6. WithinAttemptLimit
  BY <1>3, MaxAttemptsPositive DEF WithinAttemptLimit
<1>7. ExclusionCount
  BY <1>1, <1>3, FS_EmptySet DEF ExclusionCount
<1> QED
  BY <1>2, <1>4, <1>5, <1>6, <1>7 DEF LifecycleInv

\* An exception leaves the lifecycle as it was.
LEMMA ThrowPreserves ==
    ASSUME LifecycleInv, Throw
    PROVE  LifecycleInv'
<1>1. pc' = "threw" /\ life' = life /\ target' = target
  BY DEF Throw
<1>2. TypeOK'
  BY <1>1 DEF LifecycleInv, TypeOK
<1>3. LoopPosition' /\ EveryAttemptAccounted'
  BY <1>1 DEF LifecycleInv, LoopPosition, EveryAttemptAccounted
<1>4. NoNodeTwice' /\ ExclusionExact' /\ CompletedByEvidence' /\ WithinAttemptLimit'
  BY <1>1 DEF LifecycleInv, NoNodeTwice, ExclusionExact, CompletedByEvidence, WithinAttemptLimit
<1>5. ExclusionCount'
  BY <1>1 DEF LifecycleInv, ExclusionCount
<1> QED
  BY <1>2, <1>3, <1>4, <1>5 DEF LifecycleInv

\* The call starts with an empty lifecycle and, as max_attempts is positive,
\* at the route provider.
LEMMA ExecutePreserves ==
    ASSUME LifecycleInv, NEW rid \in RequestIds \cup {EmptyId}, Execute(rid)
    PROVE  LifecycleInv'
<1>1. CASE rid = EmptyId
  BY <1>1, ThrowPreserves DEF Execute
<1>2. CASE rid # EmptyId
  <2>1. /\ life' = NewExecution(rid)
        /\ pc' = AfterIteration(life')
        /\ target' = target
    BY <1>2 DEF Execute
  <2>2. /\ life'.attempts = <<>> /\ life'.excluded_nodes = {}
        /\ life'.completed = FALSE /\ life'.result = Nothing
    BY <2>1 DEF NewExecution
  <2>3. Len(life'.attempts) = 0
    BY <2>2
  <2>4. LoopContinues(life')
    BY <2>2, <2>3, MaxAttemptsPositive DEF LoopContinues, Exhausted
  <2>5. pc' = "routing"
    BY <2>1, <2>4 DEF AfterIteration
  <2>6. TypeOK'
    BY <2>1, <2>5 DEF LifecycleInv, TypeOK, ExecutionStates, NewExecution
  <2>7. LoopPosition' /\ NoNodeTwice' /\ ExclusionExact' /\ EveryAttemptAccounted'
    BY <2>2, <2>3, <2>4, <2>5
       DEF LoopPosition, NoNodeTwice, ExclusionExact, EveryAttemptAccounted
  <2>8. CompletedByEvidence'
    BY <2>2 DEF CompletedByEvidence
  <2>9. WithinAttemptLimit'
    BY <2>3, MaxAttemptsPositive DEF WithinAttemptLimit
  <2>10. ExclusionCount'
    BY <2>2, <2>3, <2>5, FS_EmptySet DEF ExclusionCount
  <2> QED
    BY <2>6, <2>7, <2>8, <2>9, <2>10 DEF LifecycleInv
<1> QED
  BY <1>1, <1>2

\* The loop breaks with every attempt failed.
LEMMA RouteExhaustedPreserves ==
    ASSUME LifecycleInv, RouteExhausted
    PROVE  LifecycleInv'
<1>1. pc = "routing" /\ pc' = "done" /\ life' = life /\ target' = target
  BY DEF RouteExhausted
<1>2. TypeOK'
  BY <1>1 DEF LifecycleInv, TypeOK
<1>3. LoopPosition'
  BY <1>1 DEF LifecycleInv, LoopPosition
<1>4. EveryAttemptAccounted'
  <2>1. Len(life.attempts) \in Nat
    BY DEF LifecycleInv, TypeOK, ExecutionStates
  <2>2. ~life.completed /\ \A i \in 1..Len(life.attempts) : life.attempts[i].outcome = "FAILED"
    BY <1>1, <2>1 DEF LifecycleInv, LoopPosition, LoopContinues
  <2> QED
    BY <1>1, <2>2 DEF EveryAttemptAccounted
<1>5. NoNodeTwice' /\ ExclusionExact' /\ CompletedByEvidence' /\ WithinAttemptLimit'
  BY <1>1 DEF LifecycleInv, NoNodeTwice, ExclusionExact, CompletedByEvidence, WithinAttemptLimit
<1>6. ExclusionCount'
  BY <1>1 DEF LifecycleInv, ExclusionCount
<1> QED
  BY <1>2, <1>3, <1>4, <1>5, <1>6 DEF LifecycleInv

\* A node that begins an attempt is not excluded, and at the route provider the
\* excluded nodes are all the attempted ones: it was never attempted.
LEMMA RouteSelectedPreserves ==
    ASSUME LifecycleInv, NEW node \in Nodes \cup {EmptyId}, RouteSelected(node)
    PROVE  LifecycleInv'
<1> DEFINE a == life.attempts
           n == Len(a)
<1>1. pc = "routing" /\ life \in ExecutionStates /\ a \in Seq(Attempt) /\ n \in Nat
  BY DEF RouteSelected, LifecycleInv, TypeOK, ExecutionStates
<1>2. CASE node \in life.excluded_nodes \/ BeginAttemptThrows(life, node)
  BY <1>2, ThrowPreserves DEF RouteSelected
<1>3. CASE ~(node \in life.excluded_nodes \/ BeginAttemptThrows(life, node))
  <2>1. /\ life' = BeginAttempt(life, node)
        /\ target' = node
        /\ pc' = "executing"
    BY <1>3 DEF RouteSelected
  <2>2. node \in Nodes /\ node \notin life.excluded_nodes /\ ~Exhausted(life) /\ ~life.completed
    BY <1>3 DEF BeginAttemptThrows
  <2>3. /\ life' \in ExecutionStates
        /\ Len(life'.attempts) = n + 1
        /\ \A i \in 1..n : life'.attempts[i] = a[i]
        /\ life'.attempts[n + 1] = [node_id |-> node, outcome |-> "IN_FLIGHT"]
        /\ life'.request_id = life.request_id
        /\ life'.excluded_nodes = life.excluded_nodes
        /\ life'.completed = life.completed
        /\ life'.result = life.result
    BY <1>1, <2>1, <2>2, BeginAttemptFacts
  <2>4. \A i \in 1..n : a[i].outcome = "FAILED"
    BY <1>1 DEF LifecycleInv, LoopPosition
  <2>5. \A i \in 1..n : a[i].node_id # node
    BY <2>2, <2>4 DEF LifecycleInv, ExclusionExact
  <2> HIDE DEF a, n
  <2>6. TypeOK'
    BY <2>1, <2>2, <2>3 DEF TypeOK
  <2>7. LoopPosition'
    BY <1>1, <2>1, <2>2, <2>3, <2>4 DEF LoopPosition
  <2>8. NoNodeTwice'
    <3> SUFFICES ASSUME NEW i \in 1..(n + 1), NEW k \in 1..(n + 1), i # k
                 PROVE  life'.attempts[i].node_id # life'.attempts[k].node_id
      BY <2>3 DEF NoNodeTwice
    <3>1. (i \in 1..n \/ i = n + 1) /\ (k \in 1..n \/ k = n + 1)
      BY <1>1
    <3>2. \A j, l \in 1..n : j # l => a[j].node_id # a[l].node_id
      BY DEF LifecycleInv, NoNodeTwice, a, n
    <3>3. life'.attempts[n + 1].node_id = node
      BY <2>3
    <3> QED
      BY <2>3, <2>5, <3>1, <3>2, <3>3
  <2>9. ExclusionExact'
    <3>1. {k \in 1..(n + 1) : life'.attempts[k].outcome = "FAILED"} = 1..n
      BY <1>1, <2>3, <2>4
    <3>2. {k \in 1..n : a[k].outcome = "FAILED"} = 1..n
      BY <2>4
    <3>3. life.excluded_nodes = {a[i].node_id : i \in 1..n}
      BY <3>2 DEF LifecycleInv, ExclusionExact, a, n
    <3>4. {life'.attempts[i].node_id : i \in 1..n} = {a[i].node_id : i \in 1..n}
      BY <2>3
    <3> QED
      BY <2>3, <3>1, <3>3, <3>4 DEF ExclusionExact
  <2>10. EveryAttemptAccounted'
    BY <2>1 DEF EveryAttemptAccounted
  <2>11. CompletedByEvidence'
    BY <2>2, <2>3 DEF LifecycleInv, CompletedByEvidence
  <2>12. WithinAttemptLimit'
    BY <1>1, <2>2, <2>3, MaxAttemptsPositive DEF WithinAttemptLimit, Exhausted, a, n
  <2>13. ExclusionCount'
    BY <1>1, <2>1, <2>3 DEF LifecycleInv, ExclusionCount, a, n
  <2> QED
    BY <2>6, <2>7, <2>8, <2>9, <2>10, <2>11, <2>12, <2>13 DEF LifecycleInv
<1> QED
  BY <1>2, <1>3

\* An accepted result closes the call; the exclusions stay those of the failed
\* attempts because the attempt it closes was in flight.
LEMMA ResultReturnedPreserves ==
    ASSUME LifecycleInv, NEW r \in JobResults, ResultReturned(r)
    PROVE  LifecycleInv'
<1> DEFINE a == life.attempts
           n == Len(a)
<1>1. /\ pc = "executing" /\ life \in ExecutionStates /\ a \in Seq(Attempt) /\ n \in Nat
      /\ target \in Nodes \cup {Nothing}
  BY DEF ResultReturned, LifecycleInv, TypeOK, ExecutionStates
<1>2. CASE AcceptResultThrows(life, r)
  BY <1>2, ThrowPreserves DEF ResultReturned
<1>3. CASE ~AcceptResultThrows(life, r)
  <2>1. /\ life' = AcceptResult(life, r)
        /\ pc' = AfterIteration(life')
        /\ target' = target
    BY <1>3 DEF ResultReturned
  <2>2. /\ life' \in ExecutionStates
        /\ life'.attempts = CloseLastAttempt(life, r.responder_node_id, "OK")
        /\ life'.excluded_nodes = life.excluded_nodes
        /\ life'.request_id = life.request_id
        /\ life'.completed = TRUE
        /\ life'.result = r
    BY <1>1, <2>1, AcceptResultFacts
  <2>3. pc' = "done"
    BY <2>1, <2>2 DEF AfterIteration, LoopContinues
  <2>4. n > 0 /\ a[n] = [node_id |-> target, outcome |-> "IN_FLIGHT"]
    BY <1>1 DEF LifecycleInv, LoopPosition
  <2>5. \A i \in 1..n : i < n => a[i].outcome = "FAILED"
    BY DEF LifecycleInv, LoopPosition
  <2>6. /\ Len(life'.attempts) = n
        /\ \A i \in 1..n : life'.attempts[i].node_id = a[i].node_id
        /\ \A i \in 1..n : i < n => life'.attempts[i] = a[i]
        /\ life'.attempts[n].outcome =
               IF r.responder_node_id = target THEN "OK" ELSE "IN_FLIGHT"
    <3>1. "OK" \in AttemptOutcomes
      BY DEF AttemptOutcomes
    <3>2. a[n].node_id = target /\ a[n].outcome = "IN_FLIGHT"
      BY <2>4
    <3>3. life'.attempts[n].outcome =
              IF a[n].node_id = r.responder_node_id THEN "OK" ELSE a[n].outcome
      BY <1>1, <2>2, <2>4, <3>1, CloseLastAttemptFacts
    <3> QED
      BY <1>1, <2>2, <3>1, <3>2, <3>3, CloseLastAttemptFacts
  <2> HIDE DEF a, n
  <2>7. TypeOK'
    BY <1>1, <2>1, <2>2, <2>3 DEF TypeOK
  <2>8. LoopPosition'
    BY <2>3, <2>5, <2>6 DEF LoopPosition
  <2>9. NoNodeTwice'
    BY <2>6 DEF LifecycleInv, NoNodeTwice, a, n
  <2>10. ExclusionExact'
    <3>1. \A i \in 1..n : (life'.attempts[i].outcome = "FAILED") <=> (a[i].outcome = "FAILED")
      <4> TAKE i \in 1..n
      <4>1. i < n \/ i = n
        BY <1>1
      <4>2. a[n].outcome # "FAILED" /\ life'.attempts[n].outcome # "FAILED"
        BY <2>4, <2>6
      <4> QED
        BY <2>6, <4>1, <4>2
    <3>2. {k \in 1..n : life'.attempts[k].outcome = "FAILED"} = {k \in 1..n : a[k].outcome = "FAILED"}
      BY <3>1
    <3> DEFINE K == {k \in 1..n : a[k].outcome = "FAILED"}
    <3>3. {life'.attempts[i].node_id : i \in K} = {a[i].node_id : i \in K}
      BY <2>6
    <3> QED
      BY <2>2, <2>6, <3>2, <3>3 DEF LifecycleInv, ExclusionExact, a, n
  <2>11. EveryAttemptAccounted'
    <3>1. \A i \in 1..n : i < n \/ i = n
      BY <1>1
    <3>2. life'.attempts # <<>>
      BY <2>4, <2>6
    <3> QED
      BY <2>1, <2>2, <2>4, <2>5, <2>6, <3>1, <3>2 DEF EveryAttemptAccounted
  <2>12. CompletedByEvidence'
    BY <1>3, <2>2, NothingIsNoValue DEF CompletedByEvidence, AcceptResultThrows
  <2>13. WithinAttemptLimit'
    BY <2>6 DEF LifecycleInv, WithinAttemptLimit, a, n
  <2>14. ExclusionCount'
    BY <2>2, <2>3 DEF LifecycleInv, ExclusionCount
  <2> QED
    BY <2>7, <2>8, <2>9, <2>10, <2>11, <2>12, <2>13, <2>14 DEF LifecycleInv
<1> QED
  BY <1>2, <1>3

\* A failure is accepted only for the target, which is the node of the attempt
\* in flight and not excluded yet: one attempt closes, one node is excluded.
LEMMA FailureReturnedPreserves ==
    ASSUME LifecycleInv, NEW f \in FailureNotices, FailureReturned(f)
    PROVE  LifecycleInv'
<1> DEFINE a == life.attempts
           n == Len(a)
<1>1. /\ pc = "executing" /\ life \in ExecutionStates /\ a \in Seq(Attempt) /\ n \in Nat
      /\ target \in Nodes \cup {Nothing}
  BY DEF FailureReturned, LifecycleInv, TypeOK, ExecutionStates
<1>2. CASE f.failed_node_id # target \/ AcceptFailureThrows(life, f)
  BY <1>2, ThrowPreserves DEF FailureReturned
<1>3. CASE ~(f.failed_node_id # target \/ AcceptFailureThrows(life, f))
  <2>1. /\ life' = AcceptFailure(life, f)
        /\ pc' = AfterIteration(life')
        /\ target' = target
        /\ f.failed_node_id = target
    BY <1>3 DEF FailureReturned
  <2>2. n > 0 /\ a[n] = [node_id |-> target, outcome |-> "IN_FLIGHT"] /\ ~life.completed
    BY <1>1 DEF LifecycleInv, LoopPosition
  <2>3. target \in Nodes
    BY <1>1, TargetIsANode
  <2>4. /\ life' \in ExecutionStates
        /\ life'.attempts = CloseLastAttempt(life, target, "FAILED")
        /\ life'.excluded_nodes = life.excluded_nodes \cup {target}
        /\ life'.request_id = life.request_id
        /\ life'.completed = life.completed
        /\ life'.result = life.result
    BY <1>1, <2>1, <2>3, AcceptFailureFacts
  <2>5. \A i \in 1..n : i < n => a[i].outcome = "FAILED"
    BY DEF LifecycleInv, LoopPosition
  <2>6. /\ Len(life'.attempts) = n
        /\ \A i \in 1..n : life'.attempts[i].node_id = a[i].node_id
        /\ \A i \in 1..n : life'.attempts[i].outcome = "FAILED"
    <3>1. "FAILED" \in AttemptOutcomes
      BY DEF AttemptOutcomes
    <3>2. a[n].node_id = target
      BY <2>2
    <3>3. life'.attempts[n].outcome = "FAILED"
      BY <1>1, <2>2, <2>4, <3>1, <3>2, CloseLastAttemptFacts
    <3>4. \A i \in 1..n : i < n => life'.attempts[i] = a[i]
      BY <1>1, <2>4, <3>1, CloseLastAttemptFacts
    <3>5. \A i \in 1..n : i < n \/ i = n
      BY <1>1
    <3>6. \A i \in 1..n : life'.attempts[i].outcome = "FAILED"
      BY <2>5, <3>3, <3>4, <3>5
    <3> QED
      BY <1>1, <2>4, <3>1, <3>6, CloseLastAttemptFacts
  <2>7. target \notin life.excluded_nodes
    BY <1>1, TargetNotExcluded
  <2>8. pc' \in {"routing", "done"} /\ (pc' = "routing" => LoopContinues(life'))
    BY <2>1 DEF AfterIteration
  <2> HIDE DEF a, n
  <2>9. TypeOK'
    BY <1>1, <2>1, <2>4, <2>8 DEF TypeOK
  <2>10. LoopPosition'
    <3>1. n \in 1..n
      BY <1>1, <2>2
    <3> QED
      BY <2>6, <2>8, <3>1 DEF LoopPosition
  <2>11. NoNodeTwice'
    BY <2>6 DEF LifecycleInv, NoNodeTwice, a, n
  <2>12. ExclusionExact'
    <3>1. {k \in 1..n : life'.attempts[k].outcome = "FAILED"} = 1..n
      BY <2>6
    <3>2. {k \in 1..n : a[k].outcome = "FAILED"} = 1..(n - 1)
      BY <1>1, <2>2, <2>5
    <3>3. life.excluded_nodes = {a[i].node_id : i \in 1..(n - 1)}
      BY <3>2 DEF LifecycleInv, ExclusionExact, a, n
    <3>4. {life'.attempts[i].node_id : i \in 1..n} = {a[i].node_id : i \in 1..n}
      BY <2>6
    <3>5. 1..n = 1..(n - 1) \cup {n}
      BY <1>1, <2>2
    <3>6. {a[i].node_id : i \in 1..n} = {a[i].node_id : i \in 1..(n - 1)} \cup {target}
      BY <2>2, <3>5
    <3> QED
      BY <2>4, <2>6, <3>1, <3>3, <3>4, <3>6 DEF ExclusionExact
  <2>13. EveryAttemptAccounted'
    BY <2>2, <2>4, <2>6 DEF EveryAttemptAccounted
  <2>14. CompletedByEvidence'
    BY <2>2, <2>4 DEF LifecycleInv, CompletedByEvidence
  <2>15. WithinAttemptLimit'
    BY <2>6 DEF LifecycleInv, WithinAttemptLimit, a, n
  <2>16. ExclusionCount'
    <3>1. IsFiniteSet(life.excluded_nodes) /\ Cardinality(life.excluded_nodes) + 1 = n
      BY <1>1 DEF LifecycleInv, ExclusionCount, a, n
    <3>2. /\ IsFiniteSet(life.excluded_nodes \cup {target})
          /\ Cardinality(life.excluded_nodes \cup {target}) = Cardinality(life.excluded_nodes) + 1
      BY <2>7, <3>1, FS_AddElement
    <3> QED
      BY <2>4, <2>6, <2>8, <3>1, <3>2 DEF ExclusionCount
  <2> QED
    BY <2>9, <2>10, <2>11, <2>12, <2>13, <2>14, <2>15, <2>16 DEF LifecycleInv
<1> QED
  BY <1>2, <1>3

\* Every step of the call preserves the invariant.
LEMMA NextLifecycleInv == LifecycleInv /\ [Next]_vars => LifecycleInv'
<1> SUFFICES ASSUME LifecycleInv, [Next]_vars PROVE LifecycleInv'
  OBVIOUS
<1>1. ASSUME NEW rid \in RequestIds \cup {EmptyId}, Execute(rid) PROVE LifecycleInv'
  BY <1>1, ExecutePreserves
<1>2. CASE RouteExhausted
  BY <1>2, RouteExhaustedPreserves
<1>3. ASSUME NEW node \in Nodes \cup {EmptyId}, RouteSelected(node) PROVE LifecycleInv'
  BY <1>3, RouteSelectedPreserves
<1>4. ASSUME NEW r \in JobResults, ResultReturned(r) PROVE LifecycleInv'
  BY <1>4, ResultReturnedPreserves
<1>5. ASSUME NEW f \in FailureNotices, FailureReturned(f) PROVE LifecycleInv'
  BY <1>5, FailureReturnedPreserves
<1>6. CASE NoTerminalEvidence
  BY <1>6, ThrowPreserves DEF NoTerminalEvidence
<1>7. CASE CallbackThrows
  BY <1>7, ThrowPreserves DEF CallbackThrows
<1>8. CASE UNCHANGED vars
  BY <1>8 DEF vars, LifecycleInv, TypeOK, LoopPosition, NoNodeTwice, ExclusionExact,
              EveryAttemptAccounted, CompletedByEvidence, WithinAttemptLimit, ExclusionCount
<1> QED
  BY <1>1, <1>2, <1>3, <1>4, <1>5, <1>6, <1>7, <1>8 DEF Next

\* The inductive invariant holds throughout every call of
\* ResilientExecutionEngine::execute.
THEOREM LifecycleInvariant == Spec => []LifecycleInv
<1>1. Init => LifecycleInv
  BY InitLifecycleInv
<1>2. LifecycleInv /\ [Next]_vars => LifecycleInv'
  BY NextLifecycleInv
<1> QED
  BY <1>1, <1>2, PTL DEF Spec

\* Whatever the route provider and the attempt executor do, execute keeps its
\* variables' types.
THEOREM TypeCorrect == Spec => []TypeOK
<1>1. LifecycleInv => TypeOK
  BY DEF LifecycleInv
<1> QED
  BY <1>1, LifecycleInvariant, PTL

\* execute never asks a node twice, even of a provider that returns nodes it
\* was told to leave out.
THEOREM NeverTwice == Spec => []NoNodeTwice
<1>1. LifecycleInv => NoNodeTwice
  BY DEF LifecycleInv
<1> QED
  BY <1>1, LifecycleInvariant, PTL

\* The exclusions execute hands to the provider are exactly the failed nodes.
THEOREM ExclusionsExact == Spec => []ExclusionExact
<1>1. LifecycleInv => ExclusionExact
  BY DEF LifecycleInv
<1> QED
  BY <1>1, LifecycleInvariant, PTL

\* A call of execute completes by an OK result for its own request, and its
\* result is that one.
THEOREM CompletionHasEvidence == Spec => []CompletedByEvidence
<1>1. LifecycleInv => CompletedByEvidence
  BY DEF LifecycleInv
<1> QED
  BY <1>1, LifecycleInvariant, PTL

\* execute makes no more attempts than it was told to.
THEOREM AttemptsLimited == Spec => []WithinAttemptLimit
<1>1. LifecycleInv => WithinAttemptLimit
  BY DEF LifecycleInv
<1> QED
  BY <1>1, LifecycleInvariant, PTL

\* What execute returns accounts for every attempt it made.
THEOREM AttemptsAccounted == Spec => []EveryAttemptAccounted
<1>1. LifecycleInv => EveryAttemptAccounted
  BY DEF LifecycleInv
<1> QED
  BY <1>1, LifecycleInvariant, PTL
-------------------------------------------------------------------------------
\* No step of a running call takes evidence back: attempts keep their place and
\* node, closed attempts their outcome, exclusions stay, a result is final.
LEMMA StepKeepsEvidence == LifecycleInv /\ [Next]_vars => [EvidenceStep]_vars
<1> SUFFICES ASSUME LifecycleInv, Next, pc # "idle" PROVE EvidenceStep
  BY DEF EvidenceStep
<1> DEFINE a == life.attempts
           n == Len(a)
<1>0. /\ life \in ExecutionStates /\ a \in Seq(Attempt) /\ n \in Nat
      /\ target \in Nodes \cup {Nothing}
  BY DEF LifecycleInv, TypeOK, ExecutionStates
<1>1. ASSUME life' = life PROVE EvidenceStep
  BY <1>0, <1>1 DEF EvidenceStep
<1>2. ASSUME NEW node \in Nodes \cup {EmptyId}, RouteSelected(node) PROVE EvidenceStep
  <2>1. CASE node \in life.excluded_nodes \/ BeginAttemptThrows(life, node)
    BY <1>1, <1>2, <2>1 DEF RouteSelected, Throw
  <2>2. CASE ~(node \in life.excluded_nodes \/ BeginAttemptThrows(life, node))
    <3>1. life' = BeginAttempt(life, node) /\ node \in Nodes /\ ~life.completed
      BY <1>2, <2>2 DEF RouteSelected, BeginAttemptThrows
    <3>2. /\ Len(life'.attempts) = n + 1
          /\ \A i \in 1..n : life'.attempts[i] = a[i]
          /\ life'.request_id = life.request_id
          /\ life'.excluded_nodes = life.excluded_nodes
      BY <1>0, <3>1, BeginAttemptFacts
    <3> HIDE DEF a, n
    <3>3. \A i \in 1..n : i <= n + 1
      BY <1>0
    <3> QED
      BY <3>1, <3>2, <3>3 DEF EvidenceStep, a, n
  <2> QED
    BY <2>1, <2>2
<1>3. ASSUME pc = "executing", ~life.completed,
             NEW node, NEW outcome \in AttemptOutcomes,
             life'.attempts = CloseLastAttempt(life, node, outcome),
             life.excluded_nodes \subseteq life'.excluded_nodes,
             life'.request_id = life.request_id
      PROVE  EvidenceStep
  <2>1. a[n].outcome = "IN_FLIGHT"
    BY <1>3 DEF LifecycleInv, LoopPosition
  <2>2. /\ Len(life'.attempts) = n
        /\ \A i \in 1..n : life'.attempts[i].node_id = a[i].node_id
        /\ \A i \in 1..n : i < n => life'.attempts[i] = a[i]
    BY <1>0, <1>3, CloseLastAttemptFacts
  <2> HIDE DEF a, n
  <2>3. \A i \in 1..n : i <= n /\ (i < n \/ i = n)
    BY <1>0
  <2> QED
    BY <1>3, <2>1, <2>2, <2>3 DEF EvidenceStep, a, n
<1>4. ASSUME NEW r \in JobResults, ResultReturned(r) PROVE EvidenceStep
  <2>1. CASE AcceptResultThrows(life, r)
    BY <1>1, <1>4, <2>1 DEF ResultReturned, Throw
  <2>2. CASE ~AcceptResultThrows(life, r)
    <3>1. life' = AcceptResult(life, r) /\ pc = "executing" /\ ~life.completed
      BY <1>4, <2>2 DEF ResultReturned, AcceptResultThrows
    <3>2. "OK" \in AttemptOutcomes
      BY DEF AttemptOutcomes
    <3>3. /\ life'.attempts = CloseLastAttempt(life, r.responder_node_id, "OK")
          /\ life'.excluded_nodes = life.excluded_nodes
          /\ life'.request_id = life.request_id
      BY <1>0, <3>1, AcceptResultFacts
    <3> QED
      BY <1>3, <3>1, <3>2, <3>3
  <2> QED
    BY <2>1, <2>2
<1>5. ASSUME NEW f \in FailureNotices, FailureReturned(f) PROVE EvidenceStep
  <2>1. CASE f.failed_node_id # target \/ AcceptFailureThrows(life, f)
    BY <1>1, <1>5, <2>1 DEF FailureReturned, Throw
  <2>2. CASE ~(f.failed_node_id # target \/ AcceptFailureThrows(life, f))
    <3>1. life' = AcceptFailure(life, f) /\ pc = "executing" /\ ~life.completed
      BY <1>5, <2>2 DEF FailureReturned, AcceptFailureThrows
    <3>2. f.failed_node_id \in Nodes
      BY <2>2, <3>1, TargetIsANode
    <3>3. "FAILED" \in AttemptOutcomes
      BY DEF AttemptOutcomes
    <3>4. /\ life'.attempts = CloseLastAttempt(life, f.failed_node_id, "FAILED")
          /\ life'.excluded_nodes = life.excluded_nodes \cup {f.failed_node_id}
          /\ life'.request_id = life.request_id
      BY <1>0, <3>1, <3>2, AcceptFailureFacts
    <3> QED
      BY <1>3, <3>1, <3>3, <3>4
  <2> QED
    BY <2>1, <2>2
<1>6. ASSUME RouteExhausted \/ NoTerminalEvidence \/ CallbackThrows PROVE EvidenceStep
  BY <1>1, <1>6 DEF RouteExhausted, NoTerminalEvidence, CallbackThrows, Throw
<1>7. ASSUME NEW rid \in RequestIds \cup {EmptyId}, Execute(rid) PROVE FALSE
  BY <1>7 DEF Execute
<1> QED
  BY <1>2, <1>4, <1>5, <1>6, <1>7 DEF Next

\* The evidence of a call only grows, up to what execute returns or throws away.
THEOREM EvidenceGrows == Spec => EvidenceOnlyGrows
<1>1. LifecycleInv /\ [Next]_vars => [EvidenceStep]_vars
  BY StepKeepsEvidence
<1> QED
  BY <1>1, LifecycleInvariant, PTL DEF Spec, EvidenceOnlyGrows
-------------------------------------------------------------------------------
\* The call before it starts is an abstract call that has tried nobody.
LEMMA InitImplements == Init => F!Init
BY DEF Init, NewExecution, F!Init, AbstractStatus

\* Failover counts with the same Cardinality.
LEMMA SameCardinality == \A S : F!Cardinality(S) = Cardinality(S)
BY DEF F!Cardinality, Cardinality, F!IsFiniteSet, IsFiniteSet

\* An exception is Abort.
LEMMA ThrowImplements ==
    ASSUME LifecycleInv, Throw, pc \in {"idle", "routing", "executing"}
    PROVE  F!Abort
BY DEF Throw, F!Abort, AbstractStatus

\* The chosen node is new, and fewer than MaxAttempts nodes have failed.
LEMMA RouteSelectedImplements ==
    ASSUME LifecycleInv, NEW node \in Nodes \cup {EmptyId}, RouteSelected(node)
    PROVE  F!Next
<1>1. pc = "routing" /\ life \in ExecutionStates
  BY DEF RouteSelected, LifecycleInv, TypeOK
<1>2. CASE node \in life.excluded_nodes \/ BeginAttemptThrows(life, node)
  BY <1>1, <1>2, ThrowImplements DEF RouteSelected, F!Next
<1>3. CASE ~(node \in life.excluded_nodes \/ BeginAttemptThrows(life, node))
  <2>1. /\ life' = BeginAttempt(life, node) /\ target' = node /\ pc' = "executing"
        /\ node \in Nodes /\ node \notin life.excluded_nodes
    BY <1>3 DEF RouteSelected, BeginAttemptThrows
  <2>2. life'.excluded_nodes = life.excluded_nodes
    BY <1>1, <2>1, BeginAttemptFacts
  <2>3. Cardinality(life.excluded_nodes) < MaxAttempts
    <3>1. Len(life.attempts) \in Nat
      BY <1>1 DEF ExecutionStates
    <3>2. Cardinality(life.excluded_nodes) = Len(life.attempts)
      BY <1>1 DEF LifecycleInv, ExclusionCount
    <3> QED
      BY <1>3, <3>1, <3>2, MaxAttemptsPositive DEF BeginAttemptThrows, Exhausted
  <2>4. F!Try(node)
    BY <1>1, <2>1, <2>2, <2>3, SameCardinality DEF F!Try, AbstractStatus
  <2> QED
    BY <2>1, <2>4 DEF F!Next
<1> QED
  BY <1>2, <1>3

\* An accepted result is the success of the node being tried.
LEMMA ResultReturnedImplements ==
    ASSUME LifecycleInv, NEW r \in JobResults, ResultReturned(r)
    PROVE  F!Next
<1>1. pc = "executing" /\ life \in ExecutionStates
  BY DEF ResultReturned, LifecycleInv, TypeOK
<1>2. CASE AcceptResultThrows(life, r)
  BY <1>1, <1>2, ThrowImplements DEF ResultReturned, F!Next
<1>3. CASE ~AcceptResultThrows(life, r)
  <2>1. life' = AcceptResult(life, r) /\ pc' = AfterIteration(life')
    BY <1>3 DEF ResultReturned
  <2>2. life'.excluded_nodes = life.excluded_nodes /\ life'.completed = TRUE
    BY <1>1, <2>1, AcceptResultFacts
  <2>3. pc' = "done"
    BY <2>1, <2>2 DEF AfterIteration, LoopContinues
  <2>4. target # Nothing
    BY <1>1, TargetIsANode, NothingIsNoValue
  <2>5. F!Succeed
    BY <1>1, <2>2, <2>3, <2>4 DEF F!Succeed, AbstractStatus
  <2> QED
    BY <2>5 DEF F!Next
<1> QED
  BY <1>2, <1>3

\* An accepted failure is the failure of the node being tried, and it ends the
\* abstract call exactly when it ends the loop.
LEMMA FailureReturnedImplements ==
    ASSUME LifecycleInv, LifecycleInv', NEW f \in FailureNotices, FailureReturned(f)
    PROVE  F!Next
<1>1. pc = "executing" /\ life \in ExecutionStates
  BY DEF FailureReturned, LifecycleInv, TypeOK
<1>2. CASE f.failed_node_id # target \/ AcceptFailureThrows(life, f)
  BY <1>1, <1>2, ThrowImplements DEF FailureReturned, F!Next
<1>3. CASE ~(f.failed_node_id # target \/ AcceptFailureThrows(life, f))
  <2>1. /\ life' = AcceptFailure(life, f) /\ pc' = AfterIteration(life')
        /\ f.failed_node_id = target /\ ~life.completed
    BY <1>3 DEF FailureReturned, AcceptFailureThrows
  <2>2. target \in Nodes /\ target # Nothing
    BY <1>1, TargetIsANode, NothingIsNoValue
  <2>3. /\ life'.excluded_nodes = life.excluded_nodes \cup {target}
        /\ ~life'.completed
        /\ life'.attempts = CloseLastAttempt(life, target, "FAILED")
    BY <1>1, <2>1, <2>2, AcceptFailureFacts
  <2>4. Len(life'.attempts) = Len(life.attempts) /\ Len(life.attempts) \in Nat
    <3>1. "FAILED" \in AttemptOutcomes
      BY DEF AttemptOutcomes
    <3> QED
      BY <1>1, <2>3, <3>1, CloseLastAttemptFacts DEF ExecutionStates
  <2>5. Cardinality(life'.excluded_nodes) = Len(life'.attempts)
    <3>1. IsFiniteSet(life.excluded_nodes) /\ Cardinality(life.excluded_nodes) + 1 = Len(life.attempts)
      BY <1>1 DEF LifecycleInv, ExclusionCount
    <3>2. target \notin life.excluded_nodes
      BY <1>1, TargetNotExcluded
    <3>3. Cardinality(life.excluded_nodes \cup {target}) = Cardinality(life.excluded_nodes) + 1
      BY <3>1, <3>2, FS_AddElement
    <3> QED
      BY <2>3, <2>4, <3>1, <3>3
  <2>6. Len(life'.attempts) <= MaxAttempts
    BY DEF LifecycleInv, WithinAttemptLimit
  <2>7. (pc' = "done") <=> (Cardinality(life'.excluded_nodes) = MaxAttempts)
    BY <2>1, <2>3, <2>4, <2>5, <2>6, MaxAttemptsPositive
       DEF AfterIteration, LoopContinues, Exhausted
  <2>8. pc' \in {"routing", "done"}
    BY <2>1 DEF AfterIteration
  <2>9. F!Fail
    BY <1>1, <2>2, <2>3, <2>7, <2>8, SameCardinality DEF F!Fail, AbstractStatus
  <2> QED
    BY <2>9 DEF F!Next
<1> QED
  BY <1>2, <1>3

\* Every step of the engine is a step of Failover or changes nothing there.
LEMMA NextImplements ==
    LifecycleInv /\ LifecycleInv' /\ [Next]_vars => [F!Next]_(F!fvars)
<1> SUFFICES ASSUME LifecycleInv, LifecycleInv', [Next]_vars
             PROVE  [F!Next]_(F!fvars)
  OBVIOUS
<1>1. ASSUME NEW rid \in RequestIds \cup {EmptyId}, Execute(rid) PROVE [F!Next]_(F!fvars)
  <2>1. CASE rid = EmptyId
    BY <1>1, <2>1, ThrowImplements DEF Execute, F!Next
  <2>2. CASE rid # EmptyId
    <3>1. pc = "idle" /\ life' = NewExecution(rid) /\ pc' = AfterIteration(life')
      BY <1>1, <2>2 DEF Execute
    <3>2. pc' = "routing"
      BY <3>1, MaxAttemptsPositive DEF NewExecution, AfterIteration, LoopContinues, Exhausted
    <3>3. life.excluded_nodes = {} /\ life'.excluded_nodes = {}
      BY <3>1 DEF LifecycleInv, LoopPosition, NewExecution
    <3> QED
      BY <3>1, <3>2, <3>3 DEF F!fvars, AbstractStatus
  <2> QED
    BY <2>1, <2>2
<1>2. CASE RouteExhausted
  <2>1. pc = "routing" /\ pc' = "done" /\ life' = life /\ ~life.completed
    BY <1>2 DEF RouteExhausted, LifecycleInv, LoopPosition, LoopContinues
  <2>2. F!NobodyLeft
    BY <2>1 DEF F!NobodyLeft, AbstractStatus
  <2> QED
    BY <2>2 DEF F!Next
<1>3. ASSUME NEW node \in Nodes \cup {EmptyId}, RouteSelected(node) PROVE F!Next
  BY <1>3, RouteSelectedImplements
<1>4. ASSUME NEW r \in JobResults, ResultReturned(r) PROVE F!Next
  BY <1>4, ResultReturnedImplements
<1>5. ASSUME NEW f \in FailureNotices, FailureReturned(f) PROVE F!Next
  BY <1>5, FailureReturnedImplements
<1>6. CASE NoTerminalEvidence \/ CallbackThrows
  BY <1>6, ThrowImplements DEF NoTerminalEvidence, CallbackThrows, F!Next
<1>7. CASE UNCHANGED vars
  BY <1>7 DEF vars, F!fvars, AbstractStatus
<1> QED
  BY <1>1, <1>2, <1>3, <1>4, <1>5, <1>6, <1>7 DEF Next

\* The engine implements the failover contract whatever its callbacks do.
THEOREM EngineImplementsFailover == Spec => ImplementsFailover
<1>1. Init => F!Init
  BY InitImplements
<1>2. LifecycleInv /\ LifecycleInv' /\ [Next]_vars => [F!Next]_(F!fvars)
  BY NextImplements
<1> QED
  BY <1>1, <1>2, LifecycleInvariant, PTL DEF Spec, ImplementsFailover, F!Spec
===============================================================================
