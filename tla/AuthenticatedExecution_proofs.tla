-------------------- MODULE AuthenticatedExecution_proofs --------------------
(***************************************************************************)
(* Proofs about AuthenticatedExecution, for any jobs, nodes, endpoints and *)
(* answers of faulty peers, and any number of concurrent calls.            *)
(*                                                                         *)
(* The invariant follows one request around: what a call says of its own   *)
(* attempts (CallSound), what has been handed to a peer or captured by one *)
(* (InboxSound), what a correct peer executed (ExecutedSound) and said     *)
(* (SentSound), and what can lie in a caller's receive buffer (Types,      *)
(* ReplySound).                                                            *)
(***************************************************************************)
EXTENDS AuthenticatedExecution, TLAPS

Attempts == [node_id : Nodes, outcome : AttemptOutcomes]

Lives ==
    [request_id     : {EmptyId} \cup {Job[j].request_id : j \in Jobs},
     attempts       : Seq(Attempts),
     excluded_nodes : SUBSET Nodes,
     completed      : BOOLEAN,
     result         : EvidenceResults \cup {Nothing}]

\* An answer in a receive buffer was said by a correct peer, to whomever, or was
\* made up by a faulty one.  No call is where an exception would have left it.
Types ==
    /\ pc \in [Jobs -> {"idle", "routing", "dialing", "awaiting", "done", "raised"}]
    /\ life \in [Jobs -> Lives]
    /\ target \in [Jobs -> Nodes \cup {Nothing}]
    /\ reply \in [Jobs -> {Nothing} \cup sent \cup FaultyMessages]

InAttempt(j) == pc[j] \in {"dialing", "awaiting"}

\* What a call's lifecycle says at each point of the loop.  Every attempt's node
\* is excluded, but for the one in progress and the one that succeeded.
CallSound(j) ==
    LET n == AttemptNo(j)
        node(i) == life[j].attempts[i].node_id
    IN  /\ IF pc[j] = "idle" THEN life[j] = NewExecution(EmptyId)
                             ELSE life[j].request_id = Job[j].request_id
        /\ pc[j] = "routing" => ~life[j].completed /\ n < MaxAttempts
        /\ pc[j] # "done" => ~life[j].completed
        /\ InAttempt(j) =>
               /\ target[j] \in Nodes \ life[j].excluded_nodes
               /\ n > 0 /\ life[j].attempts[n] = [node_id |-> target[j], outcome |-> "IN_FLIGHT"]
        /\ \A i \in 1..n : node(i) \in life[j].excluded_nodes \cup {target[j]}
        /\ ~InAttempt(j) /\ pc[j] # "raised" /\ ~life[j].completed =>
               \A i \in 1..n : node(i) \in life[j].excluded_nodes
        /\ \A i, k \in 1..n : i # k => node(i) # node(k)

CallsSound == \A j \in Jobs : CallSound(j)

\* Request r is the one attempt k of call j made, on node t.
MadeBy(r, j, k, t) ==
    /\ k \in 1..AttemptNo(j)
    /\ t = life[j].attempts[k].node_id
    /\ r = RequestOf(j, t)

\* A faulty peer can listen at t's address.
FaultyAt(t) == Endpoints[t] \ (Correct \cup {Nothing}) # {}

\* A delivery carries the request of an attempt; it came over the caller's own
\* connection to the address of the attempt's node, or from a faulty peer that
\* was handed it there.
DeliverySound(m) ==
    /\ m.job \in Jobs /\ m.listener \in Nodes
    /\ \E t \in Nodes :
          /\ MadeBy(m.request, m.job, m.attempt, t)
          /\ IF m.replay = 0 THEN m.listener \in Endpoints[t] ELSE FaultyAt(t)

InboxSound ==
    /\ \A m \in inbox \cup captured : DeliverySound(m)
    /\ \A m \in captured : m.replay = 0 /\ m.listener \notin Correct
    /\ replays \in Nat

ExecutionSound(e) ==
    /\ e = [node |-> e.node, request |-> e.request, attempt |-> e.attempt, replay |-> e.replay]
    /\ e.node \in Correct
    /\ \E j \in Jobs : MadeBy(e.request, j, e.attempt, e.node)
    /\ e.replay # 0 => FaultyAt(e.node)

ExecutedSound == \A e \in executed : ExecutionSound(e)

RemoteFailure(j, p) == Sign(FailureNotice(Job[j].request_id, p, p, "remote_execution_unavailable"), p)

SentSound ==
    \A m \in sent :
        \/ \E e \in executed : m = HandlerResult(e.node, e.request)
        \/ \E j \in Jobs, p \in Correct : m = RemoteFailure(j, p)

\* A correct node with nobody else at its address.
Alone(t) == t \in Correct /\ Endpoints[t] \subseteq {t, Nothing}

\* The answers a correct node t gives to the request job j made for it.
HonestAnswers(j, t) == {HandlerResult(t, RequestOf(j, t)), RemoteFailure(j, t)}

\* There is an answer only while one is awaited, and a node that is alone at its
\* address gave it itself, to the request of this attempt.
ReplySound ==
    \A j \in Jobs :
        reply[j] # Nothing =>
            /\ pc[j] = "awaiting"
            /\ Alone(target[j]) => reply[j] \in HonestAnswers(j, target[j])

ExecutionInv ==
    /\ Types /\ CallsSound
    /\ InboxSound /\ ExecutedSound /\ SentSound /\ ReplySound
    /\ ResultGenuine /\ CompletedOnAttemptedNode
--------------------------------------------------------------------------------
(* Messages *)

\* Two records of one record type that agree on the signature, every other field
\* having a single possible value, are the same: the fields of a signed message
\* are those of the message, and taking the signature off gives it back.
LEMMA NoticeFacts ==
    ASSUME NEW rid, NEW key, NEW failed, NEW reason
    PROVE  /\ Sign(FailureNotice(rid, key, failed, reason), key) \in
                  [type : {"FAILURE_NOTICE"}, request_id : {rid}, reporting_node_id : {key},
                   failed_node_id : {failed}, reason : {reason},
                   signature : {[key |-> key, over |-> FailureNotice(rid, key, failed, reason)]}]
           /\ [key |-> key, over |-> FailureNotice(rid, key, failed, reason)] # NoSignature
<1> DEFINE f == FailureNotice(rid, key, failed, reason)
           T == [type : {"FAILURE_NOTICE"}, request_id : {rid}, reporting_node_id : {key},
                 failed_node_id : {failed}, reason : {reason},
                 signature : {NoSignature, [key |-> key, over |-> f]}]
<1>1. f \in T /\ f.signature = NoSignature BY DEF FailureNotice
<1>2. NoSignature # [key |-> key, over |-> f] BY DEF NoSignature
<1> HIDE DEF f
<1>3. Unsigned(f) = f BY <1>1 DEF Unsigned
<1>4. Sign(f, key) \in T /\ Sign(f, key).signature = [key |-> key, over |-> f]
    BY <1>1, <1>3 DEF Sign
<1> QED BY <1>2, <1>4 DEF f

LEMMA RemoteFailureFacts ==
    ASSUME NEW j \in Jobs, NEW p
    PROVE  LET s == RemoteFailure(j, p)
           IN  /\ s.type = "FAILURE_NOTICE" /\ s.request_id = Job[j].request_id
               /\ s.reporting_node_id = p /\ s.failed_node_id = p
               /\ s.signature = [key |-> p, over |-> Unsigned(s)] /\ s.signature # NoSignature
<1> DEFINE rid == Job[j].request_id
           f == FailureNotice(rid, p, p, "remote_execution_unavailable")
           T == [type : {"FAILURE_NOTICE"}, request_id : {rid}, reporting_node_id : {p},
                 failed_node_id : {p}, reason : {"remote_execution_unavailable"},
                 signature : {NoSignature, [key |-> p, over |-> f]}]
<1> HIDE DEF rid
<1>1. f \in T /\ f.signature = NoSignature BY DEF FailureNotice
<1>2. NoSignature # [key |-> p, over |-> f] BY DEF NoSignature
<1> HIDE DEF f
<1>3. Unsigned(f) = f BY <1>1 DEF Unsigned
<1>4. Sign(f, p) \in T /\ Sign(f, p).signature = [key |-> p, over |-> f] BY <1>1, <1>3 DEF Sign
<1>5. Unsigned(Sign(f, p)) = f
    <2>1. Unsigned(Sign(f, p)) \in T /\ Unsigned(Sign(f, p)).signature = NoSignature
        BY <1>4 DEF Unsigned
    <2>2. ASSUME NEW x \in T, NEW y \in T, x.signature = y.signature PROVE x = y
        BY <2>2
    <2> QED BY <2>1, <2>2, <1>1
<1> QED BY <1>2, <1>4, <1>5 DEF RemoteFailure, f, rid

LEMMA RequestFacts ==
    ASSUME NEW j \in Jobs, NEW t \in Nodes
    PROVE  LET s == RequestOf(j, t)
           IN  /\ s.request_id = Job[j].request_id
               /\ s.sender_node_id = Job[j].sender_node_id /\ s.target_node_id = t
               /\ s.operation = Job[j].operation /\ s.payload = Job[j].payload
               /\ Unsigned(s) = JobRequest(Job[j], t)
               /\ s.signature = [key |-> Job[j].sender_node_id, over |-> Unsigned(s)]
               /\ s.signature # NoSignature
<1> DEFINE r == JobRequest(Job[j], t)
           job == Job[j]
           key == Job[j].sender_node_id
           T == [type : {"JOB_REQUEST"}, request_id : {job.request_id},
                 sender_node_id : {job.sender_node_id}, target_node_id : {t},
                 operation : {job.operation}, payload : {job.payload},
                 signature : {NoSignature, [key |-> key, over |-> r]}]
<1> HIDE DEF job, key
<1>1. r \in T /\ r.signature = NoSignature BY DEF JobRequest, job
<1>2. NoSignature # [key |-> key, over |-> r] BY DEF NoSignature
<1> HIDE DEF r
<1>3. Unsigned(r) = r BY <1>1 DEF Unsigned
<1>4. Sign(r, key) \in T /\ Sign(r, key).signature = [key |-> key, over |-> r]
    BY <1>1, <1>3 DEF Sign
<1>5. Unsigned(Sign(r, key)) = r
    <2>1. Unsigned(Sign(r, key)) \in T /\ Unsigned(Sign(r, key)).signature = NoSignature
        BY <1>4 DEF Unsigned
    <2>2. ASSUME NEW x \in T, NEW y \in T, x.signature = y.signature PROVE x = y
        BY <2>2
    <2> QED BY <2>1, <2>2, <1>1
<1> QED BY <1>2, <1>4, <1>5 DEF RequestOf, r, job, key

LEMMA AnswerFacts ==
    ASSUME NEW j \in Jobs, NEW p \in Nodes
    PROVE  LET s == HandlerResult(p, RequestOf(j, p))
           IN  /\ s.type = "JOB_RESULT" /\ s.request_id = Job[j].request_id
               /\ s.responder_node_id = p /\ s.recipient_node_id = Job[j].sender_node_id
               /\ s.status = "OK" /\ s.payload = ReferencePayload(RequestOf(j, p))
               /\ s.signature = [key |-> p, over |-> Unsigned(s)] /\ s.signature # NoSignature
<1> DEFINE rid == Job[j].request_id
           sender == Job[j].sender_node_id
           payload == ReferencePayload(RequestOf(j, p))
           r == JobResult(rid, p, sender, "OK", payload)
           T == [type : {"JOB_RESULT"}, request_id : {rid}, responder_node_id : {p},
                 recipient_node_id : {sender}, status : {"OK"}, payload : {payload},
                 signature : {NoSignature, [key |-> p, over |-> r]}]
<1>0. HandlerResult(p, RequestOf(j, p)) = Sign(r, p) BY RequestFacts DEF HandlerResult
<1> HIDE DEF rid, sender, payload
<1>1. r \in T /\ r.signature = NoSignature BY DEF JobResult
<1>2. NoSignature # [key |-> p, over |-> r] BY DEF NoSignature
<1> HIDE DEF r
<1>3. Unsigned(r) = r BY <1>1 DEF Unsigned
<1>4. Sign(r, p) \in T /\ Sign(r, p).signature = [key |-> p, over |-> r] BY <1>1, <1>3 DEF Sign
<1>5. Unsigned(Sign(r, p)) = r
    <2>1. Unsigned(Sign(r, p)) \in T /\ Unsigned(Sign(r, p)).signature = NoSignature
        BY <1>4 DEF Unsigned
    <2>2. ASSUME NEW x \in T, NEW y \in T, x.signature = y.signature PROVE x = y
        BY <2>2
    <2> QED BY <2>1, <2>2, <1>1
<1> QED BY <1>0, <1>2, <1>4, <1>5 DEF rid, sender, payload

\* Requests of different jobs differ, and so do requests for different targets.
LEMMA RequestsDiffer ==
    ASSUME NEW i \in Jobs, NEW j \in Jobs, NEW s \in Nodes, NEW t \in Nodes
    PROVE  RequestOf(i, s) = RequestOf(j, t) => i = j /\ s = t
<1> DEFINE x == RequestOf(i, s)
           y == RequestOf(j, t)
<1>1. /\ x.request_id = Job[i].request_id /\ x.sender_node_id = Job[i].sender_node_id
      /\ x.operation = Job[i].operation /\ x.payload = Job[i].payload
      /\ x.target_node_id = s
    BY RequestFacts
<1>2. /\ y.request_id = Job[j].request_id /\ y.sender_node_id = Job[j].sender_node_id
      /\ y.operation = Job[j].operation /\ y.payload = Job[j].payload
      /\ y.target_node_id = t
    BY RequestFacts
<1> HIDE DEF x, y
<1>3. ASSUME x = y PROVE Job[i] = Job[j] BY <1>1, <1>2, <1>3, JobsAreDistinct
<1>4. x = y => i = j /\ s = t BY <1>1, <1>2, <1>3, JobsAreDistinct
<1> QED BY <1>4 DEF x, y

\* A faulty peer signs with the key of no correct one.
LEMMA FaultySignatures ==
    ASSUME NEW m \in FaultyMessages
    PROVE  m.signature = NoSignature \/ m.signature.key \in Nodes \ Correct
<1>1. PICK p \in Nodes \ Correct, req \in Requests : m \in FaultyReplies(p, req)
    BY DEF FaultyMessages
<1>2. PICK j \in Jobs, t \in Nodes : req = JobRequest(Job[j], t) BY DEF Requests
<1> QED BY <1>1, <1>2, NoForgery

\* The handler's answer depends on the request, not on its signature.
LEMMA AnswerIsEvidence ==
    ASSUME NEW j \in Jobs, NEW p \in Nodes
    PROVE  /\ HandlerResult(p, RequestOf(j, p)) \in EvidenceResults
           /\ RemoteFailure(j, p) \in EvidenceNotices \/ p \notin Correct
<1> DEFINE req == JobRequest(Job[j], p)
           s == RequestOf(j, p)
<1>1. req \in Requests BY DEF Requests
<1>2. /\ req.request_id = Job[j].request_id /\ req.sender_node_id = Job[j].sender_node_id
      /\ req.operation = Job[j].operation /\ req.payload = Job[j].payload
      /\ req.target_node_id = p
    BY DEF JobRequest
<1>3. /\ s.request_id = Job[j].request_id /\ s.sender_node_id = Job[j].sender_node_id
      /\ s.operation = Job[j].operation /\ s.payload = Job[j].payload
    BY RequestFacts
<1> HIDE DEF req, s
<1>4. HandlerResult(p, s) = HandlerResult(req.target_node_id, req)
    BY <1>2, <1>3 DEF HandlerResult, ReferencePayload
<1>5. HandlerResult(p, s) \in EvidenceResults BY <1>1, <1>4 DEF EvidenceResults
<1> QED BY <1>5 DEF s, RemoteFailure, EvidenceNotices
--------------------------------------------------------------------------------
(* The lifecycle's mutators *)

LEMMA BeginAttemptFacts ==
    ASSUME NEW st \in Lives, NEW node \in Nodes
    PROVE  LET b == BeginAttempt(st, node)
               n == Len(st.attempts)
           IN  /\ b \in Lives
               /\ n \in Nat /\ Len(b.attempts) = n + 1
               /\ \A i \in 1..n : b.attempts[i] = st.attempts[i]
               /\ b.attempts[n + 1] = [node_id |-> node, outcome |-> "IN_FLIGHT"]
               /\ b.request_id = st.request_id /\ b.excluded_nodes = st.excluded_nodes
               /\ b.completed = st.completed
<1> DEFINE a == [node_id |-> node, outcome |-> "IN_FLIGHT"]
           longer == Append(st.attempts, a)
<1>1. st.attempts \in Seq(Attempts) /\ a \in Attempts BY DEF Lives, Attempts, AttemptOutcomes
<1>2. BeginAttempt(st, node) = [st EXCEPT !.attempts = longer] BY DEF BeginAttempt
<1> HIDE DEF a
<1>3. /\ longer \in Seq(Attempts) /\ Len(st.attempts) \in Nat
      /\ Len(longer) = Len(st.attempts) + 1
      /\ \A i \in 1..Len(st.attempts) : longer[i] = st.attempts[i]
      /\ longer[Len(st.attempts) + 1] = a
    BY <1>1
<1> HIDE DEF longer
<1>4. BeginAttempt(st, node) \in Lives BY <1>2, <1>3 DEF Lives
<1>5. /\ BeginAttempt(st, node).attempts = longer
      /\ BeginAttempt(st, node).request_id = st.request_id
      /\ BeginAttempt(st, node).excluded_nodes = st.excluded_nodes
      /\ BeginAttempt(st, node).completed = st.completed
    BY <1>2 DEF Lives
<1> QED BY <1>3, <1>4, <1>5 DEF a

\* Evidence about the node of the last attempt sets that attempt's outcome.
LEMMA CloseAttemptFacts ==
    ASSUME NEW st \in Lives, NEW outcome \in AttemptOutcomes, st.attempts # <<>>
    PROVE  LET n == Len(st.attempts)
               c == CloseLastAttempt(st, st.attempts[n].node_id, outcome)
           IN  /\ n \in Nat /\ n > 0
               /\ c \in Seq(Attempts) /\ Len(c) = n
               /\ \A i \in 1..n : c[i].node_id = st.attempts[i].node_id
               /\ c[n] = [node_id |-> st.attempts[n].node_id, outcome |-> outcome]
<1> DEFINE n == Len(st.attempts)
           a == [st.attempts[n] EXCEPT !.outcome = outcome]
           c == [st.attempts EXCEPT ![n].outcome = outcome]
<1>1. st.attempts \in Seq(Attempts) /\ n \in Nat /\ n > 0 BY DEF Lives
<1>2. CloseLastAttempt(st, st.attempts[n].node_id, outcome) = c BY DEF CloseLastAttempt, LastAttemptOn
<1>3. st.attempts[n] \in Attempts BY <1>1
<1>4. a \in Attempts /\ a.node_id = st.attempts[n].node_id /\ a.outcome = outcome
    BY <1>3 DEF Attempts
<1>5. a = [node_id |-> st.attempts[n].node_id, outcome |-> outcome] BY <1>4 DEF Attempts
<1>6. c = [st.attempts EXCEPT ![n] = a] OBVIOUS
<1> HIDE DEF a
<1>7. /\ c \in Seq(Attempts) /\ Len(c) = n /\ c[n] = a
      /\ \A i \in 1..n : i # n => c[i] = st.attempts[i]
    BY <1>1, <1>4, <1>6
<1> HIDE DEF c
<1> QED BY <1>1, <1>2, <1>4, <1>5, <1>7

LEMMA AcceptFacts ==
    ASSUME NEW st \in Lives, st.attempts # <<>>, NEW evidence
    PROVE  LET n == Len(st.attempts)
               node == st.attempts[n].node_id
               f == AcceptFailure(st, evidence)
               r == AcceptResult(st, evidence)
           IN  /\ evidence.failed_node_id = node =>
                      /\ f \in Lives
                      /\ f.attempts = CloseLastAttempt(st, node, "FAILED")
                      /\ f.excluded_nodes = st.excluded_nodes \cup {node}
                      /\ f.request_id = st.request_id /\ f.completed = st.completed
               /\ evidence \in EvidenceResults /\ evidence.responder_node_id = node =>
                      /\ r \in Lives
                      /\ r.attempts = CloseLastAttempt(st, node, "OK")
                      /\ r.excluded_nodes = st.excluded_nodes
                      /\ r.request_id = st.request_id /\ r.completed /\ r.result = evidence
<1> DEFINE n == Len(st.attempts)
           node == st.attempts[n].node_id
           failed == CloseLastAttempt(st, node, "FAILED")
           ok == CloseLastAttempt(st, node, "OK")
<1>1. failed \in Seq(Attempts) /\ ok \in Seq(Attempts) BY CloseAttemptFacts DEF AttemptOutcomes
<1>2. node \in Nodes
    <2>1. n \in Nat /\ n > 0 BY CloseAttemptFacts DEF AttemptOutcomes
    <2>2. st.attempts[n] \in Attempts BY <2>1 DEF Lives
    <2> QED BY <2>2 DEF Attempts
<1>3. ASSUME evidence.failed_node_id = node
      PROVE  AcceptFailure(st, evidence) =
                 [st EXCEPT !.excluded_nodes = st.excluded_nodes \cup {node}, !.attempts = failed]
    BY <1>3 DEF AcceptFailure
<1>4. ASSUME evidence.responder_node_id = node
      PROVE  AcceptResult(st, evidence) =
                 [st EXCEPT !.attempts = ok, !.result = evidence, !.completed = TRUE]
    BY <1>4 DEF AcceptResult
<1> HIDE DEF node, failed, ok
<1>5. ASSUME evidence.failed_node_id = node
      PROVE  /\ AcceptFailure(st, evidence) \in Lives
             /\ AcceptFailure(st, evidence).attempts = failed
             /\ AcceptFailure(st, evidence).excluded_nodes = st.excluded_nodes \cup {node}
             /\ AcceptFailure(st, evidence).request_id = st.request_id
             /\ AcceptFailure(st, evidence).completed = st.completed
    <2> DEFINE f == AcceptFailure(st, evidence)
    <2>1. f = [st EXCEPT !.excluded_nodes = st.excluded_nodes \cup {node}, !.attempts = failed]
        BY <1>3, <1>5
    <2> HIDE DEF f
    <2>2. st.excluded_nodes \cup {node} \in SUBSET Nodes BY <1>2 DEF Lives
    <2>3. f \in Lives BY <1>1, <2>1, <2>2 DEF Lives
    <2>4. /\ f.attempts = failed /\ f.excluded_nodes = st.excluded_nodes \cup {node}
          /\ f.request_id = st.request_id /\ f.completed = st.completed
        BY <2>1 DEF Lives
    <2> QED BY <2>3, <2>4 DEF f
<1>6. ASSUME evidence \in EvidenceResults, evidence.responder_node_id = node
      PROVE  /\ AcceptResult(st, evidence) \in Lives
             /\ AcceptResult(st, evidence).attempts = ok
             /\ AcceptResult(st, evidence).excluded_nodes = st.excluded_nodes
             /\ AcceptResult(st, evidence).request_id = st.request_id
             /\ AcceptResult(st, evidence).completed
             /\ AcceptResult(st, evidence).result = evidence
    BY <1>1, <1>4, <1>6 DEF Lives
<1> QED BY <1>5, <1>6 DEF node, failed, ok
--------------------------------------------------------------------------------
(* What the executor hands to the engine *)

\* A correct node that answered has executed a request of this sender with this
\* identifier, and the payload is what came out of it.
Genuine(j, r) ==
    r.responder_node_id \in Correct =>
        \E e \in executed :
            /\ e.node = r.responder_node_id
            /\ e.request.request_id = Job[j].request_id
            /\ e.request.sender_node_id = Job[j].sender_node_id
            /\ r.payload = ReferencePayload(e.request)

GoodResult(j, r) ==
    /\ r.type = "JOB_RESULT" /\ ResultContract(j, r)
    /\ r.signature # NoSignature
    /\ r \in EvidenceResults /\ Genuine(j, r)

GoodNotice(j, f) ==
    /\ f.type = "FAILURE_NOTICE" /\ f.request_id = Job[j].request_id
    /\ f.failed_node_id = target[j] /\ f.signature # NoSignature
    /\ f \in EvidenceNotices

LEMMA LocalFailureIsGood ==
    ASSUME NEW j \in Jobs, target[j] \in Nodes, NEW reason \in LocalReasons
    PROVE  GoodNotice(j, LocalFailure(j, reason))
<1> DEFINE f == LocalFailure(j, reason)
<1>1. /\ f.type = "FAILURE_NOTICE" /\ f.request_id = Job[j].request_id
      /\ f.failed_node_id = target[j] /\ f.signature # NoSignature
    <2> DEFINE over == FailureNotice(Job[j].request_id, Job[j].sender_node_id, target[j], reason)
               sig == [key |-> Job[j].sender_node_id, over |-> over]
    <2>1. sig # NoSignature BY DEF NoSignature
    <2>2. f \in [type : {"FAILURE_NOTICE"}, request_id : {Job[j].request_id},
                 reporting_node_id : {Job[j].sender_node_id}, failed_node_id : {target[j]},
                 reason : {reason}, signature : {sig}]
        BY NoticeFacts DEF LocalFailure
    <2> HIDE DEF sig, f
    <2> QED BY <2>1, <2>2
<1>2. f \in EvidenceNotices BY DEF EvidenceNotices, LocalFailure
<1> QED BY <1>1, <1>2 DEF GoodNotice

\* An answer that some correct peer gave is evidence, and if it is a result the
\* node it names executed the request it answers.
LEMMA SentIsEvidence ==
    ASSUME ExecutedSound, SentSound, NEW m \in sent
    PROVE  /\ m.type = "JOB_RESULT" =>
                  /\ m \in EvidenceResults
                  /\ \E e \in executed :
                        /\ e.node = m.responder_node_id
                        /\ e.request.request_id = m.request_id
                        /\ e.request.sender_node_id = m.recipient_node_id
                        /\ m.payload = ReferencePayload(e.request)
           /\ m.type = "FAILURE_NOTICE" => m \in EvidenceNotices
<1>1. ASSUME NEW e \in executed, m = HandlerResult(e.node, e.request)
      PROVE  /\ m.type = "JOB_RESULT" /\ m \in EvidenceResults
             /\ e.node = m.responder_node_id
             /\ e.request.request_id = m.request_id
             /\ e.request.sender_node_id = m.recipient_node_id
             /\ m.payload = ReferencePayload(e.request)
    <2>1. PICK j \in Jobs : e.request = RequestOf(j, e.node)
        BY DEF ExecutedSound, ExecutionSound, MadeBy
    <2>2. e.node \in Nodes BY CorrectAreNodes DEF ExecutedSound, ExecutionSound
    <2>3. m = HandlerResult(e.node, RequestOf(j, e.node)) BY <1>1, <2>1
    <2>4. m \in EvidenceResults BY <2>2, <2>3, AnswerIsEvidence
    <2>5. /\ m.type = "JOB_RESULT" /\ m.request_id = Job[j].request_id
          /\ m.responder_node_id = e.node /\ m.recipient_node_id = Job[j].sender_node_id
          /\ m.payload = ReferencePayload(RequestOf(j, e.node))
        BY <2>2, <2>3, AnswerFacts
    <2>6. /\ e.request.request_id = Job[j].request_id
          /\ e.request.sender_node_id = Job[j].sender_node_id
        <3>1. /\ RequestOf(j, e.node).request_id = Job[j].request_id
              /\ RequestOf(j, e.node).sender_node_id = Job[j].sender_node_id
            BY <2>2, RequestFacts
        <3> QED BY <2>1, <3>1
    <2> QED BY <2>1, <2>4, <2>5, <2>6
<1>2. ASSUME NEW j \in Jobs, NEW p \in Correct, m = RemoteFailure(j, p)
      PROVE  m.type = "FAILURE_NOTICE" /\ m \in EvidenceNotices
    <2>1. p \in Nodes BY CorrectAreNodes
    <2>2. m.type = "FAILURE_NOTICE"
        <3>1. RemoteFailure(j, p).type = "FAILURE_NOTICE" BY <2>1, NoticeFacts DEF RemoteFailure
        <3> QED BY <1>2, <3>1
    <2> QED BY <1>2, <2>1, <2>2, AnswerIsEvidence
<1> QED BY <1>1, <1>2 DEF SentSound

LEMMA FaultyIsEvidence ==
    ASSUME NEW m \in FaultyMessages
    PROVE  /\ m.type = "JOB_RESULT" => m \in EvidenceResults
           /\ m.type = "FAILURE_NOTICE" => m \in EvidenceNotices
BY DEF EvidenceResults, EvidenceNotices

\* Whatever lies in the receive buffer, the executor returns a result or a notice
\* that the engine will accept, and a result of a correct node is genuine.
LEMMA JudgedIsGood ==
    ASSUME ExecutionInv, NEW j \in Jobs, target[j] \in Nodes, NEW m \in sent \cup FaultyMessages
    PROVE  \/ GoodResult(j, Judged(j, m)) /\ Judged(j, m) = m
           \/ GoodNotice(j, Judged(j, m))
<1> USE DEF ExecutionInv
<1>1. CASE m.type = "JOB_RESULT" /\ ResultContract(j, m)
    <2>1. CASE Verifies(m, PublicKey(m.responder_node_id))
        <3>1. Judged(j, m) = m BY <1>1, <2>1 DEF Judged
        <3>2. m.signature # NoSignature BY <2>1 DEF Verifies
        <3>3. m \in EvidenceResults BY <1>1, SentIsEvidence, FaultyIsEvidence
        <3>4. Genuine(j, m)
            <4> SUFFICES ASSUME m.responder_node_id \in Correct PROVE Genuine(j, m)
                BY DEF Genuine
            <4>1. m.signature = [key |-> m.responder_node_id, over |-> Unsigned(m)]
                BY <2>1 DEF Verifies, PublicKey
            <4>2. m.signature.key = m.responder_node_id BY <4>1
            <4>3. m \in sent BY <3>2, <4>2, FaultySignatures
            <4>4. PICK e \in executed :
                      /\ e.node = m.responder_node_id
                      /\ e.request.request_id = m.request_id
                      /\ e.request.sender_node_id = m.recipient_node_id
                      /\ m.payload = ReferencePayload(e.request)
                BY <1>1, <4>3, SentIsEvidence
            <4> QED BY <1>1, <4>4 DEF Genuine, ResultContract
        <3> QED BY <1>1, <3>1, <3>2, <3>3, <3>4 DEF GoodResult
    <2>2. CASE ~Verifies(m, PublicKey(m.responder_node_id))
        <3>1. Judged(j, m) = LocalFailure(j, "invalid_result_signature")
            BY <1>1, <2>2 DEF Judged
        <3> QED BY <3>1, LocalFailureIsGood DEF LocalReasons
    <2> QED BY <2>1, <2>2
<1>2. CASE m.type = "FAILURE_NOTICE" /\ NoticeContract(j, m)
    <2>1. CASE Verifies(m, PublicKey(m.reporting_node_id))
        <3>1. Judged(j, m) = m BY <1>2, <2>1 DEF Judged
        <3>2. m.signature # NoSignature BY <2>1 DEF Verifies
        <3>3. m \in EvidenceNotices BY <1>2, SentIsEvidence, FaultyIsEvidence
        <3> QED BY <1>2, <3>1, <3>2, <3>3 DEF GoodNotice, NoticeContract
    <2>2. CASE ~Verifies(m, PublicKey(m.reporting_node_id))
        <3>1. Judged(j, m) = LocalFailure(j, "invalid_failure_signature")
            BY <1>2, <2>2 DEF Judged
        <3> QED BY <3>1, LocalFailureIsGood DEF LocalReasons
    <2> QED BY <2>1, <2>2
<1>3. CASE m.type = "JOB_RESULT" /\ ~ResultContract(j, m)
    <2>1. Judged(j, m) = LocalFailure(j, "invalid_result_contract") BY <1>3 DEF Judged
    <2> QED BY <2>1, LocalFailureIsGood DEF LocalReasons
<1>4. CASE m.type = "FAILURE_NOTICE" /\ ~NoticeContract(j, m)
    <2>1. Judged(j, m) = LocalFailure(j, "invalid_failure_contract") BY <1>4 DEF Judged
    <2> QED BY <2>1, LocalFailureIsGood DEF LocalReasons
<1>5. CASE m.type # "JOB_RESULT" /\ m.type # "FAILURE_NOTICE"
    <2>1. Judged(j, m) = LocalFailure(j, "unsupported_response_type") BY <1>5 DEF Judged
    <2> QED BY <2>1, LocalFailureIsGood DEF LocalReasons
<1> QED BY <1>1, <1>2, <1>3, <1>4, <1>5
--------------------------------------------------------------------------------
(* What a step leaves alone *)

\* No attempt is taken back or moved to another node.
NodesKept ==
    \A j \in Jobs :
        /\ AttemptNo(j) \in Nat /\ AttemptNo(j)' \in Nat /\ AttemptNo(j) <= AttemptNo(j)'
        /\ \A k \in 1..AttemptNo(j) : life'[j].attempts[k].node_id = life[j].attempts[k].node_id

LEMMA MadeByKept ==
    ASSUME NodesKept, NEW j \in Jobs, NEW r, NEW k, NEW t, MadeBy(r, j, k, t)
    PROVE  MadeBy(r, j, k, t)'
<1>1. k \in 1..AttemptNo(j)' BY DEF NodesKept, MadeBy
<1>2. t = life'[j].attempts[k].node_id BY DEF NodesKept, MadeBy
<1> QED BY <1>1, <1>2 DEF MadeBy, RequestOf

\* What was handed over or executed stays an attempt's request.
LEMMA DeliveryKept ==
    ASSUME NodesKept, NEW m, DeliverySound(m)
    PROVE  DeliverySound(m)'
<1>1. m.job \in Jobs /\ m.listener \in Nodes BY DEF DeliverySound
<1>2. PICK t \in Nodes : /\ MadeBy(m.request, m.job, m.attempt, t)
                         /\ IF m.replay = 0 THEN m.listener \in Endpoints[t] ELSE FaultyAt(t)
    BY DEF DeliverySound
<1>3. MadeBy(m.request, m.job, m.attempt, t)' BY <1>1, <1>2, MadeByKept
<1> QED BY <1>1, <1>2, <1>3 DEF DeliverySound, FaultyAt

LEMMA ExecutionKept ==
    ASSUME NodesKept, NEW e, ExecutionSound(e)
    PROVE  ExecutionSound(e)'
<1>1. PICK j \in Jobs : MadeBy(e.request, j, e.attempt, e.node) BY DEF ExecutionSound
<1>2. MadeBy(e.request, j, e.attempt, e.node)' BY <1>1, MadeByKept
<1>3. /\ e = [node |-> e.node, request |-> e.request, attempt |-> e.attempt, replay |-> e.replay]
      /\ e.node \in Correct /\ (e.replay # 0 => FaultyAt(e.node))
    BY DEF ExecutionSound
<1> QED BY <1>2, <1>3 DEF ExecutionSound, FaultyAt

\* The peers' part of the invariant survives a step of a caller, and a request
\* that is handled and leaves nothing behind.
LEMMA PeersKept ==
    ASSUME ExecutionInv, NodesKept, inbox' \subseteq inbox,
           UNCHANGED <<captured, replays, executed, sent>>
    PROVE  InboxSound' /\ ExecutedSound' /\ SentSound'
<1> USE DEF ExecutionInv
<1>1. InboxSound' BY DeliveryKept DEF InboxSound
<1>2. ExecutedSound' BY ExecutionKept DEF ExecutedSound
<1>3. SentSound' BY DEF SentSound
<1> QED BY <1>1, <1>2, <1>3

\* An answer stays what it is where neither it nor its call moves.
LEMMA ReplyKept ==
    ASSUME ExecutionInv,
           \A i \in Jobs : \/ reply'[i] = Nothing
                           \/ reply'[i] = reply[i] /\ pc'[i] = pc[i] /\ target'[i] = target[i]
    PROVE  ReplySound'
<1> SUFFICES ASSUME NEW i \in Jobs, reply'[i] # Nothing
             PROVE  /\ pc'[i] = "awaiting"
                    /\ Alone(target'[i]) => reply'[i] \in HonestAnswers(i, target'[i])
    BY DEF ReplySound, Alone, HonestAnswers, HandlerResult, RequestOf, RemoteFailure
<1>1. reply'[i] = reply[i] /\ pc'[i] = pc[i] /\ target'[i] = target[i] OBVIOUS
<1> QED BY <1>1 DEF ExecutionInv, ReplySound

\* What is said of completed calls survives a step that completes none.
LEMMA CompletedKept ==
    ASSUME ResultGenuine, CompletedOnAttemptedNode, executed \subseteq executed',
           \A j \in Jobs : life'[j].completed => life'[j] = life[j]
    PROVE  ResultGenuine' /\ CompletedOnAttemptedNode'
<1>1. ResultGenuine' BY DEF ResultGenuine
<1>2. CompletedOnAttemptedNode' BY DEF CompletedOnAttemptedNode, AttemptNo
<1> QED BY <1>1, <1>2

LEMMA CallUnchanged ==
    ASSUME NEW j \in Jobs, CallSound(j),
           pc'[j] = pc[j], life'[j] = life[j], target'[j] = target[j]
    PROVE  CallSound(j)'
BY DEF CallSound, InAttempt, AttemptNo

LEMMA LifeFacts ==
    ASSUME Types, NEW j \in Jobs
    PROVE  /\ life[j] \in Lives /\ life[j].attempts \in Seq(Attempts) /\ AttemptNo(j) \in Nat
           /\ life[j].completed \in BOOLEAN
BY DEF Types, Lives, AttemptNo
--------------------------------------------------------------------------------
(* The steps of a caller *)

LEMMA NewExecutionFacts ==
    ASSUME NEW rid \in {EmptyId} \cup {Job[j].request_id : j \in Jobs}
    PROVE  /\ NewExecution(rid) \in Lives
           /\ NewExecution(rid).attempts = <<>> /\ NewExecution(rid).request_id = rid
           /\ ~NewExecution(rid).completed
BY DEF NewExecution, Lives

LEMMA InitExecution == Init => ExecutionInv
<1> SUFFICES ASSUME Init PROVE ExecutionInv OBVIOUS
<1>1. NewExecution(EmptyId) \in Lives /\ ~NewExecution(EmptyId).completed
        /\ NewExecution(EmptyId).attempts = <<>>
    BY NewExecutionFacts
<1>2. Types BY <1>1 DEF Init, Types
<1>3. CallsSound
    <2> SUFFICES ASSUME NEW j \in Jobs PROVE CallSound(j) BY DEF CallsSound
    <2>1. life[j] = NewExecution(EmptyId) /\ pc[j] = "idle" /\ AttemptNo(j) = 0
        BY <1>1 DEF Init, AttemptNo
    <2> QED BY <1>1, <2>1 DEF CallSound, InAttempt
<1>4. InboxSound /\ ExecutedSound /\ SentSound /\ ReplySound
    BY DEF Init, InboxSound, ExecutedSound, SentSound, ReplySound
<1>5. \A j \in Jobs : ~life[j].completed BY <1>1 DEF Init
<1>6. ResultGenuine /\ CompletedOnAttemptedNode BY <1>5 DEF ResultGenuine, CompletedOnAttemptedNode
<1> QED BY <1>2, <1>3, <1>4, <1>6 DEF ExecutionInv

LEMMA SubmitKeeps == ASSUME ExecutionInv, NEW j \in Jobs, Submit(j) PROVE ExecutionInv'
<1> USE DEF ExecutionInv
<1> DEFINE new == NewExecution(Job[j].request_id)
<1>1. new \in Lives /\ ~new.completed /\ new.attempts = <<>> /\ new.request_id = Job[j].request_id
    BY NewExecutionFacts
<1>2. life[j] = NewExecution(EmptyId) BY DEF Submit, CallsSound, CallSound
<1>3. life[j].attempts = <<>> BY <1>2, NewExecutionFacts
<1>4. life' = [life EXCEPT ![j] = new] /\ life'[j] = new BY DEF Submit, Types
<1> HIDE DEF new
<1>5. AfterIteration(new) = "routing"
    BY <1>1, MaxAttemptsPositive DEF AfterIteration, LoopContinues, Exhausted
<1>6. pc' = [pc EXCEPT ![j] = "routing"] BY <1>4, <1>5 DEF Submit
<1>7. UNCHANGED <<target, reply, inbox, captured, replays, executed, sent>> BY DEF Submit, peerVars
<1>8. Types' BY <1>1, <1>4, <1>6, <1>7 DEF Types
<1>9. CallsSound'
    <2> SUFFICES ASSUME NEW i \in Jobs PROVE CallSound(i)' BY DEF CallsSound
    <2>1. CASE i = j
        <3>1. pc'[j] = "routing" /\ AttemptNo(j)' = 0 BY <1>1, <1>4, <1>6 DEF Types, AttemptNo
        <3> QED BY <2>1, <3>1, <1>1, <1>4, MaxAttemptsPositive DEF CallSound, InAttempt
    <2>2. CASE i # j BY <2>2, <1>4, <1>6, <1>7, CallUnchanged DEF CallsSound, Types
    <2> QED BY <2>1, <2>2
<1>10. NodesKept BY <1>1, <1>3, <1>4, LifeFacts, <1>8 DEF NodesKept, AttemptNo, Types
<1>11. InboxSound' /\ ExecutedSound' /\ SentSound' BY <1>7, <1>10, PeersKept
<1>12. ResultGenuine' /\ CompletedOnAttemptedNode'
    BY <1>1, <1>4, <1>7, CompletedKept DEF Types
<1>13. ReplySound'
    <2>1. reply[j] = Nothing BY DEF Submit, ReplySound
    <2> QED BY <1>6, <1>7, <2>1, ReplyKept DEF Types
<1> QED BY <1>8, <1>9, <1>11, <1>12, <1>13

LEMMA NoRouteKeeps == ASSUME ExecutionInv, NEW j \in Jobs, NoRoute(j) PROVE ExecutionInv'
<1> USE DEF ExecutionInv
<1>1. /\ pc[j] = "routing" /\ pc' = [pc EXCEPT ![j] = "done"]
      /\ UNCHANGED <<life, target, reply, inbox, captured, replays, executed, sent>>
    BY DEF NoRoute, peerVars
<1>2. Types' BY <1>1 DEF Types
<1>3. CallsSound'
    <2> SUFFICES ASSUME NEW i \in Jobs PROVE CallSound(i)' BY DEF CallsSound
    <2>1. CASE i = j
        <3>1. CallSound(j) /\ pc'[j] = "done" BY <1>1 DEF CallsSound, Types
        <3> QED BY <1>1, <2>1, <3>1 DEF CallSound, InAttempt, AttemptNo
    <2>2. CASE i # j BY <2>2, <1>1, CallUnchanged DEF CallsSound, Types
    <2> QED BY <2>1, <2>2
<1>4. NodesKept BY <1>1, LifeFacts DEF NodesKept, AttemptNo
<1>5. InboxSound' /\ ExecutedSound' /\ SentSound' BY <1>1, <1>4, PeersKept
<1>6. ResultGenuine' /\ CompletedOnAttemptedNode' BY <1>1, CompletedKept
<1>7. ReplySound'
    <2>1. reply[j] = Nothing BY <1>1 DEF ReplySound
    <2> QED BY <1>1, <2>1, ReplyKept DEF Types
<1> QED BY <1>2, <1>3, <1>5, <1>6, <1>7

LEMMA ExecutorThrowsKeeps ==
    ASSUME ExecutionInv, NEW j \in Jobs, ExecutorThrows(j) PROVE ExecutionInv'
<1> USE DEF ExecutionInv
<1>1. /\ InAttempt(j) /\ pc' = [pc EXCEPT ![j] = "raised"]
      /\ reply' = [reply EXCEPT ![j] = Nothing]
      /\ UNCHANGED <<life, target, inbox, captured, replays, executed, sent>>
    BY DEF ExecutorThrows, InAttempt, peerVars
<1>2. Types' BY <1>1 DEF Types
<1>3. CallsSound'
    <2> SUFFICES ASSUME NEW i \in Jobs PROVE CallSound(i)' BY DEF CallsSound
    <2>1. CASE i = j
        <3>1. CallSound(j) /\ pc'[j] = "raised" BY <1>1 DEF CallsSound, Types
        <3> QED BY <1>1, <2>1, <3>1 DEF CallSound, InAttempt, AttemptNo
    <2>2. CASE i # j BY <2>2, <1>1, CallUnchanged DEF CallsSound, Types
    <2> QED BY <2>1, <2>2
<1>4. NodesKept BY <1>1, LifeFacts DEF NodesKept, AttemptNo
<1>5. InboxSound' /\ ExecutedSound' /\ SentSound' BY <1>1, <1>4, PeersKept
<1>6. ResultGenuine' /\ CompletedOnAttemptedNode' BY <1>1, CompletedKept
<1>7. ReplySound' BY <1>1, ReplyKept DEF Types
<1> QED BY <1>2, <1>3, <1>5, <1>6, <1>7

\* What a step of call j must show; the other calls and the peers follow.
LEMMA OneCallMoves ==
    ASSUME ExecutionInv, Types', NEW j \in Jobs, CallSound(j)',
           \A i \in Jobs \ {j} : pc'[i] = pc[i] /\ life'[i] = life[i] /\ target'[i] = target[i],
           AttemptNo(j) <= AttemptNo(j)',
           \A k \in 1..AttemptNo(j) : life'[j].attempts[k].node_id = life[j].attempts[k].node_id
    PROVE  CallsSound' /\ NodesKept
<1> USE DEF ExecutionInv
<1>1. CallsSound'
    <2> SUFFICES ASSUME NEW i \in Jobs PROVE CallSound(i)' BY DEF CallsSound
    <2>1. CASE i = j BY <2>1
    <2>2. CASE i # j BY <2>2, CallUnchanged DEF CallsSound
    <2> QED BY <2>1, <2>2
<1>2. ASSUME NEW i \in Jobs PROVE AttemptNo(i) \in Nat /\ AttemptNo(i)' \in Nat
    BY LifeFacts DEF Types, Lives, AttemptNo
<1>3. ASSUME NEW i \in Jobs, i # j
      PROVE  /\ AttemptNo(i) <= AttemptNo(i)'
             /\ \A k \in 1..AttemptNo(i) : life'[i].attempts[k].node_id = life[i].attempts[k].node_id
    BY <1>2, <1>3 DEF AttemptNo
<1>4. NodesKept BY <1>2, <1>3 DEF NodesKept
<1> QED BY <1>1, <1>4

LEMMA RouteKeeps == ASSUME ExecutionInv, NEW j \in Jobs, Route(j) PROVE ExecutionInv'
<1> USE DEF ExecutionInv
<1> DEFINE n == AttemptNo(j)
<1>1. pc[j] = "routing" /\ CallSound(j) BY DEF Route, CallsSound
<1>2. ~life[j].completed /\ n < MaxAttempts /\ n \in Nat BY <1>1, LifeFacts DEF CallSound
<1>3. PICK node \in Nodes \ life[j].excluded_nodes :
          /\ ~BeginAttemptThrows(life[j], node)
          /\ life' = [life EXCEPT ![j] = BeginAttempt(life[j], node)]
          /\ target' = [target EXCEPT ![j] = node]
          /\ pc' = [pc EXCEPT ![j] = "dialing"]
    <2>1. PICK node \in Eligible(j) :
              IF node \in life[j].excluded_nodes \/ BeginAttemptThrows(life[j], node)
              THEN /\ pc' = [pc EXCEPT ![j] = "threw"]
                   /\ UNCHANGED <<life, target>>
              ELSE /\ life' = [life EXCEPT ![j] = BeginAttempt(life[j], node)]
                   /\ target' = [target EXCEPT ![j] = node]
                   /\ pc' = [pc EXCEPT ![j] = "dialing"]
        BY DEF Route
    <2>2. node \in Nodes \ life[j].excluded_nodes BY DEF Eligible
    <2>3. ~BeginAttemptThrows(life[j], node)
        BY <1>2, <2>2, CorrectAreNodes, MaxAttemptsPositive DEF BeginAttemptThrows, Exhausted, AttemptNo
    <2> QED BY <2>1, <2>2, <2>3
<1>4. UNCHANGED <<reply, inbox, captured, replays, executed, sent>> BY DEF Route, peerVars
<1> DEFINE b == BeginAttempt(life[j], node)
<1>5. /\ b \in Lives /\ Len(b.attempts) = n + 1
      /\ \A i \in 1..n : b.attempts[i] = life[j].attempts[i]
      /\ b.attempts[n + 1] = [node_id |-> node, outcome |-> "IN_FLIGHT"]
      /\ b.request_id = life[j].request_id /\ b.excluded_nodes = life[j].excluded_nodes
      /\ b.completed = life[j].completed
    BY LifeFacts, BeginAttemptFacts DEF AttemptNo
<1> HIDE DEF b
<1>6. life' = [life EXCEPT ![j] = b] BY <1>3 DEF b
<1>7. Types' BY <1>3, <1>4, <1>5, <1>6 DEF Types
<1>8. pc'[j] = "dialing" /\ life'[j] = b /\ target'[j] = node BY <1>3, <1>6 DEF Types
<1>9. AttemptNo(j)' = n + 1 BY <1>5, <1>8 DEF AttemptNo
<1>10. CallSound(j)'
    <2>1. \A i \in 1..n : life[j].attempts[i].node_id \in life[j].excluded_nodes
        BY <1>1, <1>2 DEF CallSound, InAttempt
    <2>2. \A i, k \in 1..n : i # k => life[j].attempts[i].node_id # life[j].attempts[k].node_id
        BY <1>1 DEF CallSound
    <2>3. b.attempts[n + 1].node_id = node BY <1>5
    <2>4. \A i \in 1..(n + 1) : i = n + 1 \/ i \in 1..n BY <1>2
    <2>5. \A i \in 1..n : b.attempts[i].node_id = life[j].attempts[i].node_id BY <1>5
    <2> DEFINE nid(i) == b.attempts[i].node_id
    <2>6. /\ nid(n + 1) = node /\ node \notin b.excluded_nodes
          /\ \A i \in 1..n : nid(i) \in b.excluded_nodes
          /\ \A i, k \in 1..n : i # k => nid(i) # nid(k)
        BY <1>5, <2>1, <2>2, <2>3, <2>5
    <2> HIDE DEF nid
    <2>7. \A i \in 1..(n + 1) : nid(i) \in b.excluded_nodes \cup {node} BY <2>4, <2>6
    <2>8. \A i, k \in 1..(n + 1) : i # k => nid(i) # nid(k) BY <2>4, <2>6
    <2>9. b.request_id = Job[j].request_id BY <1>1, <1>5 DEF CallSound
    <2> QED BY <1>2, <1>5, <1>8, <1>9, <2>7, <2>8, <2>9 DEF CallSound, InAttempt, nid
<1>11. CallsSound' /\ NodesKept
    <2>1. \A i \in Jobs \ {j} : pc'[i] = pc[i] /\ life'[i] = life[i] /\ target'[i] = target[i]
        BY <1>3, <1>6 DEF Types
    <2> QED BY <1>2, <1>5, <1>7, <1>8, <1>9, <1>10, <2>1, OneCallMoves
<1>12. InboxSound' /\ ExecutedSound' /\ SentSound' BY <1>4, <1>11, PeersKept
<1>13. ResultGenuine' /\ CompletedOnAttemptedNode'
    <2>1. \A i \in Jobs : life'[i].completed => life'[i] = life[i] BY <1>2, <1>5, <1>6, <1>8 DEF Types
    <2> QED BY <1>4, <2>1, CompletedKept
<1>14. ReplySound'
    <2>1. reply[j] = Nothing BY <1>1 DEF ReplySound
    <2>2. \A i \in Jobs \ {j} : pc'[i] = pc[i] /\ target'[i] = target[i] BY <1>3 DEF Types
    <2> QED BY <1>4, <2>1, <2>2, ReplyKept
<1> QED BY <1>7, <1>11, <1>12, <1>13, <1>14

\* Taking evidence about the node being tried closes the attempt and moves none.
LEMMA ClosedAttempt ==
    ASSUME ExecutionInv, NEW j \in Jobs, InAttempt(j), NEW outcome \in AttemptOutcomes
    PROVE  LET n == AttemptNo(j)
               c == CloseLastAttempt(life[j], target[j], outcome)
           IN  /\ life[j].attempts # <<>> /\ target[j] = life[j].attempts[Len(life[j].attempts)].node_id
               /\ target[j] \in Nodes \ life[j].excluded_nodes /\ ~life[j].completed
               /\ life[j].request_id = Job[j].request_id
               /\ n \in Nat \ {0} /\ Len(c) = n
               /\ \A i \in 1..n : c[i].node_id = life[j].attempts[i].node_id
               /\ c[n] = [node_id |-> target[j], outcome |-> outcome]
<1> DEFINE n == AttemptNo(j)
<1>1. CallSound(j) /\ life[j] \in Lives BY LifeFacts DEF ExecutionInv, CallsSound
<1>2. /\ n > 0 /\ life[j].attempts[n] = [node_id |-> target[j], outcome |-> "IN_FLIGHT"]
      /\ target[j] \in Nodes \ life[j].excluded_nodes
    BY <1>1 DEF CallSound
<1>3. ~life[j].completed /\ life[j].request_id = Job[j].request_id
    BY <1>1 DEF CallSound, InAttempt
<1>4. target[j] = life[j].attempts[n].node_id BY <1>2
<1>5. life[j].attempts # <<>> BY <1>2 DEF AttemptNo
<1> QED BY <1>1, <1>2, <1>3, <1>4, <1>5, CloseAttemptFacts DEF AttemptNo

LEMMA NoticeKeeps ==
    ASSUME ExecutionInv, NEW j \in Jobs, InAttempt(j), NEW f, GoodNotice(j, f), Conclude(j, f)
    PROVE  ExecutionInv'
<1> USE DEF ExecutionInv
<1> DEFINE n == AttemptNo(j)
           c == CloseLastAttempt(life[j], target[j], "FAILED")
           a == AcceptFailure(life[j], f)
<1>1. /\ life[j].attempts # <<>> /\ target[j] = life[j].attempts[Len(life[j].attempts)].node_id
      /\ target[j] \in Nodes \ life[j].excluded_nodes /\ ~life[j].completed
      /\ life[j].request_id = Job[j].request_id
      /\ n \in Nat \ {0} /\ Len(c) = n
      /\ \A i \in 1..n : c[i].node_id = life[j].attempts[i].node_id
    BY ClosedAttempt DEF AttemptOutcomes
<1>2. ~AcceptFailureThrows(life[j], f) /\ f.failed_node_id = target[j] /\ f.type = "FAILURE_NOTICE"
    BY <1>1, CorrectAreNodes DEF AcceptFailureThrows, GoodNotice
<1>3. /\ life' = [life EXCEPT ![j] = a]
      /\ pc' = [pc EXCEPT ![j] = AfterIteration(life'[j])]
      /\ reply' = [reply EXCEPT ![j] = Nothing]
      /\ UNCHANGED <<target, inbox, captured, replays, executed, sent>>
    BY <1>2 DEF Conclude, Continued, peerVars
<1>4. /\ a \in Lives /\ a.attempts = c
      /\ a.excluded_nodes = life[j].excluded_nodes \cup {target[j]}
      /\ a.request_id = life[j].request_id /\ ~a.completed
    BY <1>1, <1>2, LifeFacts, AcceptFacts
<1> HIDE DEF a, c
<1>5. life'[j] = a BY <1>3 DEF Types
<1>6. \/ AfterIteration(a) = "done"
      \/ AfterIteration(a) = "routing" /\ Len(a.attempts) < MaxAttempts
    BY <1>1, <1>4, MaxAttemptsPositive DEF AfterIteration, LoopContinues, Exhausted
<1>7. pc' = [pc EXCEPT ![j] = AfterIteration(a)] BY <1>3, <1>5
<1>8. Types' BY <1>3, <1>4, <1>6, <1>7 DEF Types
<1>9. pc'[j] = AfterIteration(a) /\ AttemptNo(j)' = n /\ target'[j] = target[j]
    BY <1>1, <1>3, <1>4, <1>5, <1>7 DEF Types, AttemptNo
<1>10. CallSound(j)'
    <2>1. CallSound(j) BY DEF CallsSound
    <2>2. /\ \A i \in 1..n : c[i].node_id \in a.excluded_nodes
          /\ \A i, k \in 1..n : i # k => c[i].node_id # c[k].node_id
        BY <1>1, <1>4, <2>1 DEF CallSound
    <2> QED BY <1>1, <1>4, <1>5, <1>6, <1>9, <2>2 DEF CallSound, InAttempt
<1>11. CallsSound' /\ NodesKept
    <2>1. \A i \in Jobs \ {j} : pc'[i] = pc[i] /\ life'[i] = life[i] /\ target'[i] = target[i]
        BY <1>3 DEF Types
    <2> QED BY <1>1, <1>4, <1>5, <1>8, <1>9, <1>10, <2>1, OneCallMoves
<1>12. InboxSound' /\ ExecutedSound' /\ SentSound' BY <1>3, <1>11, PeersKept
<1>13. ResultGenuine' /\ CompletedOnAttemptedNode'
    <2>1. \A i \in Jobs : life'[i].completed => life'[i] = life[i] BY <1>3, <1>4, <1>5 DEF Types
    <2> QED BY <1>3, <2>1, CompletedKept
<1>14. ReplySound' BY <1>3, ReplyKept DEF Types
<1> QED BY <1>8, <1>11, <1>12, <1>13, <1>14

LEMMA ResultKeeps ==
    ASSUME ExecutionInv, NEW j \in Jobs, InAttempt(j), NEW r, GoodResult(j, r), Conclude(j, r)
    PROVE  ExecutionInv'
<1> USE DEF ExecutionInv
<1> DEFINE n == AttemptNo(j)
           c == CloseLastAttempt(life[j], target[j], "OK")
           a == AcceptResult(life[j], r)
<1>1. /\ life[j].attempts # <<>> /\ target[j] = life[j].attempts[Len(life[j].attempts)].node_id
      /\ target[j] \in Nodes \ life[j].excluded_nodes /\ ~life[j].completed
      /\ life[j].request_id = Job[j].request_id
      /\ n \in Nat \ {0} /\ Len(c) = n
      /\ \A i \in 1..n : c[i].node_id = life[j].attempts[i].node_id
      /\ c[n] = [node_id |-> target[j], outcome |-> "OK"]
    BY ClosedAttempt DEF AttemptOutcomes
<1>2. ~AcceptResultThrows(life[j], r) /\ r.responder_node_id = target[j] /\ r.type = "JOB_RESULT"
    BY <1>1 DEF AcceptResultThrows, GoodResult, ResultContract
<1>3. /\ life' = [life EXCEPT ![j] = a]
      /\ pc' = [pc EXCEPT ![j] = AfterIteration(life'[j])]
      /\ reply' = [reply EXCEPT ![j] = Nothing]
      /\ UNCHANGED <<target, inbox, captured, replays, executed, sent>>
    BY <1>2 DEF Conclude, Continued, peerVars
<1>4. /\ a \in Lives /\ a.attempts = c
      /\ a.excluded_nodes = life[j].excluded_nodes
      /\ a.request_id = life[j].request_id /\ a.completed /\ a.result = r
    BY <1>1, <1>2, LifeFacts, AcceptFacts DEF GoodResult
<1> HIDE DEF a, c
<1>5. life'[j] = a BY <1>3 DEF Types
<1>6. AfterIteration(a) = "done" BY <1>4 DEF AfterIteration, LoopContinues
<1>7. pc' = [pc EXCEPT ![j] = "done"] BY <1>3, <1>5, <1>6
<1>8. Types' BY <1>3, <1>4, <1>7 DEF Types
<1>9. pc'[j] = "done" /\ AttemptNo(j)' = n /\ target'[j] = target[j]
    BY <1>1, <1>3, <1>4, <1>5, <1>7 DEF Types, AttemptNo
<1>10. CallSound(j)'
    <2>1. CallSound(j) BY DEF CallsSound
    <2>2. /\ \A i \in 1..n : c[i].node_id \in a.excluded_nodes \cup {target[j]}
          /\ \A i, k \in 1..n : i # k => c[i].node_id # c[k].node_id
        BY <1>1, <1>4, <2>1 DEF CallSound
    <2> QED BY <1>1, <1>4, <1>5, <1>9, <2>2 DEF CallSound, InAttempt
<1>11. \A i \in Jobs \ {j} : pc'[i] = pc[i] /\ life'[i] = life[i] /\ target'[i] = target[i]
    BY <1>3 DEF Types
<1>12. CallsSound' /\ NodesKept
    BY <1>1, <1>4, <1>5, <1>8, <1>9, <1>10, <1>11, OneCallMoves
<1>13. InboxSound' /\ ExecutedSound' /\ SentSound' BY <1>3, <1>12, PeersKept
<1>14. ResultGenuine'
    <2> SUFFICES ASSUME NEW i \in Jobs, life'[i].completed PROVE Genuine(i, life[i].result)'
        BY DEF ResultGenuine, Genuine
    <2>1. CASE i = j
        <3>1. Genuine(j, r) BY DEF GoodResult
        <3> QED BY <1>3, <1>4, <1>5, <2>1, <3>1 DEF Genuine
    <2>2. CASE i # j
        <3>1. life'[i] = life[i] BY <1>11, <2>2
        <3> QED BY <1>3, <3>1 DEF ResultGenuine, Genuine
    <2> QED BY <2>1, <2>2
<1>15. CompletedOnAttemptedNode'
    <2> SUFFICES ASSUME NEW i \in Jobs, life'[i].completed
                 PROVE  life'[i].attempts[AttemptNo(i)'] =
                            [node_id |-> life'[i].result.responder_node_id, outcome |-> "OK"]
        BY DEF CompletedOnAttemptedNode
    <2>1. CASE i = j BY <1>1, <1>2, <1>4, <1>5, <1>9, <2>1
    <2>2. CASE i # j BY <1>11, <2>2 DEF CompletedOnAttemptedNode, AttemptNo
    <2> QED BY <2>1, <2>2
<1>16. ReplySound' BY <1>3, ReplyKept DEF Types
<1> QED BY <1>8, <1>12, <1>13, <1>14, <1>15, <1>16

LEMMA SendRequestKeeps == ASSUME ExecutionInv, NEW j \in Jobs, SendRequest(j) PROVE ExecutionInv'
<1> USE DEF ExecutionInv
<1>1. /\ pc[j] = "dialing" /\ pc' = [pc EXCEPT ![j] = "awaiting"]
      /\ UNCHANGED <<life, target, reply, replays, executed, sent>>
    BY DEF SendRequest
<1>2. InAttempt(j) BY <1>1 DEF InAttempt
<1>3. /\ target[j] \in Nodes /\ AttemptNo(j) \in Nat \ {0}
      /\ target[j] = life[j].attempts[AttemptNo(j)].node_id
    BY <1>2, ClosedAttempt DEF AttemptOutcomes, AttemptNo
<1>4. PICK l \in Endpoints[target[j]] \ {Nothing} :
          LET m == Delivery(j, AttemptNo(j), l, SignedRequest(j), 0)
          IN  /\ inbox' = inbox \cup {m}
              /\ captured' = IF l \in Correct THEN captured ELSE captured \cup {m}
    BY DEF SendRequest
<1>5. l \in Nodes BY <1>3, EndpointsAreNodes
<1>6. Types' BY <1>1 DEF Types
<1>7. CallsSound' /\ NodesKept
    <2>1. pc'[j] = "awaiting" BY <1>1 DEF Types
    <2>2. CallSound(j)' BY <1>1, <1>2, <2>1 DEF CallsSound, CallSound, InAttempt, AttemptNo
    <2>3. AttemptNo(j)' = AttemptNo(j) BY <1>1 DEF AttemptNo
    <2>4. \A i \in Jobs \ {j} : pc'[i] = pc[i] /\ life'[i] = life[i] /\ target'[i] = target[i]
        BY <1>1 DEF Types
    <2> QED BY <1>1, <1>3, <1>6, <2>2, <2>3, <2>4, OneCallMoves
<1>8. InboxSound'
    <2> DEFINE new == Delivery(j, AttemptNo(j), l, SignedRequest(j), 0)
    <2>1. MadeBy(SignedRequest(j), j, AttemptNo(j), target[j])
        BY <1>3 DEF MadeBy, SignedRequest, RequestOf
    <2>2. /\ new.job = j /\ new.listener = l /\ new.attempt = AttemptNo(j)
          /\ new.request = SignedRequest(j) /\ new.replay = 0
        BY DEF Delivery
    <2>3. /\ inbox' = inbox \cup {new}
          /\ captured' = IF l \in Correct THEN captured ELSE captured \cup {new}
        BY <1>4
    <2> HIDE DEF new
    <2>4. DeliverySound(new) BY <1>3, <1>5, <2>1, <2>2 DEF DeliverySound
    <2>5. \A m \in inbox' \cup captured' : DeliverySound(m) BY <2>3, <2>4 DEF InboxSound
    <2>6. \A m \in inbox' \cup captured' : DeliverySound(m)' BY <1>7, <2>5, DeliveryKept
    <2>7. \A m \in captured' : m.replay = 0 /\ m.listener \notin Correct
        BY <2>2, <2>3 DEF InboxSound
    <2> QED BY <1>1, <2>6, <2>7 DEF InboxSound
<1>9. ExecutedSound' BY <1>1, <1>7, ExecutionKept DEF ExecutedSound
<1>10. SentSound' BY <1>1 DEF SentSound
<1>11. ResultGenuine' /\ CompletedOnAttemptedNode' BY <1>1, CompletedKept
<1>12. ReplySound'
    <2>1. reply[j] = Nothing BY <1>1 DEF ReplySound
    <2> QED BY <1>1, <2>1, ReplyKept DEF Types
<1> QED BY <1>6, <1>7, <1>8, <1>9, <1>10, <1>11, <1>12

\* Every way an attempt ends: the executor hands over evidence the engine takes.
LEMMA CallStepKeeps == ASSUME ExecutionInv, NEW j \in Jobs, CallStep(j) PROVE ExecutionInv'
<1>1. ASSUME InAttempt(j), NEW reason \in LocalReasons, Conclude(j, LocalFailure(j, reason))
      PROVE  ExecutionInv'
    <2>1. target[j] \in Nodes BY <1>1, ClosedAttempt DEF AttemptOutcomes
    <2> QED BY <1>1, <2>1, LocalFailureIsGood, NoticeKeeps
<1>2. ASSUME JudgeAnswer(j) PROVE ExecutionInv'
    <2>1. InAttempt(j) BY <1>2 DEF JudgeAnswer, InAttempt
    <2>2. target[j] \in Nodes BY <2>1, ClosedAttempt DEF AttemptOutcomes
    <2>3. reply[j] \in sent \cup FaultyMessages BY <1>2 DEF JudgeAnswer, ExecutionInv, Types
    <2>4. Conclude(j, Judged(j, reply[j])) BY <1>2 DEF JudgeAnswer
    <2> QED BY <2>1, <2>2, <2>3, <2>4, JudgedIsGood, NoticeKeeps, ResultKeeps
<1>3. CASE Submit(j) BY <1>3, SubmitKeeps
<1>4. CASE NoRoute(j) BY <1>4, NoRouteKeeps
<1>5. CASE Route(j) BY <1>5, RouteKeeps
<1>6. CASE EndpointUnavailable(j) BY <1>1, <1>6 DEF EndpointUnavailable, InAttempt, LocalReasons
<1>7. CASE SendRequest(j) BY <1>7, SendRequestKeeps
<1>8. CASE ConnectFails(j) BY <1>1, <1>8 DEF ConnectFails, InAttempt, LocalReasons
<1>9. CASE ReceiveFails(j) BY <1>1, <1>9 DEF ReceiveFails, InAttempt, LocalReasons
<1>10. CASE ExecutorThrows(j) BY <1>10, ExecutorThrowsKeeps
<1> QED BY <1>2, <1>3, <1>4, <1>5, <1>6, <1>7, <1>8, <1>9, <1>10 DEF CallStep
--------------------------------------------------------------------------------
(* The steps of a peer *)

\* An answer to a delivery lies in a buffer only if a correct peer said it or a
\* faulty one can make it; one alone at its address answers for itself.
AnswerSound(m, a) ==
    /\ a \in sent' \cup FaultyMessages
    /\ m.listener \in Correct => a \in HonestAnswers(m.job, m.listener)

\* A step of a peer moves no call.
LEMMA PeerMoves ==
    ASSUME ExecutionInv, NEW m \in inbox, Handled(m),
           UNCHANGED <<pc, life, target, captured, replays>>,
           executed \subseteq executed', sent \subseteq sent',
           \/ reply' = reply
           \/ \E a : AnswerSound(m, a) /\ Answer(m, a)
    PROVE  /\ Types' /\ CallsSound' /\ InboxSound' /\ ReplySound' /\ NodesKept
           /\ ResultGenuine' /\ CompletedOnAttemptedNode'
<1> USE DEF ExecutionInv
<1>1. m.job \in Jobs /\ DeliverySound(m) BY DEF InboxSound, DeliverySound
<1>2. reply' \in [Jobs -> {Nothing} \cup sent' \cup FaultyMessages]
    <2>1. reply \in [Jobs -> {Nothing} \cup sent' \cup FaultyMessages] BY DEF Types
    <2> QED BY <1>1, <2>1 DEF Answer, AnswerSound
<1>3. Types' BY <1>2 DEF Types
<1>4. CallsSound' BY CallUnchanged DEF CallsSound
<1>5. NodesKept BY LifeFacts DEF NodesKept, AttemptNo
<1>6. InboxSound' BY <1>5, DeliveryKept DEF InboxSound, Handled
<1>7. ResultGenuine' /\ CompletedOnAttemptedNode' BY CompletedKept
<1>8. ReplySound'
    <2>1. CASE reply' = reply BY <2>1, ReplyKept
    <2>2. ASSUME NEW a, AnswerSound(m, a), Answer(m, a), reply' # reply PROVE ReplySound'
        <3>1. /\ m.replay = 0 /\ pc[m.job] = "awaiting" /\ AttemptNo(m.job) = m.attempt
              /\ reply' = [reply EXCEPT ![m.job] = a]
            BY <2>2 DEF Answer
        <3>2. CallSound(m.job) /\ InAttempt(m.job) BY <1>1, <3>1 DEF CallsSound, InAttempt
        <3>3. life[m.job].attempts[m.attempt].node_id = target[m.job] BY <3>1, <3>2 DEF CallSound
        <3>4. m.listener \in Endpoints[target[m.job]] /\ m.listener \in Nodes
            BY <1>1, <3>1, <3>3 DEF DeliverySound, MadeBy
        <3>5. ASSUME Alone(target[m.job]) PROVE a \in HonestAnswers(m.job, target[m.job])
            <4>1. m.listener = target[m.job] BY <3>4, <3>5, CorrectAreNodes DEF Alone
            <4> QED BY <2>2, <3>5, <4>1 DEF AnswerSound, Alone
        <3> SUFFICES ASSUME NEW i \in Jobs, reply'[i] # Nothing
                     PROVE  /\ pc[i] = "awaiting"
                            /\ Alone(target[i]) => reply'[i] \in HonestAnswers(i, target[i])
            BY DEF ReplySound, Alone, HonestAnswers, HandlerResult, RequestOf, RemoteFailure
        <3>6. CASE i = m.job BY <3>1, <3>5, <3>6 DEF Types
        <3>7. CASE i # m.job BY <3>1, <3>7 DEF Types, ReplySound
        <3> QED BY <3>6, <3>7
    <2> QED BY <2>1, <2>2
<1> QED BY <1>3, <1>4, <1>5, <1>6, <1>7, <1>8

\* What a correct peer adds to the history.
LEMMA ExecutedMoves ==
    ASSUME ExecutionInv, NodesKept, NEW m \in inbox,
           \/ executed' = executed
           \/ /\ m.listener \in Correct /\ HandlerAccepts(m.listener, m)
              /\ executed' = executed \cup {Execution(m.listener, m)}
    PROVE  ExecutedSound'
<1> USE DEF ExecutionInv
<1> SUFFICES ASSUME NEW e \in executed' PROVE ExecutionSound(e)
    BY ExecutionKept DEF ExecutedSound
<1>1. CASE e \in executed BY <1>1 DEF ExecutedSound
<1>2. CASE m.listener \in Correct /\ HandlerAccepts(m.listener, m) /\ e = Execution(m.listener, m)
    <2>1. m.job \in Jobs BY DEF InboxSound, DeliverySound
    <2>2. PICK t \in Nodes : /\ MadeBy(m.request, m.job, m.attempt, t)
                             /\ m.replay # 0 => FaultyAt(t)
        BY DEF InboxSound, DeliverySound
    <2>3. t = m.listener
        <3>1. RequestOf(m.job, t).target_node_id = t BY <2>1, RequestFacts
        <3> QED BY <1>2, <2>2, <3>1 DEF MadeBy, HandlerAccepts
    <2>4. /\ e.node = m.listener /\ e.request = m.request /\ e.attempt = m.attempt
          /\ e.replay = m.replay
          /\ e = [node |-> e.node, request |-> e.request, attempt |-> e.attempt, replay |-> e.replay]
        BY <1>2 DEF Execution
    <2> QED BY <1>2, <2>1, <2>2, <2>3, <2>4 DEF ExecutionSound
<1> QED BY <1>1, <1>2

LEMMA CorrectPeerKeeps ==
    ASSUME ExecutionInv, NEW m \in inbox, m.listener \in Correct, CorrectPeerStep(m.listener, m)
    PROVE  ExecutionInv'
<1> DEFINE p == m.listener
<1>1. CASE ServeJob(p, m)
    <2>1. /\ Types' /\ CallsSound' /\ InboxSound' /\ ReplySound' /\ NodesKept
          /\ ResultGenuine' /\ CompletedOnAttemptedNode'
        <3>1. HandlerResult(p, m.request) \in HonestAnswers(m.job, p)
            <4>1. m.job \in Jobs BY DEF ExecutionInv, InboxSound, DeliverySound
            <4>2. PICK t \in Nodes : m.request = RequestOf(m.job, t)
                BY DEF ExecutionInv, InboxSound, DeliverySound, MadeBy
            <4>3. RequestOf(m.job, t).target_node_id = t BY <4>1, RequestFacts
            <4>4. t = p BY <1>1, <4>2, <4>3 DEF ServeJob, HandlerAccepts
            <4> QED BY <4>2, <4>4 DEF HonestAnswers
        <3>2. AnswerSound(m, HandlerResult(p, m.request)) BY <1>1, <3>1 DEF ServeJob, AnswerSound
        <3> QED BY <1>1, <3>2, PeerMoves DEF ServeJob
    <2>2. ExecutedSound' BY <1>1, <2>1, ExecutedMoves DEF ServeJob
    <2>3. SentSound'
        <3> DEFINE e == Execution(p, m)
        <3>1. e.node = p /\ e.request = m.request BY DEF Execution
        <3> HIDE DEF e
        <3>2. executed' = executed \cup {e} BY <1>1 DEF ServeJob, e
        <3>3. sent' = sent \cup {HandlerResult(e.node, e.request)} BY <1>1, <3>1 DEF ServeJob
        <3> QED BY <3>2, <3>3 DEF SentSound, ExecutionInv
    <2> QED BY <2>1, <2>2, <2>3 DEF ExecutionInv
<1>2. CASE ServeThenDie(p, m)
    <2>1. /\ Types' /\ CallsSound' /\ InboxSound' /\ ReplySound' /\ NodesKept
          /\ ResultGenuine' /\ CompletedOnAttemptedNode'
        BY <1>2, PeerMoves DEF ServeThenDie, callVars
    <2>2. ExecutedSound' BY <1>2, <2>1, ExecutedMoves DEF ServeThenDie
    <2>3. SentSound' BY <1>2 DEF ServeThenDie, SentSound, ExecutionInv
    <2> QED BY <2>1, <2>2, <2>3 DEF ExecutionInv
<1>3. CASE ReportFailure(p, m)
    <2> DEFINE notice ==
            Sign(FailureNotice(m.request.request_id, p, p, "remote_execution_unavailable"), p)
    <2>1. /\ Handled(m) /\ sent' = sent \cup {notice} /\ Answer(m, notice)
          /\ UNCHANGED <<pc, life, target, captured, replays, executed>>
        BY <1>3 DEF ReportFailure
    <2>2. notice = RemoteFailure(m.job, p)
        <3>1. m.job \in Jobs BY DEF ExecutionInv, InboxSound, DeliverySound
        <3>2. PICK t \in Nodes : m.request = RequestOf(m.job, t)
            BY DEF ExecutionInv, InboxSound, DeliverySound, MadeBy
        <3>3. RequestOf(m.job, t).request_id = Job[m.job].request_id BY <3>1, RequestFacts
        <3>4. m.request.request_id = Job[m.job].request_id BY <3>2, <3>3
        <3> QED BY <3>4 DEF RemoteFailure
    <2> HIDE DEF notice
    <2>3. /\ Types' /\ CallsSound' /\ InboxSound' /\ ReplySound' /\ NodesKept
          /\ ResultGenuine' /\ CompletedOnAttemptedNode'
        <3>1. AnswerSound(m, notice) BY <2>1, <2>2 DEF AnswerSound, HonestAnswers
        <3> QED BY <2>1, <3>1, PeerMoves
    <2>4. ExecutedSound' BY <2>1, <2>3, ExecutedMoves
    <2>5. m.job \in Jobs BY DEF ExecutionInv, InboxSound, DeliverySound
    <2>6. SentSound' BY <2>1, <2>2, <2>5 DEF SentSound, ExecutionInv, RemoteFailure
    <2> QED BY <2>3, <2>4, <2>6 DEF ExecutionInv
<1>4. CASE DropRequest(p, m)
    <2>1. /\ Types' /\ CallsSound' /\ InboxSound' /\ ReplySound' /\ NodesKept
          /\ ResultGenuine' /\ CompletedOnAttemptedNode'
        BY <1>4, PeerMoves DEF DropRequest, callVars
    <2>2. ExecutedSound' /\ SentSound'
        BY <1>4, <2>1, ExecutedMoves DEF DropRequest, SentSound, ExecutionInv
    <2> QED BY <2>1, <2>2 DEF ExecutionInv
<1> QED BY <1>1, <1>2, <1>3, <1>4 DEF CorrectPeerStep

LEMMA FaultyPeerKeeps ==
    ASSUME ExecutionInv, NEW m \in inbox, m.listener \notin Correct, FaultyAnswer(m.listener, m)
    PROVE  ExecutionInv'
<1> DEFINE p == m.listener
<1>1. p \in Nodes \ Correct /\ m.job \in Jobs BY DEF ExecutionInv, InboxSound, DeliverySound
<1>2. PICK t \in Nodes : m.request = RequestOf(m.job, t)
    BY DEF ExecutionInv, InboxSound, DeliverySound, MadeBy
<1>3. Unsigned(m.request) \in Requests
    <2>1. Unsigned(RequestOf(m.job, t)) = JobRequest(Job[m.job], t) BY <1>1, RequestFacts
    <2> QED BY <1>1, <1>2, <2>1 DEF Requests
<1>4. PICK a \in FaultyReplies(p, Unsigned(m.request)) \cup sent : Answer(m, a) BY DEF FaultyAnswer
<1>5. a \in sent \cup FaultyMessages BY <1>1, <1>3 DEF FaultyMessages
<1>6. Handled(m) /\ UNCHANGED <<pc, life, target, captured, replays, executed, sent>>
    BY DEF FaultyAnswer
<1>7. /\ Types' /\ CallsSound' /\ InboxSound' /\ ReplySound' /\ NodesKept
      /\ ResultGenuine' /\ CompletedOnAttemptedNode'
    <2>1. AnswerSound(m, a) BY <1>1, <1>5, <1>6 DEF AnswerSound
    <2> QED BY <1>4, <1>6, <2>1, PeerMoves
<1>8. ExecutedSound' /\ SentSound' BY <1>6, <1>7, ExecutedMoves DEF SentSound, ExecutionInv
<1> QED BY <1>7, <1>8 DEF ExecutionInv

LEMMA ReplayKeeps ==
    ASSUME ExecutionInv, NEW m \in captured, NEW p \in Correct, Replay(m, p)
    PROVE  ExecutionInv'
<1> USE DEF ExecutionInv
<1> DEFINE new == Delivery(m.job, m.attempt, p, m.request, replays + 1)
<1>1. /\ UNCHANGED <<pc, life, target, reply, captured, executed, sent>>
      /\ replays' = replays + 1 /\ inbox' = inbox \cup {new}
    BY DEF Replay, callVars
<1>2. /\ m.job \in Jobs /\ m.listener \in Nodes /\ m.replay = 0 /\ m.listener \notin Correct
      /\ replays \in Nat
    BY DEF InboxSound, DeliverySound
<1>3. PICK t \in Nodes : /\ MadeBy(m.request, m.job, m.attempt, t)
                         /\ m.listener \in Endpoints[t]
    BY <1>2 DEF InboxSound, DeliverySound
<1>4. FaultyAt(t) BY <1>2, <1>3, CorrectAreNodes DEF FaultyAt
<1>5. /\ new.job = m.job /\ new.listener = p /\ new.attempt = m.attempt
      /\ new.request = m.request /\ new.replay = replays + 1
    BY DEF Delivery
<1> HIDE DEF new
<1>6. DeliverySound(new)
    <2>1. new.replay # 0 /\ p \in Nodes BY <1>2, <1>5, CorrectAreNodes
    <2> QED BY <1>2, <1>3, <1>4, <1>5, <2>1 DEF DeliverySound
<1>7. NodesKept BY <1>1, LifeFacts DEF NodesKept, AttemptNo
<1>8. InboxSound'
    <2>1. \A x \in inbox' \cup captured' : DeliverySound(x) BY <1>1, <1>6 DEF InboxSound
    <2>2. \A x \in inbox' \cup captured' : DeliverySound(x)' BY <1>7, <2>1, DeliveryKept
    <2> QED BY <1>1, <1>2, <2>2 DEF InboxSound
<1>9. Types' BY <1>1 DEF Types
<1>10. CallsSound' BY <1>1, CallUnchanged DEF CallsSound
<1>11. ExecutedSound' /\ SentSound' BY <1>1, <1>7, ExecutionKept DEF ExecutedSound, SentSound
<1>12. ReplySound' BY <1>1, ReplyKept
<1>13. ResultGenuine' /\ CompletedOnAttemptedNode' BY <1>1, CompletedKept
<1> QED BY <1>8, <1>9, <1>10, <1>11, <1>12, <1>13

LEMMA ExecutionUnchanged ==
    ASSUME ExecutionInv, UNCHANGED <<callVars, peerVars>> PROVE ExecutionInv'
<1> USE DEF callVars, peerVars
<1>1. Types' BY DEF ExecutionInv, Types
<1>2. CallsSound' BY CallUnchanged DEF ExecutionInv, CallsSound
<1>3. NodesKept BY LifeFacts DEF ExecutionInv, NodesKept, AttemptNo
<1>4. InboxSound' /\ ExecutedSound' /\ SentSound' BY <1>3, PeersKept
<1>5. ResultGenuine' /\ CompletedOnAttemptedNode' BY CompletedKept DEF ExecutionInv
<1>6. ReplySound' BY ReplyKept
<1> QED BY <1>1, <1>2, <1>4, <1>5, <1>6 DEF ExecutionInv

LEMMA ExecutionStep == ASSUME ExecutionInv, [Next]_vars PROVE ExecutionInv'
<1>1. CASE \E j \in Jobs : CallStep(j) BY <1>1, CallStepKeeps
<1>2. CASE \E m \in inbox : m.listener \in Correct /\ CorrectPeerStep(m.listener, m)
    BY <1>2, CorrectPeerKeeps
<1>3. CASE \E m \in inbox : m.listener \notin Correct /\ FaultyAnswer(m.listener, m)
    BY <1>3, FaultyPeerKeeps
<1>4. CASE \E j \in Expiring : Expire(j) BY <1>4, ExecutionUnchanged DEF Expire
<1>5. CASE UNCHANGED vars BY <1>5, ExecutionUnchanged DEF vars
<1>6. CASE \E m \in captured, p \in Correct : Replay(m, p) BY <1>6, ReplayKeeps
<1> QED BY <1>1, <1>2, <1>3, <1>4, <1>5, <1>6 DEF Next
--------------------------------------------------------------------------------
(* What the invariant says of every reachable state *)

\* The invariant holds of every state of any number of concurrent calls, with
\* any peers answering late, twice, wrongly or not at all.
THEOREM ExecutionInvariant == Spec => []ExecutionInv
<1>1. Init => ExecutionInv BY InitExecution
<1>2. ExecutionInv /\ [Next]_vars => ExecutionInv' BY ExecutionStep
<1> QED BY <1>1, <1>2, PTL DEF Spec

\* Nothing the adapter or the executor hands to the engine makes it throw.
THEOREM EngineNeverThrowsHolds == Spec => []EngineNeverThrows
<1>1. ExecutionInv => EngineNeverThrows BY DEF ExecutionInv, Types, EngineNeverThrows
<1> QED BY <1>1, ExecutionInvariant, PTL

\* The caller of a job completed by a correct node holds what that node's
\* execution of a request of this sender with this identifier produced.
THEOREM ResultGenuineHolds == Spec => []ResultGenuine
<1>1. ExecutionInv => ResultGenuine BY DEF ExecutionInv
<1> QED BY <1>1, ExecutionInvariant, PTL

\* A completed call's last attempt is OK, on the node whose result it holds.
THEOREM CompletedOnAttemptedNodeHolds == Spec => []CompletedOnAttemptedNode
<1>1. ExecutionInv => CompletedOnAttemptedNode BY DEF ExecutionInv
<1> QED BY <1>1, ExecutionInvariant, PTL

\* A peer is only ever handed, and a correct peer only ever executes, a request
\* signed afresh for the node of its attempt.
THEOREM RequestsSignedForTargetHolds == Spec => []RequestsSignedForTarget
<1>1. ExecutionInv => RequestsSignedForTarget
    <2> SUFFICES ASSUME ExecutionInv PROVE RequestsSignedForTarget OBVIOUS
    <2>1. ASSUME NEW m \in inbox
          PROVE  /\ m.request.target_node_id = life[m.job].attempts[m.attempt].node_id
                 /\ Verifies(m.request, Job[m.job].sender_node_id)
        <3>1. m.job \in Jobs BY DEF ExecutionInv, InboxSound, DeliverySound
        <3>2. PICK t \in Nodes : MadeBy(m.request, m.job, m.attempt, t)
            BY DEF ExecutionInv, InboxSound, DeliverySound
        <3> DEFINE s == RequestOf(m.job, t)
        <3>3. /\ s.target_node_id = t /\ s.signature # NoSignature
              /\ s.signature = [key |-> Job[m.job].sender_node_id, over |-> Unsigned(s)]
            BY <3>1, RequestFacts
        <3> HIDE DEF s
        <3>4. m.request = s /\ t = life[m.job].attempts[m.attempt].node_id BY <3>2 DEF MadeBy, s
        <3>5. Job[m.job].sender_node_id # Nothing BY <3>1, JobsAreDistinct
        <3> QED BY <3>3, <3>4, <3>5 DEF Verifies
    <2>2. \A e \in executed : e.node \in Correct /\ \E j \in Jobs : e.request = RequestOf(j, e.node)
        BY DEF ExecutionInv, ExecutedSound, ExecutionSound, MadeBy
    <2> QED BY <2>1, <2>2 DEF RequestsSignedForTarget
<1> QED BY <1>1, ExecutionInvariant, PTL

\* A job is executed again only by the node it was signed for, when a faulty peer
\* at that node's address hands its request on; the callers themselves have no
\* node execute it for two attempts, and have excluded all that executed it but
\* the one being tried.
THEOREM RepeatsConfinedHolds == Spec => []RepeatsConfined
<1>1. ExecutionInv => RepeatsConfined
    <2> SUFFICES ASSUME ExecutionInv PROVE RepeatsConfined OBVIOUS
    <2>1. ASSUME NEW j \in Jobs, NEW e \in executed, e.request = RequestOf(j, e.node)
          PROVE  e.attempt \in 1..AttemptNo(j) /\ e.node = life[j].attempts[e.attempt].node_id
        <3>1. PICK i \in Jobs : MadeBy(e.request, i, e.attempt, e.node)
            BY DEF ExecutionInv, ExecutedSound, ExecutionSound
        <3>2. e.node \in Nodes BY CorrectAreNodes DEF ExecutionInv, ExecutedSound, ExecutionSound
        <3>3. i = j BY <2>1, <3>1, <3>2, RequestsDiffer DEF MadeBy
        <3> QED BY <3>1, <3>3 DEF MadeBy
    <2>2. ASSUME NEW d \in executed, NEW e \in executed, d.node = e.node, d.request = e.request,
                 d.replay = 0, e.replay = 0
          PROVE  d = e
        <3>1. PICK j \in Jobs : d.request = RequestOf(j, d.node)
            BY DEF ExecutionInv, ExecutedSound, ExecutionSound, MadeBy
        <3>2. d.attempt \in 1..AttemptNo(j) /\ d.node = life[j].attempts[d.attempt].node_id
            BY <2>1, <3>1
        <3>3. e.attempt \in 1..AttemptNo(j) /\ e.node = life[j].attempts[e.attempt].node_id
            BY <2>1, <2>2, <3>1
        <3>4. CallSound(j) BY DEF ExecutionInv, CallsSound
        <3>5. d.attempt = e.attempt BY <2>2, <3>2, <3>3, <3>4 DEF CallSound
        <3>6. \A x \in executed :
                x = [node |-> x.node, request |-> x.request, attempt |-> x.attempt, replay |-> x.replay]
            BY DEF ExecutionInv, ExecutedSound, ExecutionSound
        <3> QED BY <2>2, <3>5, <3>6
    <2>3. ASSUME NEW j \in Jobs, NEW e \in executed, e.request = RequestOf(j, e.node)
          PROVE  e.node \in life[j].excluded_nodes \cup {target[j]}
        <3>1. CallSound(j) BY DEF ExecutionInv, CallsSound
        <3> QED BY <2>1, <2>3, <3>1 DEF CallSound
    <2>4. \A e \in executed : e.replay # 0 => Endpoints[e.node] \ (Correct \cup {Nothing}) # {}
        BY DEF ExecutionInv, ExecutedSound, ExecutionSound, FaultyAt
    <2> QED BY <2>2, <2>3, <2>4 DEF RepeatsConfined
<1> QED BY <1>1, ExecutionInvariant, PTL

\* Both answers of a correct node keep the contract the executor checks.
LEMMA HonestJudged ==
    ASSUME NEW j \in Jobs, target[j] \in Correct \cap KnownKeys,
           NEW a \in HonestAnswers(j, target[j])
    PROVE  Judged(j, a) = a
<1>1. target[j] \in Nodes /\ target[j] # Nothing /\ target[j] # EmptyId
      /\ PublicKey(target[j]) = target[j]
    BY CorrectAreNodes DEF PublicKey
<1>2. CASE a = HandlerResult(target[j], RequestOf(j, target[j]))
    <2>1. /\ a.type = "JOB_RESULT" /\ a.request_id = Job[j].request_id
          /\ a.responder_node_id = target[j] /\ a.recipient_node_id = Job[j].sender_node_id
          /\ a.status = "OK" /\ a.signature # NoSignature
          /\ a.signature = [key |-> target[j], over |-> Unsigned(a)]
        BY <1>1, <1>2, AnswerFacts
    <2>2. ResultContract(j, a) BY <2>1 DEF ResultContract
    <2>3. Verifies(a, PublicKey(a.responder_node_id)) BY <1>1, <2>1 DEF Verifies
    <2> QED BY <2>1, <2>2, <2>3 DEF Judged
<1>3. CASE a = RemoteFailure(j, target[j])
    <2>1. /\ a.type = "FAILURE_NOTICE" /\ a.request_id = Job[j].request_id
          /\ a.reporting_node_id = target[j] /\ a.failed_node_id = target[j]
          /\ a.signature # NoSignature
          /\ a.signature = [key |-> target[j], over |-> Unsigned(a)]
        BY <1>1, <1>3, RemoteFailureFacts
    <2>2. NoticeContract(j, a) BY <1>1, <2>1 DEF NoticeContract
    <2>3. Verifies(a, PublicKey(a.reporting_node_id)) BY <1>1, <2>1 DEF Verifies
    <2> QED BY <2>1, <2>2, <2>3 DEF Judged
<1> QED BY <1>2, <1>3 DEF HonestAnswers

\* Whatever a correct node alone at its address has answered to the attempt in
\* progress, the executor takes it as it is.
THEOREM HonestPeerNotMisjudgedHolds == Spec => []HonestPeerNotMisjudged
<1>1. ExecutionInv => HonestPeerNotMisjudged
    <2> SUFFICES ASSUME ExecutionInv, NEW j \in Jobs, reply[j] # Nothing,
                        target[j] \in Correct \cap KnownKeys,
                        Endpoints[target[j]] \subseteq {target[j], Nothing}
                 PROVE  Judged(j, reply[j]) = reply[j]
        BY DEF HonestPeerNotMisjudged
    <2>1. reply[j] \in HonestAnswers(j, target[j]) BY DEF ExecutionInv, ReplySound, Alone
    <2> QED BY <2>1, HonestJudged
<1> QED BY <1>1, ExecutionInvariant, PTL
--------------------------------------------------------------------------------
(* Each call is a run of the engine *)

\* The engine of a call reads and writes its lifecycle with the same operators.
LEMMA SameLifecycle ==
    ASSUME NEW j \in Jobs
    PROVE  /\ \A st, x : Engine(j)!BeginAttempt(st, x) = BeginAttempt(st, x)
           /\ \A st, x : Engine(j)!BeginAttemptThrows(st, x) <=> BeginAttemptThrows(st, x)
           /\ \A st, x : Engine(j)!AcceptFailure(st, x) = AcceptFailure(st, x)
           /\ \A st, x : Engine(j)!AcceptFailureThrows(st, x) <=> AcceptFailureThrows(st, x)
           /\ \A st, x : Engine(j)!AcceptResult(st, x) = AcceptResult(st, x)
           /\ \A st, x : Engine(j)!AcceptResultThrows(st, x) <=> AcceptResultThrows(st, x)
           /\ \A st : Engine(j)!AfterIteration(st) = AfterIteration(st)
           /\ \A x : Engine(j)!NewExecution(x) = NewExecution(x)
<1>1. \A st, x : Engine(j)!BeginAttempt(st, x) = BeginAttempt(st, x)
    BY DEF Engine!BeginAttempt, BeginAttempt
<1>2. \A st, x : Engine(j)!BeginAttemptThrows(st, x) <=> BeginAttemptThrows(st, x)
    BY DEF Engine!BeginAttemptThrows, BeginAttemptThrows, Engine!Exhausted, Exhausted
<1>3. \A st, x, o : Engine(j)!CloseLastAttempt(st, x, o) = CloseLastAttempt(st, x, o)
    BY DEF Engine!CloseLastAttempt, CloseLastAttempt, Engine!LastAttemptOn, LastAttemptOn
<1>4. \A st, x : Engine(j)!AcceptFailure(st, x) = AcceptFailure(st, x)
    BY <1>3 DEF Engine!AcceptFailure, AcceptFailure
<1>5. \A st, x : Engine(j)!AcceptResult(st, x) = AcceptResult(st, x)
    BY <1>3 DEF Engine!AcceptResult, AcceptResult
<1>6. \A st, x : Engine(j)!AcceptFailureThrows(st, x) <=> AcceptFailureThrows(st, x)
    BY DEF Engine!AcceptFailureThrows, AcceptFailureThrows, Engine!NoSignature, NoSignature
<1>7. \A st, x : Engine(j)!AcceptResultThrows(st, x) <=> AcceptResultThrows(st, x)
    BY DEF Engine!AcceptResultThrows, AcceptResultThrows, Engine!NoSignature, NoSignature
<1>8. \A st : Engine(j)!AfterIteration(st) = AfterIteration(st)
    BY DEF Engine!AfterIteration, AfterIteration, Engine!LoopContinues, LoopContinues,
           Engine!Exhausted, Exhausted
<1>9. \A x : Engine(j)!NewExecution(x) = NewExecution(x) BY DEF Engine!NewExecution, NewExecution
<1> QED BY <1>1, <1>2, <1>4, <1>5, <1>6, <1>7, <1>8, <1>9

LEMMA RouteInEngine ==
    ASSUME Types, NEW j \in Jobs, Route(j)
    PROVE  Engine(j)!Next
<1>1. PICK node \in Eligible(j) :
              IF node \in life[j].excluded_nodes \/ BeginAttemptThrows(life[j], node)
              THEN /\ pc' = [pc EXCEPT ![j] = "threw"]
                   /\ UNCHANGED <<life, target>>
              ELSE /\ life' = [life EXCEPT ![j] = BeginAttempt(life[j], node)]
                   /\ target' = [target EXCEPT ![j] = node]
                   /\ pc' = [pc EXCEPT ![j] = "dialing"]
        BY DEF Route
<1>2. node \in Nodes BY DEF Eligible
<1>3. pc[j] = "routing" BY DEF Route
<1>4. Engine(j)!RouteSelected(node)
  BY <1>1, <1>2, <1>3, SameLifecycle DEF Engine!RouteSelected, Engine!Throw, Types
<1> QED BY <1>2, <1>4 DEF Engine!Next

LEMMA ConcludeInEngine ==
    ASSUME Types, NEW j \in Jobs, InAttempt(j), NEW evidence, Conclude(j, evidence),
           evidence.type = "JOB_RESULT" => evidence \in EvidenceResults,
           evidence.type = "FAILURE_NOTICE" => evidence \in EvidenceNotices
    PROVE  Engine(j)!Next
<1>1. UNCHANGED target BY DEF Conclude
<1>2. CASE /\ evidence.type = "JOB_RESULT" /\ AcceptResultThrows(life[j], evidence)
           /\ pc' = [pc EXCEPT ![j] = "threw"] /\ UNCHANGED life
    <2>1. Engine(j)!ResultReturned(evidence)
        BY <1>1, <1>2, SameLifecycle DEF Engine!ResultReturned, Engine!Throw, Types, InAttempt
    <2> QED BY <1>2, <2>1 DEF Engine!Next
<1>3. CASE /\ evidence.type = "JOB_RESULT" /\ ~AcceptResultThrows(life[j], evidence)
           /\ life' = [life EXCEPT ![j] = AcceptResult(life[j], evidence)]
           /\ pc' = [pc EXCEPT ![j] = AfterIteration(life'[j])]
    <2>1. life'[j] = AcceptResult(life[j], evidence) /\ pc'[j] = AfterIteration(life'[j])
        BY <1>3 DEF Types
    <2>2. pc'[j] \notin {"dialing", "awaiting", "raised"} BY <2>1 DEF AfterIteration
    <2>3. Engine(j)!ResultReturned(evidence)
        BY <1>1, <1>3, <2>1, <2>2, SameLifecycle DEF Engine!ResultReturned, InAttempt
    <2> QED BY <1>3, <2>3 DEF Engine!Next
<1>4. CASE /\ evidence.type = "FAILURE_NOTICE"
           /\ evidence.failed_node_id # target[j] \/ AcceptFailureThrows(life[j], evidence)
           /\ pc' = [pc EXCEPT ![j] = "threw"] /\ UNCHANGED life
    <2>1. Engine(j)!FailureReturned(evidence)
        BY <1>1, <1>4, SameLifecycle DEF Engine!FailureReturned, Engine!Throw, Types, InAttempt
    <2> QED BY <1>4, <2>1 DEF Engine!Next
<1>5. CASE /\ evidence.type = "FAILURE_NOTICE"
           /\ ~(evidence.failed_node_id # target[j] \/ AcceptFailureThrows(life[j], evidence))
           /\ life' = [life EXCEPT ![j] = AcceptFailure(life[j], evidence)]
           /\ pc' = [pc EXCEPT ![j] = AfterIteration(life'[j])]
    <2>1. life'[j] = AcceptFailure(life[j], evidence) /\ pc'[j] = AfterIteration(life'[j])
        BY <1>5 DEF Types
    <2>2. pc'[j] \notin {"dialing", "awaiting", "raised"} BY <2>1 DEF AfterIteration
    <2>3. Engine(j)!FailureReturned(evidence)
        BY <1>1, <1>5, <2>1, <2>2, SameLifecycle DEF Engine!FailureReturned, InAttempt
    <2> QED BY <1>5, <2>3 DEF Engine!Next
<1> QED BY <1>2, <1>3, <1>4, <1>5 DEF Conclude, Continued

LEMMA CallStepInEngine ==
    ASSUME ExecutionInv, NEW j \in Jobs, CallStep(j)
    PROVE  Engine(j)!Next \/ UNCHANGED Engine(j)!vars
<1>0. Types BY DEF ExecutionInv
<1>1. CASE Submit(j)
    <2>1. /\ pc[j] = "idle" /\ UNCHANGED target
          /\ life'[j] = NewExecution(Job[j].request_id) /\ pc'[j] = AfterIteration(life'[j])
        BY <1>0, <1>1 DEF Submit, Types
    <2>2. pc'[j] \notin {"dialing", "awaiting", "raised"} BY <2>1 DEF AfterIteration
    <2>3. Job[j].request_id # EmptyId BY JobsAreDistinct
    <2>4. Engine(j)!Execute(Job[j].request_id)
        BY <2>1, <2>2, <2>3, SameLifecycle DEF Engine!Execute
    <2> QED BY <2>4 DEF Engine!Next
<1>2. CASE NoRoute(j)
    <2>1. Engine(j)!RouteExhausted BY <1>0, <1>2 DEF NoRoute, Engine!RouteExhausted, Types
    <2> QED BY <2>1 DEF Engine!Next
<1>3. CASE Route(j) BY <1>0, <1>3, RouteInEngine
<1>4. CASE SendRequest(j)
    <2>1. pc[j] = "dialing" /\ pc'[j] = "awaiting" /\ UNCHANGED <<life, target>>
        BY <1>0, <1>4 DEF SendRequest, Types
    <2> QED BY <2>1 DEF Engine!vars
<1>5. ASSUME InAttempt(j), NEW reason \in LocalReasons, Conclude(j, LocalFailure(j, reason))
      PROVE  Engine(j)!Next
    <2>1. target[j] \in Nodes BY <1>5, ClosedAttempt DEF AttemptOutcomes
    <2>2. GoodNotice(j, LocalFailure(j, reason)) BY <2>1, LocalFailureIsGood
    <2> QED BY <1>0, <1>5, <2>2, ConcludeInEngine DEF GoodNotice
<1>6. CASE JudgeAnswer(j)
    <2>1. InAttempt(j) BY <1>6 DEF JudgeAnswer, InAttempt
    <2>2. target[j] \in Nodes BY <2>1, ClosedAttempt DEF AttemptOutcomes
    <2>3. reply[j] \in sent \cup FaultyMessages BY <1>0, <1>6 DEF JudgeAnswer, Types
    <2>4. GoodResult(j, Judged(j, reply[j])) \/ GoodNotice(j, Judged(j, reply[j]))
        BY <2>2, <2>3, JudgedIsGood
    <2>5. Conclude(j, Judged(j, reply[j])) BY <1>6 DEF JudgeAnswer
    <2> QED BY <1>0, <2>1, <2>4, <2>5, ConcludeInEngine DEF GoodResult, GoodNotice
<1>7. CASE EndpointUnavailable(j) BY <1>5, <1>7 DEF EndpointUnavailable, InAttempt, LocalReasons
<1>8. CASE ConnectFails(j) BY <1>5, <1>8 DEF ConnectFails, InAttempt, LocalReasons
<1>9. CASE ReceiveFails(j) BY <1>5, <1>9 DEF ReceiveFails, InAttempt, LocalReasons
<1>10. CASE ExecutorThrows(j)
    <2>1. pc[j] \in {"dialing", "awaiting"} /\ pc'[j] = "raised" /\ UNCHANGED <<life, target>>
        BY <1>0, <1>10 DEF ExecutorThrows, Types
    <2>2. Engine(j)!CallbackThrows BY <2>1 DEF Engine!CallbackThrows, Engine!Throw
    <2> QED BY <2>2 DEF Engine!Next
<1> QED BY <1>1, <1>2, <1>3, <1>4, <1>6, <1>7, <1>8, <1>9, <1>10 DEF CallStep

\* A step of another call touches nothing of this one.
LEMMA OtherCallInEngine ==
    ASSUME ExecutionInv, NEW i \in Jobs, NEW j \in Jobs, i # j, CallStep(i)
    PROVE  UNCHANGED Engine(j)!vars
<1>0. Types BY DEF ExecutionInv
<1>1. pc'[j] = pc[j] /\ life'[j] = life[j] /\ target'[j] = target[j]
    <2>1. ASSUME NEW x, Conclude(i, x)
          PROVE  pc'[j] = pc[j] /\ life'[j] = life[j] /\ target'[j] = target[j]
        BY <1>0, <2>1 DEF Conclude, Types
    <2>2. CASE Submit(i) BY <1>0, <2>2 DEF Submit, Types
    <2>3. CASE NoRoute(i) BY <1>0, <2>3 DEF NoRoute, Types
    <2>4. CASE Route(i) BY <1>0, <2>4 DEF Route, Types
    <2>5. CASE SendRequest(i) BY <1>0, <2>5 DEF SendRequest, Types
    <2>6. CASE ExecutorThrows(i) BY <1>0, <2>6 DEF ExecutorThrows, Types
    <2> QED BY <2>1, <2>2, <2>3, <2>4, <2>5, <2>6
            DEF CallStep, EndpointUnavailable, ConnectFails, ReceiveFails, JudgeAnswer
<1> QED BY <1>1 DEF Engine!vars

\* Each call is a run of the engine of ResilientExecution.
THEOREM CallsImplementEngineHolds == Spec => CallsImplementEngine
<1>1. ASSUME Init, NEW j \in Jobs PROVE Engine(j)!Init
    BY <1>1, SameLifecycle DEF Init, Engine!Init
<1>2. ASSUME ExecutionInv, [Next]_vars, NEW j \in Jobs
      PROVE  [Engine(j)!Next]_(Engine(j)!vars)
    <2>1. ASSUME UNCHANGED <<pc, life, target>> PROVE UNCHANGED Engine(j)!vars
        BY <2>1 DEF Engine!vars
    <2>2. CASE \E i \in Jobs : CallStep(i) BY <1>2, <2>2, CallStepInEngine, OtherCallInEngine
    <2>3. CASE \E m \in inbox : CorrectPeerStep(m.listener, m) \/ FaultyAnswer(m.listener, m)
        BY <2>1, <2>3 DEF CorrectPeerStep, ServeJob, ServeThenDie, ReportFailure, DropRequest,
                          FaultyAnswer, callVars
    <2>4. CASE \/ \E i \in Expiring : Expire(i)
               \/ \E m \in captured, p \in Correct : Replay(m, p)
               \/ UNCHANGED vars
        BY <2>1, <2>4 DEF Expire, Replay, vars, callVars
    <2> QED BY <1>2, <2>2, <2>3, <2>4 DEF Next
<1>3. Init => \A j \in Jobs : Engine(j)!Init BY <1>1
<1>4. ExecutionInv /\ [Next]_vars => \A j \in Jobs : [Engine(j)!Next]_(Engine(j)!vars) BY <1>2
<1> QED BY <1>3, <1>4, ExecutionInvariant, PTL DEF Spec, CallsImplementEngine
================================================================================
