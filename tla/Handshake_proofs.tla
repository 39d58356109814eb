--------------------------- MODULE Handshake_proofs ---------------------------
(***************************************************************************)
(* Proofs about the admission handshake, for any number of challenges,     *)
(* devices, certificates, restarts and ticks.  AdmissionInv holds however  *)
(* many threads call verify; that a challenge admits once per lifetime of  *)
(* the verifier needs calls to come one at a time.                         *)
(***************************************************************************)
EXTENDS Handshake, TLAPS, FiniteSetTheorems

AdmissionInv ==
    /\ TypeOK
    /\ PendingSound
    /\ ConsumedExact
    /\ RestartForgetsOnlyLiving
    /\ AdmittedIsGenuine
    /\ RevokedStayOut

\* An admission: Append puts the finished call at the end of the history.
LEMMA AppendAdmission ==
    ASSUME TypeOK, NEW t \in Threads, Admit(t)
    PROVE  LET e == [call |-> call[t], lifetime |-> lifetime, started |-> started]
           IN  /\ e \in [call : Arguments, lifetime : 0..lifetime, started : 0..clock]
               /\ call[t] \in Arguments
               /\ admitted' \in Seq([call : Arguments, lifetime : 0..lifetime, started : 0..clock])
               /\ Len(admitted) \in Nat
               /\ Len(admitted') = Len(admitted) + 1
               /\ \A i \in 1..Len(admitted) : admitted'[i] = admitted[i]
               /\ admitted'[Len(admitted) + 1] = e
<1> DEFINE e == [call |-> call[t], lifetime |-> lifetime, started |-> started]
           S == [call : Arguments, lifetime : 0..lifetime, started : 0..clock]
<1>1. call[t] \in Arguments BY DEF TypeOK, Admit
<1>2. e \in S BY <1>1 DEF TypeOK
<1>3. admitted \in Seq(S) BY DEF TypeOK
<1>4. admitted' = Append(admitted, e) BY DEF Admit
<1> HIDE DEF e, S
<1>5. Len(admitted) \in Nat /\ Len(admitted') = Len(admitted) + 1 BY <1>2, <1>3, <1>4
<1>6. \A i \in 1..Len(admitted) : admitted'[i] = admitted[i] BY <1>2, <1>3, <1>4
<1>7. admitted'[Len(admitted) + 1] = e BY <1>2, <1>3, <1>4
<1>8. admitted' \in Seq(S) BY <1>2, <1>3, <1>4
<1> QED BY <1>1, <1>2, <1>5, <1>6, <1>7, <1>8 DEF e, S

\* The history's type only widens as time passes and the server restarts.
LEMMA HistoryWidens ==
    ASSUME TypeOK, admitted' = admitted,
           lifetime' \in Nat, lifetime' >= lifetime, clock' \in Nat, clock' >= clock
    PROVE  admitted' \in Seq([call : Arguments, lifetime : 0..lifetime', started : 0..clock'])
<1> DEFINE S == [call : Arguments, lifetime : 0..lifetime, started : 0..clock]
           T == [call : Arguments, lifetime : 0..lifetime', started : 0..clock']
<1>1. S \subseteq T
    <2> SUFFICES ASSUME NEW x \in S PROVE x \in T OBVIOUS
    <2>1. x.lifetime \in 0..lifetime' /\ x.started \in 0..clock' BY DEF TypeOK
    <2> QED BY <2>1
<1>2. admitted \in Seq(S) BY DEF TypeOK
<1> HIDE DEF S, T
<1>3. admitted \in Seq(T) BY <1>1, <1>2
<1> QED BY <1>3 DEF T

\* What the type invariant says of one admission.
LEMMA AdmissionTyped ==
    ASSUME TypeOK, NEW i \in 1..Len(admitted)
    PROVE  /\ admitted[i].call \in Arguments
           /\ admitted[i].call.now \in Nat /\ admitted[i].call.now <= clock
           /\ admitted[i].lifetime \in Nat /\ admitted[i].lifetime <= lifetime
           /\ admitted[i].call.challenge.organization_id \in Subjects
           /\ admitted[i].call.challenge.agent_or_device_id \in Subjects
<1> DEFINE S == [call : Arguments, lifetime : 0..lifetime, started : 0..clock]
<1>1. admitted \in Seq(S) BY DEF TypeOK
<1> HIDE DEF S
<1>2. admitted[i] \in S BY <1>1
<1>3. admitted[i].call \in Arguments /\ admitted[i].lifetime \in 0..lifetime BY <1>2 DEF S
<1>4. admitted[i].call.now <= clock BY DEF TypeOK
<1>5. admitted[i].call.challenge \in Challenge /\ admitted[i].call.now \in Nat BY <1>3 DEF Arguments
<1>6. admitted[i].lifetime \in Nat /\ admitted[i].lifetime <= lifetime BY <1>3 DEF TypeOK
<1> QED BY <1>3, <1>4, <1>5, <1>6 DEF Challenge

LEMMA TypeInit == Init => TypeOK
<1> SUFFICES ASSUME Init PROVE TypeOK OBVIOUS
<1>1. IsFiniteSet(issued) BY FS_EmptySet DEF Init
<1> QED BY <1>1, BoundsAreNat DEF Init, TypeOK, Never

LEMMA TypeStep == TypeOK /\ [Next]_vars => TypeOK'
<1> SUFFICES ASSUME TypeOK, [Next]_vars PROVE TypeOK' OBVIOUS
<1> USE BoundsAreNat
<1>1. ASSUME NEW h \in Hellos, MakeChallenge(h) PROVE TypeOK'
    <2> DEFINE ch == [challenge_id       |-> Cardinality(issued) + 1,
                      organization_id    |-> h.organization_id,
                      agent_or_device_id |-> h.agent_or_device_id,
                      issued_at          |-> clock,
                      expires_at         |-> clock + Ttl]
    <2>1. Cardinality(issued) \in Nat BY FS_CardinalityType DEF TypeOK
    <2>2. ch \in Challenge BY <2>1, HellosHaveStatus, TtlPositive DEF TypeOK, Challenge
    <2>3. issued' = issued \cup {ch} BY <1>1 DEF MakeChallenge
    <2>4. IsFiniteSet(issued') BY <2>3, FS_AddElement DEF TypeOK
    <2> HIDE DEF ch
    <2>5. issued' \subseteq Challenge BY <2>2, <2>3 DEF TypeOK
    <2> QED BY <1>1, <2>4, <2>5 DEF MakeChallenge, TypeOK
<1>2. ASSUME NEW ch \in issued, NEW key \in Signers, SignChallenge(ch, key) PROVE TypeOK'
    BY <1>2 DEF SignChallenge, TypeOK, Signature, Challenge
<1>3. ASSUME NEW t \in Threads, NEW ch \in issued, NEW sig \in responses,
             NEW d \in Certificates, NEW o \in Certificates, BeginVerify(t, ch, sig, d, o)
      PROVE TypeOK'
    <2> DEFINE c == [challenge           |-> ch,
                     signature           |-> sig,
                     device              |-> d,
                     organization        |-> o,
                     organization_status |-> Status(ch.organization_id),
                     device_status       |-> Status(ch.agent_or_device_id),
                     now                 |-> clock]
    <2>1. c \in Arguments BY DEF TypeOK, Arguments, Statuses, Status
    <2>2. c.now \in started..clock BY DEF TypeOK
    <2>3. call' = [call EXCEPT ![t] = c] BY <1>3 DEF BeginVerify, Unused
    <2> HIDE DEF c
    <2>4. call' \in [Threads -> Arguments \cup {Nothing}] BY <2>1, <2>3 DEF TypeOK
    <2>5. \A u \in Threads : call'[u] # Nothing => call'[u].now \in started..clock
        BY <2>2, <2>3 DEF TypeOK
    <2> QED BY <1>3, <2>4, <2>5 DEF BeginVerify, Unused, TypeOK
<1>4. ASSUME NEW t \in Threads, Admit(t) PROVE TypeOK'
    <2>1. admitted' \in Seq([call : Arguments, lifetime : 0..lifetime, started : 0..clock])
        BY <1>4, AppendAdmission
    <2>2. consumed' \subseteq Nat BY <1>4, AppendAdmission DEF Admit, TypeOK, Arguments, Challenge
    <2>3. call' \in [Threads -> Arguments \cup {Nothing}]
          /\ \A u \in Threads : call'[u] # Nothing => call'[u] = call[u]
        BY <1>4 DEF Admit, TypeOK
    <2>4. \A i \in 1..Len(admitted') : admitted'[i].call.now <= clock
        <3>1. call[t].now \in started..clock BY <1>4 DEF Admit, TypeOK
        <3>2. call[t].now <= clock BY <3>1 DEF TypeOK
        <3>3. \A i \in 1..Len(admitted) : admitted[i].call.now <= clock BY DEF TypeOK
        <3>4. /\ Len(admitted) \in Nat /\ Len(admitted') = Len(admitted) + 1
              /\ \A i \in 1..Len(admitted) : admitted'[i] = admitted[i]
              /\ admitted'[Len(admitted) + 1] =
                     [call |-> call[t], lifetime |-> lifetime, started |-> started]
            BY <1>4, AppendAdmission
        <3> QED BY <3>2, <3>3, <3>4
    <2> QED BY <1>4, <2>1, <2>2, <2>3, <2>4 DEF Admit, TypeOK
<1>5. ASSUME NEW t \in Threads, Refuse(t) PROVE TypeOK'
    <2>1. call' \in [Threads -> Arguments \cup {Nothing}]
          /\ \A u \in Threads : call'[u] # Nothing => call'[u] = call[u]
        BY <1>5 DEF Refuse, TypeOK
    <2> QED BY <1>5, <2>1 DEF Refuse, TypeOK
<1>6. CASE Tick
    <2>1. clock' \in 0..MaxTime /\ clock' >= clock /\ clock' \in Nat BY <1>6 DEF Tick, TypeOK
    <2>2. admitted' \in Seq([call : Arguments, lifetime : 0..lifetime', started : 0..clock'])
        BY <1>6, <2>1, HistoryWidens DEF Tick, TypeOK
    <2>3. \A t \in Threads : call[t] # Nothing => call[t].now \in started..clock'
        BY <2>1 DEF TypeOK
    <2>4. \A i \in 1..Len(admitted) : admitted[i].call.now <= clock'
        <3> SUFFICES ASSUME NEW i \in 1..Len(admitted) PROVE admitted[i].call.now <= clock' OBVIOUS
        <3>1. admitted[i].call.now \in Nat /\ admitted[i].call.now <= clock BY AdmissionTyped
        <3>2. clock \in Nat BY BoundsAreNat DEF TypeOK
        <3> QED BY <2>1, <3>1, <3>2
    <2> QED BY <1>6, <2>1, <2>2, <2>3, <2>4 DEF Tick, TypeOK
<1>7. ASSUME NEW s \in Subjects, Revoke(s) PROVE TypeOK'
    BY <1>7 DEF Revoke, TypeOK
<1>8. CASE Restart
    <2>1. lifetime' \in Nat /\ lifetime' >= lifetime /\ clock' = clock BY <1>8 DEF Restart, TypeOK
    <2>2. admitted' \in Seq([call : Arguments, lifetime : 0..lifetime', started : 0..clock'])
        BY <1>8, <2>1, HistoryWidens DEF Restart, TypeOK
    <2> QED BY <1>8, <2>1, <2>2 DEF Restart, TypeOK
<1>9. CASE UNCHANGED vars BY <1>9 DEF vars, TypeOK
<1> QED BY <1>1, <1>2, <1>3, <1>4, <1>5, <1>6, <1>7, <1>8, <1>9 DEF Next
-------------------------------------------------------------------------------
\* A call past every check names the device the organization gave the key to.
LEMMA AdmissibleIsGenuine ==
    ASSUME NEW c \in Arguments, Admissible(c), c.challenge.organization_id \in HonestOrgs
    PROVE  LET org == c.challenge.organization_id
               dev == c.challenge.agent_or_device_id
           IN  /\ dev \in DOMAIN DeviceKey[org]
               /\ c.signature = [key |-> DeviceKey[org][dev], over |-> c.challenge.challenge_id]
<1> DEFINE org == c.challenge.organization_id
           dev == c.challenge.agent_or_device_id
<1>1. c.organization \in Certificates /\ c.device \in Certificates BY DEF Arguments
<1>2. c.organization.subject_public_key = OrgKey[org]
    BY <1>1, IssuersAreHonest DEF Admissible, DelegationHolds, Claimed, VerifyCertificate
<1>3. c.device.signed_by = OrgKey[org] /\ c.device.subject_id = dev
    BY <1>2 DEF Admissible, DelegationHolds, Claimed, VerifyCertificate
<1>4. dev \in DOMAIN DeviceKey[org] /\ c.device.subject_public_key = DeviceKey[org][dev]
    BY <1>1, <1>3, IssuersAreHonest
<1> QED BY <1>4 DEF Admissible

LEMMA PendingStep == TypeOK /\ PendingSound /\ [Next]_vars => PendingSound'
<1> SUFFICES ASSUME TypeOK, PendingSound, [Next]_vars PROVE PendingSound' OBVIOUS
<1> USE BoundsAreNat
<1>1. ASSUME NEW h \in Hellos, MakeChallenge(h) PROVE PendingSound'
    BY <1>1 DEF MakeChallenge, PendingSound
<1>2. ASSUME NEW ch \in issued, NEW key \in Signers, SignChallenge(ch, key) PROVE PendingSound'
    BY <1>2 DEF SignChallenge, PendingSound
<1>3. ASSUME NEW t \in Threads, NEW ch \in issued, NEW sig \in responses,
             NEW d \in Certificates, NEW o \in Certificates, BeginVerify(t, ch, sig, d, o)
      PROVE PendingSound'
    <2>1. call'[t].signature \in responses /\ call'[t].now = clock /\ call'[t].challenge = ch
          /\ call'[t].organization_status = Status(ch.organization_id)
          /\ call'[t].device_status = Status(ch.agent_or_device_id)
        BY <1>3 DEF BeginVerify, Unused, TypeOK
    <2>2. \A s \in Subjects : Status(s) = "ACTIVE" => clock <= revokedAt[s]
        BY DEF Status, Never, TypeOK
    <2>3. ch.organization_id \in Subjects /\ ch.agent_or_device_id \in Subjects
        BY DEF TypeOK, Challenge
    <2>4. \A u \in Threads : u # t => call'[u] = call[u] BY <1>3 DEF BeginVerify, Unused, TypeOK
    <2>5. UNCHANGED <<responses, revokedAt>> BY <1>3 DEF BeginVerify, Unused
    <2> QED BY <2>1, <2>2, <2>3, <2>4, <2>5 DEF PendingSound
<1>4. ASSUME NEW t \in Threads, Admit(t) \/ Refuse(t) PROVE PendingSound'
    <2>1. \A u \in Threads : call'[u] # Nothing => call'[u] = call[u]
        BY <1>4 DEF Admit, Refuse, TypeOK
    <2>2. UNCHANGED <<responses, revokedAt>> BY <1>4 DEF Admit, Refuse
    <2> QED BY <2>1, <2>2 DEF PendingSound
<1>5. CASE Tick BY <1>5 DEF Tick, PendingSound
<1>6. ASSUME NEW s \in Subjects, Revoke(s) PROVE PendingSound'
    <2>1. \A x \in Subjects : revokedAt'[x] = IF x = s THEN clock ELSE revokedAt[x]
        BY <1>6 DEF Revoke, TypeOK
    <2>2. \A u \in Threads : call[u] # Nothing =>
              /\ call[u].now \in Nat /\ call[u].now <= clock
              /\ call[u].challenge.organization_id \in Subjects
              /\ call[u].challenge.agent_or_device_id \in Subjects
        BY DEF TypeOK, Arguments, Challenge
    <2>3. UNCHANGED <<responses, call>> BY <1>6 DEF Revoke
    <2> QED BY <2>1, <2>2, <2>3 DEF PendingSound
<1>7. CASE Restart BY <1>7 DEF Restart, PendingSound
<1>8. CASE UNCHANGED vars BY <1>8 DEF vars, PendingSound
<1> QED BY <1>1, <1>2, <1>3, <1>4, <1>5, <1>6, <1>7, <1>8 DEF Next

\* The properties of the history, in a step that admits nobody.
LEMMA HistoryStep ==
    ASSUME AdmissionInv, [Next]_vars, admitted' = admitted
    PROVE  /\ ConsumedExact'
           /\ RestartForgetsOnlyLiving'
           /\ AdmittedIsGenuine'
           /\ RevokedStayOut'
<1> USE BoundsAreNat
<1> USE DEF AdmissionInv
<1>1. \A i \in 1..Len(admitted) : admitted[i].lifetime \in Nat /\ admitted[i].lifetime <= lifetime
    BY AdmissionTyped
<1>2. \/ UNCHANGED <<consumed, lifetime>>
      \/ consumed' = {} /\ lifetime' = lifetime + 1
      \/ \E t \in Threads : Admit(t)
    BY DEF Next, MakeChallenge, SignChallenge, BeginVerify, Unused, Refuse, Tick, Revoke, Restart, vars
<1>3. ~ \E t \in Threads : Admit(t)
    <2> SUFFICES ASSUME NEW t \in Threads, Admit(t) PROVE FALSE OBVIOUS
    <2>1. Len(admitted) \in Nat /\ Len(admitted') = Len(admitted) + 1 BY AppendAdmission
    <2> QED BY <2>1
<1>4. ConsumedExact'
    <2>1. CASE UNCHANGED <<consumed, lifetime>>
        BY <2>1 DEF AdmissionInv, ConsumedExact, ChallengeOf
    <2>2. CASE consumed' = {} /\ lifetime' = lifetime + 1
        BY <1>1, <2>2 DEF AdmissionInv, TypeOK, ConsumedExact, ChallengeOf
    <2> QED BY <1>2, <1>3, <2>1, <2>2
<1>5. RestartForgetsOnlyLiving' BY DEF AdmissionInv, RestartForgetsOnlyLiving, ChallengeOf
<1>6. responses \subseteq responses'
    BY <1>3 DEF Next, MakeChallenge, SignChallenge, BeginVerify, Unused, Refuse, Tick, Revoke, Restart, vars
<1>7. AdmittedIsGenuine' BY <1>6 DEF AdmissionInv, AdmittedIsGenuine
<1>8. RevokedStayOut'
    <2>1. CASE UNCHANGED revokedAt BY <2>1 DEF AdmissionInv, RevokedStayOut
    <2>2. ASSUME NEW s \in Subjects, Revoke(s) PROVE RevokedStayOut'
        <3>1. \A x \in Subjects : revokedAt'[x] = IF x = s THEN clock ELSE revokedAt[x]
            BY <2>2 DEF Revoke, TypeOK
        <3> QED BY <3>1, AdmissionTyped DEF RevokedStayOut
    <2> QED BY <1>3, <2>1, <2>2
        DEF Next, MakeChallenge, SignChallenge, BeginVerify, Unused, Refuse, Tick, Revoke, Restart, vars
<1> QED BY <1>4, <1>5, <1>7, <1>8

\* The properties of the history, in the step that adds to it.
LEMMA AdmitStep ==
    ASSUME AdmissionInv, NEW t \in Threads, Admit(t)
    PROVE  /\ ConsumedExact'
           /\ RestartForgetsOnlyLiving'
           /\ AdmittedIsGenuine'
           /\ RevokedStayOut'
<1> DEFINE n == Len(admitted)
           c == call[t]
<1> USE DEF AdmissionInv
<1>1. /\ n \in Nat /\ Len(admitted') = n + 1
      /\ \A i \in 1..n : admitted'[i] = admitted[i]
      /\ admitted'[n + 1] = [call |-> c, lifetime |-> lifetime, started |-> started]
      /\ c \in Arguments
    BY AppendAdmission
<1>2. c # Nothing /\ Admissible(c) BY DEF Admit
<1>3. UNCHANGED <<responses, revokedAt, lifetime>> /\ consumed' = consumed \cup {c.challenge.challenge_id}
    BY DEF Admit
<1>4. ConsumedExact'
    <2>1. {k \in 1..Len(admitted') : admitted'[k].lifetime = lifetime}
            = {k \in 1..n : admitted[k].lifetime = lifetime} \cup {n + 1}
        BY <1>1
    <2>2. admitted'[n + 1].call.challenge = c.challenge BY <1>1
    <2>3. \A i \in 1..n : admitted'[i].call.challenge = admitted[i].call.challenge BY <1>1
    <2>4. consumed = {admitted[i].call.challenge.challenge_id :
                         i \in {k \in 1..n : admitted[k].lifetime = lifetime}}
        BY DEF ConsumedExact, ChallengeOf
    <2>5. consumed' = {admitted'[i].call.challenge.challenge_id :
                          i \in {k \in 1..n : admitted[k].lifetime = lifetime} \cup {n + 1}}
        BY <1>3, <2>2, <2>3, <2>4
    <2> QED BY <1>3, <2>1, <2>5 DEF ConsumedExact, ChallengeOf
<1>5. RestartForgetsOnlyLiving'
    <2>1. c.now \in started..clock BY <1>2 DEF TypeOK
    <2>2. c.now <= c.challenge.expires_at BY <1>2 DEF Admissible, InWindow
    <2>3. started <= c.challenge.expires_at
        <3>1. c.challenge.expires_at \in Nat BY <1>1 DEF Arguments, Challenge
        <3>2. c.now \in Nat /\ started <= c.now /\ started \in Nat BY <1>1, <2>1 DEF Arguments, TypeOK
        <3> QED BY <2>2, <3>1, <3>2
    <2> QED BY <1>1, <2>3 DEF RestartForgetsOnlyLiving, ChallengeOf
<1>6. AdmittedIsGenuine'
    <2>1. c.signature \in responses BY <1>2 DEF PendingSound
    <2>2. c.challenge.organization_id \in HonestOrgs =>
              /\ c.challenge.agent_or_device_id \in DOMAIN DeviceKey[c.challenge.organization_id]
              /\ [key  |-> DeviceKey[c.challenge.organization_id][c.challenge.agent_or_device_id],
                  over |-> c.challenge.challenge_id] \in responses
        BY <1>1, <1>2, <2>1, AdmissibleIsGenuine
    <2>3. SUFFICES ASSUME NEW i \in 1..(n + 1),
                          admitted'[i].call.challenge.organization_id \in HonestOrgs
                   PROVE  LET ch == admitted'[i].call.challenge
                          IN  /\ ch.agent_or_device_id \in DOMAIN DeviceKey[ch.organization_id]
                              /\ [key  |-> DeviceKey[ch.organization_id][ch.agent_or_device_id],
                                  over |-> ch.challenge_id] \in responses'
        BY <1>1 DEF AdmittedIsGenuine
    <2>4. CASE i = n + 1
        <3>1. admitted'[i].call = c BY <1>1, <2>4
        <3> HIDE DEF c
        <3> QED BY <1>3, <2>2, <2>3, <3>1
    <2>5. CASE i \in 1..n
        <3>1. admitted'[i].call = admitted[i].call BY <1>1, <2>5
        <3> QED BY <1>3, <2>3, <2>5, <3>1 DEF AdmittedIsGenuine
    <2> QED BY <1>1, <2>4, <2>5
<1>7. RevokedStayOut'
    <2>1. /\ c.now <= revokedAt[c.challenge.organization_id]
          /\ c.now <= revokedAt[c.challenge.agent_or_device_id]
        BY <1>2 DEF PendingSound, Admissible, InWindow, StatusActive
    <2> HIDE DEF c
    <2> QED BY <1>1, <1>3, <2>1 DEF RevokedStayOut
<1> QED BY <1>4, <1>5, <1>6, <1>7

LEMMA AdmissionInit == Init => AdmissionInv
BY TypeInit DEF Init, AdmissionInv, PendingSound, ConsumedExact, RestartForgetsOnlyLiving,
                AdmittedIsGenuine, RevokedStayOut

LEMMA AdmissionStep == AdmissionInv /\ [Next]_vars => AdmissionInv'
<1> SUFFICES ASSUME AdmissionInv, [Next]_vars PROVE AdmissionInv' OBVIOUS
<1>1. TypeOK' /\ PendingSound' BY TypeStep, PendingStep DEF AdmissionInv
<1>2. CASE \E t \in Threads : Admit(t) BY <1>1, <1>2, AdmitStep DEF AdmissionInv
<1>3. CASE admitted' = admitted BY <1>1, <1>3, HistoryStep DEF AdmissionInv
<1> QED BY <1>2, <1>3
    DEF Next, MakeChallenge, SignChallenge, BeginVerify, Unused, Refuse, Tick, Revoke, Restart, vars

\* verify and its admission layer keep AdmissionInv with any number of threads.
THEOREM AdmissionInvariant == Spec => []AdmissionInv
BY AdmissionInit, AdmissionStep, PTL DEF Spec

\* The verifier's memory and its calls keep their shape.
THEOREM TypeCorrect == Spec => []TypeOK
<1>1. AdmissionInv => TypeOK BY DEF AdmissionInv
<1> QED BY <1>1, AdmissionInvariant, PTL

\* What HandshakeVerifier remembers is exactly what it has admitted.
THEOREM ConsumedIsExact == Spec => []ConsumedExact
<1>1. AdmissionInv => ConsumedExact BY DEF AdmissionInv
<1> QED BY <1>1, AdmissionInvariant, PTL

\* The certificate checks of verify admit the real device of an honest
\* organization and nobody else under its name.
THEOREM GenuineAdmission == Spec => []AdmittedIsGenuine
<1>1. AdmissionInv => AdmittedIsGenuine BY DEF AdmissionInv
<1> QED BY <1>1, AdmissionInvariant, PTL

\* No call of verify made after a revocation admits.
THEOREM RevocationHolds == Spec => []RevokedStayOut
<1>1. AdmissionInv => RevokedStayOut BY DEF AdmissionInv
<1> QED BY <1>1, AdmissionInvariant, PTL

\* A verifier started after a challenge has expired never admits it again.
THEOREM RestartIsBounded == Spec => []RestartForgetsOnlyLiving
<1>1. AdmissionInv => RestartForgetsOnlyLiving BY DEF AdmissionInv
<1> QED BY <1>1, AdmissionInvariant, PTL
-------------------------------------------------------------------------------
SingleUseInv == AdmissionInv /\ PendingFresh /\ SingleUse

LEMMA FreshStep ==
    ASSUME OneCallAtATime, AdmissionInv, PendingFresh, [Next]_vars
    PROVE  PendingFresh'
<1> USE DEF AdmissionInv
<1>1. ASSUME NEW t \in Threads, Admit(t) PROVE PendingFresh'
    BY <1>1 DEF Admit, TypeOK, PendingFresh, OneCallAtATime
<1>2. ASSUME NEW t \in Threads, Refuse(t) PROVE PendingFresh'
    BY <1>2 DEF Refuse, TypeOK, PendingFresh
<1>3. ASSUME NEW t \in Threads, NEW ch \in issued, NEW sig \in responses,
             NEW d \in Certificates, NEW o \in Certificates, BeginVerify(t, ch, sig, d, o)
      PROVE PendingFresh'
    <2>1. call'[t].challenge = ch /\ ch.challenge_id \notin consumed BY <1>3 DEF BeginVerify, Unused, TypeOK
    <2>2. \A u \in Threads : u # t => call'[u] = call[u] BY <1>3 DEF BeginVerify, Unused, TypeOK
    <2>3. consumed' = consumed BY <1>3 DEF BeginVerify, Unused
    <2> QED BY <2>1, <2>2, <2>3 DEF PendingFresh
<1>4. CASE Restart BY <1>4 DEF Restart, PendingFresh
<1>5. CASE UNCHANGED <<call, consumed>> BY <1>5 DEF PendingFresh
<1> QED BY <1>1, <1>2, <1>3, <1>4, <1>5
    DEF Next, MakeChallenge, SignChallenge, Tick, Revoke, vars

LEMMA SingleUseStep ==
    ASSUME AdmissionInv, PendingFresh, SingleUse, [Next]_vars
    PROVE  SingleUse'
<1> USE DEF AdmissionInv
<1>1. ASSUME NEW t \in Threads, Admit(t) PROVE SingleUse'
    <2> DEFINE n == Len(admitted)
               c == call[t]
    <2>1. /\ n \in Nat /\ Len(admitted') = n + 1
          /\ \A i \in 1..n : admitted'[i] = admitted[i]
          /\ admitted'[n + 1] = [call |-> c, lifetime |-> lifetime, started |-> started]
        BY <1>1, AppendAdmission
    <2>2. c.challenge.challenge_id \notin consumed BY <1>1 DEF Admit, PendingFresh
    <2>3. \A i \in 1..n : admitted[i].lifetime = lifetime =>
              admitted[i].call.challenge.challenge_id # c.challenge.challenge_id
        BY <2>2 DEF ConsumedExact, ChallengeOf
    <2> HIDE DEF c
    <2> QED BY <2>1, <2>3 DEF SingleUse, ChallengeOf
<1>2. CASE admitted' = admitted BY <1>2 DEF SingleUse, ChallengeOf
<1> QED BY <1>1, <1>2
    DEF Next, MakeChallenge, SignChallenge, BeginVerify, Unused, Refuse, Tick, Revoke, Restart, vars

\* With one call of verify at a time a challenge admits once in the lifetime of
\* the verifier, however many restarts, threads of clients and replays there are.
THEOREM ChallengeAdmitsOnce ==
    ASSUME OneCallAtATime
    PROVE  Spec => []SingleUse
<1>1. Init => SingleUseInv
    BY AdmissionInit DEF Init, SingleUseInv, PendingFresh, SingleUse
<1>2. SingleUseInv /\ [Next]_vars => SingleUseInv'
    BY AdmissionStep, FreshStep, SingleUseStep DEF SingleUseInv
<1>3. SingleUseInv => SingleUse BY DEF SingleUseInv
<1> QED BY <1>1, <1>2, <1>3, PTL DEF Spec
===============================================================================
