------------------------------- MODULE Handshake -------------------------------
(***************************************************************************)
(* The admission handshake of auth.py: a server issues challenges, devices *)
(* sign them, and the threads of the server verify responses with one      *)
(* HandshakeVerifier, whose set of consumed challenges lives in memory.    *)
(*                                                                         *)
(* verify looks at that set first (line 187) and adds to it last (line     *)
(* 228); every check in between is a function of its arguments.  So a call *)
(* is two actions, and other threads, the clock, a revocation or a restart *)
(* may come between them.                                                  *)
(*                                                                         *)
(* A challenge is its identifier, the identity it was made for and its     *)
(* window.  The nonces, the protocol version and the selected capabilities *)
(* are part of the transcript and stay with the server, as the identifier  *)
(* does, so the identifier stands for them.  A key is named, and whoever   *)
(* has it signs with it.  The admission layer passes verify the challenges *)
(* it issued and the status it has on record.                              *)
(***************************************************************************)
EXTENDS Naturals, Sequences, FiniteSets

CONSTANTS
    Threads,            \* threads that call verify on one verifier
    Hellos,             \* [organization_id, agent_or_device_id] clients may claim
    Subjects,           \* organizations and devices that have a status
    Certificates,       \* certificates in circulation
    RootKey,            \* root_public_key
    Signers,            \* keys that sign responses
    HonestOrgs,         \* organizations whose key only they have
    OrgKey,             \* HonestOrgs -> the key the root has certified
    DeviceKey,          \* HonestOrgs -> [device identifier -> its key]
    Required,           \* required_capability, or Nothing for None
    Ttl,                \* ttl_seconds
    MaxTime, MaxChallenges, MaxRestarts, MaxAdmissions,     \* bounds
    Nothing             \* no call, and a signature that verifies under no key

ASSUME TtlPositive == Ttl \in Nat \ {0}
ASSUME BoundsAreNat == {MaxTime, MaxChallenges, MaxRestarts, MaxAdmissions} \subseteq Nat
ASSUME HellosHaveStatus ==
    \A h \in Hellos : {h.organization_id, h.agent_or_device_id} \subseteq Subjects
ASSUME NothingIsNoKey == Nothing \notin Signers \cup {RootKey}

\* issue_certificate; signed_by is the key under which the issuer's signature
\* verifies over the other fields.
IssueCertificate(issuer, key, subject, kind, subjectKey, notBefore, notAfter, capabilities) ==
    [subject_id         |-> subject,
     subject_kind       |-> kind,
     subject_public_key |-> subjectKey,
     issuer_id          |-> issuer,
     not_before         |-> notBefore,
     not_after          |-> notAfter,
     capabilities       |-> capabilities,
     signed_by          |-> key]

\* A certificate whose fields were changed after it was signed.
Altered(cert) == [cert EXCEPT !.signed_by = Nothing]

\* What the issuers do: the root certifies organizations, each with its own key,
\* and an honest organization certifies its devices, each with its own key.
ASSUME IssuersAreHonest ==
    \A c \in Certificates :
        /\ c.signed_by = RootKey /\ c.subject_id \in HonestOrgs /\ c.subject_kind = "organization"
              => c.subject_public_key = OrgKey[c.subject_id]
        /\ \A o \in HonestOrgs : c.signed_by = OrgKey[o] =>
              /\ c.subject_id \in DOMAIN DeviceKey[o]
              /\ c.subject_public_key = DeviceKey[o][c.subject_id]

VARIABLES
    clock,
    revokedAt,      \* subject -> when it was revoked; Never: its status is ACTIVE
    issued,         \* the challenges the server has issued
    responses,      \* the signed transcripts that have been sent
    consumed,       \* HandshakeVerifier._consumed
    call,           \* per thread: the arguments of a verify past its replay check
    lifetime,       \* how often the server has restarted
    started,        \* when this lifetime began
    admitted        \* history: the calls that returned (True, "ok")

vars == <<clock, revokedAt, issued, responses, consumed, call, lifetime, started, admitted>>

Never == MaxTime + 1
-------------------------------------------------------------------------------
\* HandshakeVerifier() and an admission layer with nothing on record yet.
Init ==
    /\ clock = 0
    /\ revokedAt = [s \in Subjects |-> Never]
    /\ issued = {}
    /\ responses = {}
    /\ consumed = {}
    /\ call = [t \in Threads |-> Nothing]
    /\ lifetime = 0
    /\ started = 0
    /\ admitted = <<>>

\* make_challenge: secrets.token_hex gives a fresh identifier.
MakeChallenge(h) ==
    /\ Cardinality(issued) < MaxChallenges
    /\ issued' = issued \cup
           {[challenge_id       |-> Cardinality(issued) + 1,
             organization_id    |-> h.organization_id,
             agent_or_device_id |-> h.agent_or_device_id,
             issued_at          |-> clock,
             expires_at         |-> clock + Ttl]}
    /\ UNCHANGED <<clock, revokedAt, responses, consumed, call, lifetime, started, admitted>>

\* sign_challenge: whoever sees a challenge may sign its transcript.
SignChallenge(ch, key) ==
    /\ responses' = responses \cup {[key |-> key, over |-> ch.challenge_id]}
    /\ UNCHANGED <<clock, revokedAt, issued, consumed, call, lifetime, started, admitted>>

\* version and signature_algorithm are fixed by IssueCertificate.
VerifyCertificate(cert, key, now) ==
    /\ cert.not_before <= now /\ now <= cert.not_after
    /\ cert.signed_by = key

\* SUSPENDED and EXPIRED are to verify what REVOKED is: not ACTIVE.
Status(s) == IF revokedAt[s] = Never THEN "ACTIVE" ELSE "REVOKED"

\* Mutant: the replay check is lost.
Unused_Any(ch) == TRUE

Unused(ch) == ch.challenge_id \notin consumed

\* verify up to its replay check, which returns at once for a consumed challenge.
BeginVerify(t, ch, sig, device, organization) ==
    /\ call[t] = Nothing
    /\ Unused(ch)
    /\ call' = [call EXCEPT ![t] =
           [challenge           |-> ch,
            signature           |-> sig,
            device              |-> device,
            organization        |-> organization,
            organization_status |-> Status(ch.organization_id),
            device_status       |-> Status(ch.agent_or_device_id),
            now                 |-> clock]]
    /\ UNCHANGED <<clock, revokedAt, issued, responses, consumed, lifetime, started, admitted>>

\* Mutant: the organization certificate need not be the claimed organization's.
Claimed_AnyOrganization(c) == c.device.subject_id = c.challenge.agent_or_device_id

\* The certificates are those of the identities the challenge names.
Claimed(c) ==
    /\ c.organization.subject_id = c.challenge.organization_id
    /\ c.device.subject_id = c.challenge.agent_or_device_id

\* The two certificates lead from the root to the claimed identity.
DelegationHolds(c) ==
    /\ c.organization.subject_kind = "organization"
    /\ c.device.subject_kind \in {"device", "agent"}
    /\ Claimed(c)
    /\ VerifyCertificate(c.organization, RootKey, c.now)
    /\ c.device.issuer_id = c.organization.subject_id
    /\ VerifyCertificate(c.device, c.organization.subject_public_key, c.now)

\* Mutant: a challenge never expires.
InWindow_Always(c) == TRUE

InWindow(c) == c.challenge.issued_at <= c.now /\ c.now <= c.challenge.expires_at

\* Mutant: the device's own status is not looked at.
StatusActive_OrganizationOnly(c) == c.organization_status = "ACTIVE"

StatusActive(c) == c.organization_status = "ACTIVE" /\ c.device_status = "ACTIVE"

\* Every check of verify after the first.
Admissible(c) ==
    /\ InWindow(c)
    /\ StatusActive(c)
    /\ DelegationHolds(c)
    /\ Required = Nothing \/ Required \in c.device.capabilities
    /\ c.signature = [key |-> c.device.subject_public_key, over |-> c.challenge.challenge_id]

\* verify returns (True, "ok").
Admit(t) ==
    /\ call[t] # Nothing /\ Admissible(call[t])
    /\ Len(admitted) < MaxAdmissions
    /\ consumed' = consumed \cup {call[t].challenge.challenge_id}
    /\ admitted' = Append(admitted, [call |-> call[t], lifetime |-> lifetime, started |-> started])
    /\ call' = [call EXCEPT ![t] = Nothing]
    /\ UNCHANGED <<clock, revokedAt, issued, responses, lifetime, started>>

\* Mutant: a refused response uses its challenge up.
Refuse_Consumes(t) ==
    /\ call[t] # Nothing /\ ~Admissible(call[t])
    /\ call' = [call EXCEPT ![t] = Nothing]
    /\ consumed' = consumed \cup {call[t].challenge.challenge_id}
    /\ UNCHANGED <<clock, revokedAt, issued, responses, lifetime, started, admitted>>

\* verify returns False with the reason of the first check that fails.
Refuse(t) ==
    /\ call[t] # Nothing /\ ~Admissible(call[t])
    /\ call' = [call EXCEPT ![t] = Nothing]
    /\ UNCHANGED <<clock, revokedAt, issued, responses, consumed, lifetime, started, admitted>>

Tick ==
    /\ clock < MaxTime
    /\ clock' = clock + 1
    /\ UNCHANGED <<revokedAt, issued, responses, consumed, call, lifetime, started, admitted>>

\* The admission layer learns that an organization or a device is revoked.
Revoke(s) ==
    /\ revokedAt[s] = Never
    /\ revokedAt' = [revokedAt EXCEPT ![s] = clock]
    /\ UNCHANGED <<clock, issued, responses, consumed, call, lifetime, started, admitted>>

\* Mutant: the verifier is replaced under calls that are still running.
Restart_KeepsCalls ==
    /\ lifetime < MaxRestarts
    /\ lifetime' = lifetime + 1
    /\ started' = clock
    /\ consumed' = {}
    /\ UNCHANGED <<clock, revokedAt, issued, responses, call, admitted>>

\* The server restarts with a new verifier; calls in progress are lost, the
\* challenges it has issued are still presented to it.
Restart ==
    /\ lifetime < MaxRestarts
    /\ lifetime' = lifetime + 1
    /\ started' = clock
    /\ consumed' = {}
    /\ call' = [t \in Threads |-> Nothing]
    /\ UNCHANGED <<clock, revokedAt, issued, responses, admitted>>

Next ==
    \/ \E h \in Hellos : MakeChallenge(h)
    \/ \E ch \in issued, key \in Signers : SignChallenge(ch, key)
    \/ \E t \in Threads, ch \in issued, sig \in responses, d, o \in Certificates :
          BeginVerify(t, ch, sig, d, o)
    \/ \E t \in Threads : Admit(t) \/ Refuse(t)
    \/ Tick
    \/ \E s \in Subjects : Revoke(s)
    \/ Restart

Spec == Init /\ [][Next]_vars
-------------------------------------------------------------------------------
Challenge ==
    [challenge_id : Nat, organization_id : Subjects, agent_or_device_id : Subjects,
     issued_at : Nat, expires_at : Nat]

Signature == [key : Signers, over : Nat]

Statuses == {"ACTIVE", "REVOKED"}

Arguments ==
    [challenge : Challenge, signature : Signature, device : Certificates,
     organization : Certificates, organization_status : Statuses, device_status : Statuses,
     now : Nat]

\* The variables keep their types, and no lifetime or call is dated in the future.
TypeOK ==
    /\ clock \in 0..MaxTime /\ lifetime \in Nat /\ started \in 0..clock
    /\ revokedAt \in [Subjects -> Nat]
    /\ issued \subseteq Challenge /\ IsFiniteSet(issued)
    /\ responses \subseteq Signature
    /\ consumed \subseteq Nat
    /\ call \in [Threads -> Arguments \cup {Nothing}]
    /\ \A t \in Threads : call[t] # Nothing => call[t].now \in started..clock
    /\ admitted \in Seq([call : Arguments, lifetime : 0..lifetime, started : 0..clock])
    /\ \A i \in 1..Len(admitted) : admitted[i].call.now <= clock

ChallengeOf(i) == admitted[i].call.challenge

\* security/handshake.md:79 and SECURITY_REVIEW_v0.1.md:59: within the lifetime
\* of a verifier a challenge admits once.  With one call at a time it does.
SingleUse ==
    \A i, k \in 1..Len(admitted) :
        /\ ChallengeOf(i).challenge_id = ChallengeOf(k).challenge_id
        /\ admitted[i].lifetime = admitted[k].lifetime
        => i = k

\* The verifier remembers exactly what this lifetime has admitted: an admission
\* uses its challenge up, and a wrong response, however many of them come first,
\* does not lock the right device out.
ConsumedExact ==
    consumed =
        {ChallengeOf(i).challenge_id :
            i \in {k \in 1..Len(admitted) : admitted[k].lifetime = lifetime}}

\* What a restart forgets matters only as long as a challenge lives: a challenge
\* is never admitted in a lifetime that began after the challenge had expired.
RestartForgetsOnlyLiving ==
    \A i \in 1..Len(admitted) : admitted[i].started <= ChallengeOf(i).expires_at

\* Whoever is admitted as a device of an honest organization is that device: the
\* key that signed this very challenge is the one its organization gave it,
\* whatever certificates other organizations issue or anybody alters.
AdmittedIsGenuine ==
    \A i \in 1..Len(admitted) :
        LET c == admitted[i].call
            org == c.challenge.organization_id
            dev == c.challenge.agent_or_device_id
        IN  org \in HonestOrgs =>
                /\ dev \in DOMAIN DeviceKey[org]
                /\ [key |-> DeviceKey[org][dev], over |-> c.challenge.challenge_id] \in responses

\* An admission is never dated after the revocation of the organization or of
\* the device; a call that was under way at that moment is the only exception.
RevokedStayOut ==
    \A i \in 1..Len(admitted) :
        LET c == admitted[i].call
        IN  /\ c.now <= revokedAt[c.challenge.organization_id]
            /\ c.now <= revokedAt[c.challenge.agent_or_device_id]

\* A call under way carries a response somebody sent and was made before any
\* revocation it has not seen.
PendingSound ==
    \A t \in Threads :
        LET c == call[t]
        IN  c # Nothing =>
                /\ c.signature \in responses
                /\ c.organization_status = "ACTIVE" => c.now <= revokedAt[c.challenge.organization_id]
                /\ c.device_status = "ACTIVE" => c.now <= revokedAt[c.challenge.agent_or_device_id]

\* A call under way has a challenge that is still unused; two calls at a time
\* break this first, and SingleUse after it.
PendingFresh ==
    \A t \in Threads : call[t] # Nothing => call[t].challenge.challenge_id \notin consumed

\* verify is called by one thread at a time.
OneCallAtATime == \A s, t \in Threads : s = t
================================================================================
