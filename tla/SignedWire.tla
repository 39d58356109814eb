------------------------------- MODULE SignedWire -------------------------------
(***************************************************************************)
(* One signed message from the writer that signs it to the reader that     *)
(* verifies it, through text: sign_* over the canonical text, *_envelope_  *)
(* json, then split_envelope, parse_*_envelope_json and verify_*, which    *)
(* decode the signature and write the canonical text of what they parsed   *)
(* again.                                                                  *)
(*                                                                         *)
(* Requests go from a C++ caller to a Python node; results come from nodes *)
(* in either language and failure notices from C++ ones, to a C++ caller.  *)
(* On the way a faulty peer may put the signature on another message, or   *)
(* change the text: lose a symbol, write others in its place or before it, *)
(* or spell it as an escape.                                               *)
(***************************************************************************)
EXTENDS Base64url

CONSTANTS
    Contents,       \* payloads, as code points
    Ids,            \* request identifiers, as code points
    Times,          \* timestamps; a Python writer's need not fit the C++ type
    Signatures,     \* the bytes Ed25519 may give as a signature
    EditPieces,     \* what an edit may write into the text, as symbols
    FaultyContents  \* the payloads of the messages a faulty peer works with

ASSUME WireAssumption ==
    /\ Contents \subseteq Seq(Nat) /\ Ids \subseteq Seq(Nat) /\ FaultyContents \subseteq Seq(Nat)
    /\ Times \subseteq Int
    /\ Signatures \subseteq Seq(0..255)
    /\ EditPieces \subseteq Seq(Nat)

VARIABLES
    pc,         \* "idle", "sent", "read", "malformed", "accepted", "rejected"
    sent,       \* the message as its writer signed it
    over,       \* the text the signature was made over
    wire,       \* the envelope the reader receives
    altered,    \* whether that is still the writer's
    key,        \* the key the reader verified with
    got         \* the message the reader parsed

vars == <<pc, sent, over, wire, altered, key, got>>

Signer == "signer"                  \* the writer's key pair
NoKey == "nullptr"
Responses == {"JOB_RESULT", "FAILURE_NOTICE"}

Utf8(s) == FlattenSeq([i \in DOMAIN s |-> IF s[i] > MaxCodePoint THEN <<s[i]>> ELSE append_utf8(s[i])])

\* A string as a program in this language holds it.
Held(lang, s) == IF lang = "python" THEN s ELSE Utf8(s)

\* The fields nothing depends on share one value.
FixedField(f) ==
    IF f = "signature_algorithm" THEN <<Word("Ed25519")>>
    ELSE IF f = "operation" THEN <<Word("ECHO")>>
    ELSE IF f = "status" THEN <<Word("OK")>> ELSE <<LowerA>>

\* A signed message as this language holds it.
Message(lang, type, id, content, time, signature) ==
    [f \in ToSet(Fields(type)) |->
        IF f \in IntFields THEN (IF f = "issued_at" THEN 0 ELSE time)
        ELSE IF f \in {"payload", "reason", "organization_id"} THEN Held(lang, content)
        ELSE IF f = "request_id" THEN Held(lang, id)
        ELSE IF f = "signature" THEN base64url_encode(signature)
        ELSE FixedField(f)]

\* How many bytes the UTF-8 sequence with this first byte has.
SequenceLength(ch) ==
    IF ch \notin 192..247 THEN 1 ELSE IF ch <= 223 THEN 2 ELSE IF ch <= 239 THEN 3 ELSE 4

\* The code point of the sequence at p.
CodePointAt(s, p) ==
    LET low(i) == IF i <= Len(s) THEN s[i] % 64 ELSE 0
    IN  IF s[p] \notin 192..247 THEN s[p]
        ELSE IF s[p] <= 223 THEN (s[p] - 192) * 64 + low(p + 1)
        ELSE IF s[p] <= 239 THEN (s[p] - 224) * 4096 + low(p + 1) * 64 + low(p + 2)
        ELSE (s[p] - 240) * 262144 + low(p + 1) * 4096 + low(p + 2) * 64 + low(p + 3)

\* bytes.decode("utf-8").  Requests are never altered, so the bytes are UTF-8.
CodePoints(s) ==
    LET from[p \in 1..Len(s) + 4] ==
            IF p > Len(s) THEN <<>> ELSE <<CodePointAt(s, p)>> \o from[p + SequenceLength(s[p])]
    IN  from[1]

Reader(type) == IF type = "JOB_REQUEST" THEN "python" ELSE "cpp"

SentMessage(lang) ==
    Message(lang, sent.type, sent.id, sent.content, sent.time, sent.signature)
--------------------------------------------------------------------------------
Init ==
    /\ pc = "idle"
    /\ sent = <<>>
    /\ over = <<>>
    /\ wire = <<>>
    /\ altered = FALSE
    /\ key = NoKey
    /\ got = <<>>

\* Signs and writes a message.  JobResult.validate refuses a negative time, and
\* a request is valid for some time.
Send(lang, type, id, content, time, signature) ==
    /\ pc = "idle"
    /\ lang = "python" => type = "JOB_RESULT" /\ time >= 0
    /\ lang = "cpp" => time \in Ints
    /\ type = "JOB_REQUEST" => time > 0
    /\ sent' = [lang |-> lang, type |-> type, id |-> id, content |-> content, time |-> time,
                signature |-> signature]
    /\ over' = Canonical(lang, type, Message(lang, type, id, content, time, signature))
    /\ wire' = Envelope(lang, type, Message(lang, type, id, content, time, signature))
    /\ pc' = "sent"
    /\ UNCHANGED <<altered, key, got>>

\* The signature arrives on another message than the one it was made for.
Repurpose(type, id, content, time) ==
    /\ pc = "sent" /\ ~altered
    /\ sent.type \in Responses
    /\ sent.content \in FaultyContents
    /\ time \in Ints
    /\ LET other == Message("cpp", type, id, content, time, sent.signature)
       IN  /\ other # SentMessage("cpp")
           /\ wire' = Envelope("cpp", type, other)
    /\ altered' = TRUE
    /\ UNCHANGED <<pc, sent, over, key, got>>

\* The text with k symbols from p on replaced.
Spliced(t, p, k, piece) == SubSeq(t, 1, p - 1) \o piece \o SubSeq(t, p + k, Len(t))

\* A piece is written before the symbol at p or in its place, or that symbol is
\* spelt as a \u escape.
Edit(p) ==
    /\ pc = "sent" /\ ~altered
    /\ sent.type \in Responses
    /\ sent.content \in FaultyContents
    /\ \/ \E piece \in EditPieces, k \in 0..1 :
             p + k <= Len(wire) + 1 /\ wire' = Spliced(wire, p, k, piece)
       \/ p <= Len(wire) /\ wire' = Spliced(wire, p, 1, UnicodeEscape(wire[p]))
    /\ wire' # wire
    /\ altered' = TRUE
    /\ UNCHANGED <<pc, sent, over, key, got>>

\* What the reader may hold after parsing: json.loads gives strings of code
\* points, the C++ reader strings of bytes; an overflowed integer is any value.
Understood(type, m) ==
    IF Reader(type) = "python"
    THEN {[f \in DOMAIN m |-> IF f \in IntFields THEN m[f] ELSE CodePoints(m[f])]}
    ELSE {[f \in DOMAIN m |-> IF f \in IntFields /\ m[f] = Overflowed THEN n ELSE m[f]] :
             n \in IF \E f \in DOMAIN m \cap IntFields : m[f] = Overflowed THEN Ints ELSE {0}}

Malformed == pc' = "malformed" /\ UNCHANGED <<sent, over, wire, altered, key, got>>

\* The payload of a message of type t is parsed.
Parse(t, object) ==
    IF object.ok
    THEN /\ \E m \in Understood(t, object.value) : got' = [type |-> t, fields |-> m]
         /\ pc' = "read"
         /\ UNCHANGED <<sent, over, wire, altered, key>>
    ELSE Malformed

Dispatch(parts) ==
    \/ /\ parts.ok => \A t \in Responses \cup {sent.type} : parts.type # <<Word(t)>>
       /\ Malformed
    \/ /\ parts.ok
       /\ \E t \in Responses \cup {sent.type} :
             parts.type = <<Word(t)>> /\ Parse(t, ReadObject(parts.payload, Fields(t)))

\* The text is split and parsed: parse_job_result_envelope_json for a result,
\* parse_failure_notice_envelope_json for a notice, json.loads for a request.
Receive == pc = "sent" /\ Dispatch(split_envelope(wire))

\* Holds of nothing but the signature the writer made, over its text.
Ed25519Verify(public_key, text, signature) ==
    public_key = Signer /\ signature = sent.signature /\ text = over

VerifyResult(m, public_key) ==
    /\ public_key # NoKey
    /\ m.signature_algorithm = <<Word("Ed25519")>>
    /\ m.signature # <<>>
    /\ Ed25519Verify(public_key, Canonical("cpp", "JOB_RESULT", m), base64url_decode(m.signature))

VerifyNotice(m, public_key) ==
    /\ m.signature_algorithm = <<Word("Ed25519")>>
    /\ m.signature # <<>>
    /\ Ed25519Verify(public_key, Canonical("cpp", "FAILURE_NOTICE", m), base64url_decode(m.signature))

\* Python's verify_job_request, JobRequest.validate included.
VerifyRequest(m, public_key) ==
    /\ <<>> \notin {m[f] : f \in {"protocol_version", "message_id", "request_id",
                                  "sender_node_id", "target_node_id"}}
    /\ m.operation = <<Word("ECHO")>>
    /\ m.issued_at >= 0 /\ m.expires_at > m.issued_at
    /\ m.signature_algorithm = <<Word("Ed25519")>>
    /\ m.signature # <<>>
    /\ Ed25519Verify(public_key, Canonical("python", "JOB_REQUEST", m), unb64(m.signature))

Verify(k) ==
    /\ pc = "read"
    /\ key' = k
    /\ pc' = IF \/ got.type = "JOB_RESULT" /\ VerifyResult(got.fields, k)
                \/ got.type = "FAILURE_NOTICE" /\ VerifyNotice(got.fields, k)
                \/ got.type = "JOB_REQUEST" /\ VerifyRequest(got.fields, k)
             THEN "accepted" ELSE "rejected"
    /\ UNCHANGED <<sent, over, wire, altered, got>>

Next ==
    \/ \E lang \in {"cpp", "python"}, type \in Responses \cup {"JOB_REQUEST"} :
          \E id \in Ids, content \in Contents, time \in Times, signature \in Signatures :
              Send(lang, type, id, content, time, signature)
    \/ \E type \in Responses, id \in Ids, content \in FaultyContents, time \in Times :
          Repurpose(type, id, content, time)
    \/ \E p \in 1..Len(wire) + 1 : Edit(p)
    \/ Receive
    \/ \E k \in {Signer, "other", NoKey} : Verify(k)

Spec == Init /\ [][Next]_vars
--------------------------------------------------------------------------------
\* What was signed, with the signature spelt as the reader got it: the last
\* character before the padding has bits no decoder looks at, '+' and '/' are
\* read like '-' and '_', and the C++ decoder skips blanks before the rest.
AsSpelt(lang) == [SentMessage(lang) EXCEPT !.signature = got.fields.signature]

\* What is accepted under a signature is, field by field, the message the
\* signature was made for: no other message, of this or another type or from the
\* other language, has the same canonical text, no escape is read back as
\* something else, and a timestamp that overflowed the parser's integer (undefined
\* behaviour) passes verification only with the value that was signed.
AcceptedIsSigned ==
    pc = "accepted" =>
        /\ got.type = sent.type
        /\ got.fields = AsSpelt(Reader(got.type))
        /\ sent.signature = IF Reader(got.type) = "python" THEN unb64(got.fields.signature)
                            ELSE base64url_decode(got.fields.signature)

\* A message nobody touched is read back exactly, whatever quotes, backslashes,
\* braces, control characters or characters outside ASCII its strings hold, and
\* whichever language wrote it.
ContentPreserved ==
    pc = "read" /\ ~altered =>
        /\ got.type = sent.type
        /\ got.fields["request_id"] = Held(Reader(got.type), sent.id)
        /\ \A f \in DOMAIN got.fields \cap {"payload", "reason"} :
              (IF Reader(got.type) = "cpp" THEN CodePoints(got.fields[f]) ELSE got.fields[f])
                  = sent.content

CrossesLanguages == sent.lang # Reader(sent.type)

\* The message does not parse, or its signature fails under the right key.
Refused == pc = "malformed" \/ (pc = "rejected" /\ key = Signer)

\* An untouched message verified with its writer's key is refused only for a
\* timestamp integer() overflows on (one the type cannot hold, or its minimum),
\* or for a character outside printable ASCII that the two languages' canonical
\* texts spell differently.
UntouchedAccepted ==
    ~altered /\ Refused =>
        \/ sent.time \notin -IntMax..IntMax
        \/ CrossesLanguages /\ \E i \in DOMAIN sent.content : sent.content[i] >= 127

IsNumeral(ch) == ch = Minus \/ IsDigit(ch)

\* A text without what its strings hold, and with one digit for each number.
Skeleton(t) ==
    LET scan[i \in 0..Len(t)] ==
            IF i = 0 THEN [in_string |-> FALSE, escaped |-> FALSE, depth |-> 0]
            ELSE ScanStep(scan[i - 1], t[i])
        Kept(i) == /\ ~(scan[i - 1].in_string /\ scan[i].in_string)
                   /\ ~(i > 1 /\ IsNumeral(t[i]) /\ IsNumeral(t[i - 1]))
        kept == SelectSeq([i \in 1..Len(t) |-> i], Kept)
    IN  [k \in DOMAIN kept |-> IF IsNumeral(t[kept[k]]) THEN Zero ELSE t[kept[k]]]

\* Nothing is skipped around the values of an accepted envelope: no blank, no
\* member given twice or left out, nothing after the type's closing quote.  With
\* AcceptedIsSigned, all that may differ from the text the writer wrote is how a
\* value is spelt, and each may be spelt in many ways: read_string takes \/, a \u
\* escape for any character and upper-case hex digits; integer() takes leading
\* zeros, -0 and an overflow that happens to give the signed value;
\* base64url_decode is described at AsSpelt.
StructureStrict ==
    pc = "accepted" =>
        Skeleton(wire) = Skeleton(Envelope(sent.lang, sent.type, SentMessage(sent.lang)))
================================================================================
