-------------------------------- MODULE JsonText --------------------------------
(***************************************************************************)
(* The JSON text of the execution messages: the C++ writer (canonical.hpp, *)
(* wire.hpp, failure_notice.hpp), the C++ reader (wire_parse.hpp) and the  *)
(* Python reference's writer (json.dumps as auth.py and transport.py call  *)
(* it).                                                                    *)
(*                                                                         *)
(* Text is a sequence of symbols.  A symbol below 256 is that byte.  A     *)
(* key, a type name or any other fixed word without a character to escape  *)
(* is one symbol, above every code point.  A C++ string is a sequence of   *)
(* bytes, a Python string a sequence of code points.                       *)
(***************************************************************************)
EXTENDS Integers, SequencesExt

CONSTANT IntMax     \* the greatest std::int64_t, scaled down

ASSUME IntMaxAssumption == IntMax \in Nat \ {0}

Ints == -IntMax - 1 .. IntMax

Quote == 34
Comma == 44
Minus == 45
Slash == 47
Zero == 48
Nine == 57
Colon == 58
Backslash == 92
LowerA == 97
LowerF == 102
LowerU == 117
LBrace == 123
RBrace == 125
MaxCodePoint == 1114111

\* Control characters with an escape letter of their own: \b \f \n \r \t.
ShortEscape ==
    [c \in {8, 9, 10, 12, 13} |->
        CASE c = 8 -> 98 [] c = 9 -> 116 [] c = 10 -> 110 [] c = 12 -> 102 [] c = 13 -> 114]

RequestFields ==
    <<"expires_at", "issued_at", "message_id", "operation", "organization_id", "payload",
      "protocol_version", "request_id", "sender_node_id", "signature", "signature_algorithm",
      "target_node_id">>

ResultFields ==
    <<"completed_at", "message_id", "payload", "protocol_version", "recipient_node_id",
      "request_id", "responder_node_id", "signature", "signature_algorithm", "status">>

NoticeFields ==
    <<"failed_node_id", "message_id", "observed_at", "protocol_version", "reason",
      "reporting_node_id", "request_id", "signature", "signature_algorithm">>

Fields(type) ==
    CASE type = "JOB_REQUEST" -> RequestFields
      [] type = "JOB_RESULT" -> ResultFields
      [] type = "FAILURE_NOTICE" -> NoticeFields

IntFields == {"expires_at", "issued_at", "completed_at", "observed_at"}

Words ==
    RequestFields \o ResultFields \o NoticeFields
        \o <<"type", "null", "Ed25519", "ECHO", "OK", "JOB_REQUEST", "JOB_RESULT", "FAILURE_NOTICE">>

Word(w) == MaxCodePoint + SelectInSeq(Words, LAMBDA x : x = w)
--------------------------------------------------------------------------------
(* Writers *)

Hex(n) == IF n < 10 THEN Zero + n ELSE LowerA + n - 10

UnicodeEscape(unit) ==
    <<Backslash, LowerU, Hex((unit \div 4096) % 16), Hex((unit \div 256) % 16),
      Hex((unit \div 16) % 16), Hex(unit % 16)>>

\* What json_string makes of a byte.
Escaped(ch) ==
    CASE ch \in {Quote, Backslash} -> <<Backslash, ch>>
      [] ch \in DOMAIN ShortEscape -> <<Backslash, ShortEscape[ch]>>
      [] ch < 32 /\ ch \notin DOMAIN ShortEscape -> UnicodeEscape(ch)
      [] ch >= 32 /\ ch \notin {Quote, Backslash} -> <<ch>>

\* What json.dumps makes of a code point: ensure_ascii is on.
PythonEscaped(cp) ==
    IF cp < 127 \/ cp > MaxCodePoint THEN Escaped(cp)
    ELSE IF cp <= 65535 THEN UnicodeEscape(cp)
    ELSE UnicodeEscape(55296 + (cp - 65536) \div 1024) \o UnicodeEscape(56320 + ((cp - 65536) % 1024))

JsonString(lang, value) ==
    <<Quote>>
        \o FlattenSeq([i \in DOMAIN value |->
               IF lang = "python" THEN PythonEscaped(value[i]) ELSE Escaped(value[i])])
        \o <<Quote>>

Decimal(n) ==
    LET size == IF n < 0 THEN -n ELSE n
        digits[k \in 0..size] ==
            IF k < 10 THEN <<Zero + k>> ELSE Append(digits[k \div 10], Zero + (k % 10))
    IN  IF n < 0 THEN <<Minus>> \o digits[size] ELSE digits[size]

\* An empty organization_id stands for none.
Value(lang, field, v) ==
    CASE field \in IntFields -> Decimal(v)
      [] field = "organization_id" /\ v = <<>> -> <<Word("null")>>
      [] OTHER -> JsonString(lang, v)

FlatObject(lang, fields, m) ==
    LET member(i) ==
            <<IF i = 1 THEN LBrace ELSE Comma, Quote, Word(fields[i]), Quote, Colon>>
                \o Value(lang, fields[i], m[fields[i]])
    IN  FlattenSeq([i \in DOMAIN fields |-> member(i)]) \o <<RBrace>>

\* Mutant: the signature does not cover the request id.
Canonical_NoRequestId(lang, type, m) ==
    FlatObject(lang, SelectSeq(Fields(type), LAMBDA f : f \notin {"signature", "request_id"}), m)

\* The text that is signed: every field but the signature.
Canonical(lang, type, m) == FlatObject(lang, RemoveFirst(Fields(type), "signature"), m)

EnvelopePrefix == <<LBrace, Quote, Word("payload"), Quote, Colon>>
TypePrefix == <<Comma, Quote, Word("type"), Quote, Colon, Quote>>

Envelope(lang, type, m) ==
    EnvelopePrefix \o FlatObject(lang, Fields(type), m)
        \o TypePrefix \o <<Word(type), Quote, RBrace>>
--------------------------------------------------------------------------------
(* The C++ reader.  Reading at a position either throws or gives a value   *)
(* and the position after it.                                              *)

Throws == [ok |-> FALSE]
Got(value, pos) == [ok |-> TRUE, value |-> value, pos |-> pos]

\* Goes on from what was read, unless that threw.
Then(r, Rest(_, _)) == IF r.ok THEN Rest(r.value, r.pos) ELSE Throws

At(t, p, ch) == p <= Len(t) /\ t[p] = ch

\* Mutant: the middle byte of three is not shifted.
append_utf8_LostShift(cp) ==
    IF cp <= 127 THEN <<cp>> ELSE <<224 + cp \div 4096, 128 + (cp % 64), 128 + (cp % 64)>>

append_utf8(cp) ==
    IF cp <= 127 THEN <<cp>>
    ELSE IF cp <= 2047 THEN <<192 + cp \div 64, 128 + (cp % 64)>>
    ELSE IF cp <= 65535 THEN <<224 + cp \div 4096, 128 + ((cp \div 64) % 64), 128 + (cp % 64)>>
    ELSE <<240 + cp \div 262144, 128 + ((cp \div 4096) % 64), 128 + ((cp \div 64) % 64),
           128 + (cp % 64)>>

IsHexDigit(ch) == ch \in Zero..Nine \cup 65..70 \cup LowerA..LowerF

hex_digit(ch) ==
    IF ch \in Zero..Nine THEN ch - Zero
    ELSE IF ch \in LowerA..LowerF THEN 10 + ch - LowerA ELSE 10 + ch - 65

\* The four hex digits at p.
unicode_unit(t, p) ==
    IF p + 3 > Len(t) \/ \E i \in p..p + 3 : ~IsHexDigit(t[i])
    THEN Throws
    ELSE Got(4096 * hex_digit(t[p]) + 256 * hex_digit(t[p + 1]) + 16 * hex_digit(t[p + 2])
                 + hex_digit(t[p + 3]), p + 4)

HighSurrogates == 55296..56319
LowSurrogates == 56320..57343

\* The rest of a \u escape, from the first digit on.
ReadUnicode(t, p) ==
    Then(unicode_unit(t, p), LAMBDA first, q :
        IF first \in HighSurrogates
        THEN IF At(t, q, Backslash) /\ At(t, q + 1, LowerU)
             THEN Then(unicode_unit(t, q + 2), LAMBDA second, r :
                      IF second \in LowSurrogates
                      THEN Got(append_utf8(65536 + (first - 55296) * 1024 + second - 56320), r)
                      ELSE Throws)
             ELSE Throws
        ELSE IF first \in LowSurrogates THEN Throws ELSE Got(append_utf8(first), q))

\* The escape after a backslash.
ReadEscape(t, p) ==
    IF p > Len(t) THEN Throws
    ELSE IF t[p] \in {Quote, Backslash, Slash} THEN Got(<<t[p]>>, p + 1)
    ELSE IF t[p] \in Range(ShortEscape)
    THEN Got(<<CHOOSE c \in DOMAIN ShortEscape : ShortEscape[c] = t[p]>>, p + 1)
    ELSE IF t[p] = LowerU THEN ReadUnicode(t, p + 1) ELSE Throws

ReadString(t, start) ==
    LET rest[p \in 1..Len(t) + 1] ==
            IF p > Len(t) \/ (p <= Len(t) /\ t[p] < 32) THEN Throws
            ELSE IF t[p] = Quote THEN Got(<<>>, p + 1)
            ELSE Then(IF t[p] = Backslash THEN ReadEscape(t, p + 1) ELSE Got(<<t[p]>>, p + 1),
                      LAMBDA piece, q :
                          Then(rest[q], LAMBDA tail, r : Got(piece \o tail, r)))
    IN  IF At(t, start, Quote) THEN rest[start + 1] ELSE Throws

IsDigit(ch) == ch \in Zero..Nine

\* An integer too large for its type: value * 10 + digit is then undefined.
Overflowed == IntMax + 1

ReadInteger(t, start) ==
    LET first == IF At(t, start, Minus) THEN start + 1 ELSE start
        end == CHOOSE q \in first..Len(t) + 1 :
                   /\ \A i \in first..q - 1 : IsDigit(t[i])
                   /\ q = Len(t) + 1 \/ ~IsDigit(t[q])
        value[i \in first - 1..Len(t)] ==
            IF i < first THEN 0 ELSE 10 * value[i - 1] + t[i] - Zero
        magnitude == value[end - 1]
    IN  IF first > Len(t) \/ end = first THEN Throws
        ELSE Got(IF magnitude > IntMax THEN Overflowed
                 ELSE IF first = start THEN magnitude ELSE -magnitude, end)

\* Mutant: the scan does not notice that a quote is escaped.
ScanStep_NoEscapes(s, ch) ==
    IF s.in_string THEN (IF ch = Quote THEN [s EXCEPT !.in_string = FALSE] ELSE s)
    ELSE IF ch = Quote THEN [s EXCEPT !.in_string = TRUE]
    ELSE IF ch = LBrace THEN [s EXCEPT !.depth = @ + 1]
    ELSE IF ch = RBrace THEN [s EXCEPT !.depth = @ - 1] ELSE s

\* One character of split_envelope's search for the end of the payload.
ScanStep(s, ch) ==
    IF s.in_string
    THEN IF s.escaped THEN [s EXCEPT !.escaped = FALSE]
         ELSE IF ch = Backslash THEN [s EXCEPT !.escaped = TRUE]
         ELSE IF ch = Quote THEN [s EXCEPT !.in_string = FALSE] ELSE s
    ELSE IF ch = Quote THEN [s EXCEPT !.in_string = TRUE]
    ELSE IF ch = LBrace THEN [s EXCEPT !.depth = @ + 1]
    ELSE IF ch = RBrace THEN [s EXCEPT !.depth = @ - 1] ELSE s

ScanStates == [in_string : BOOLEAN, escaped : BOOLEAN, depth : Int]

\* Where the object that starts at p ends: the first brace at depth 0, or 0.
PayloadEnd(t, p) ==
    LET scan[i \in p..Len(t) + 1] ==
            [s \in ScanStates |->
                IF i > Len(t) THEN 0
                ELSE LET next == ScanStep(s, t[i])
                     IN  IF next.depth = 0 /\ s.depth = 1 THEN i ELSE scan[i + 1][next]]
    IN  scan[p][[in_string |-> FALSE, escaped |-> FALSE, depth |-> 0]]

\* Mutant: whatever follows the type's closing quote is ignored.
TypeSuffix_Prefix(suffix, quote) ==
    /\ Len(suffix) >= Len(TypePrefix) + 2
    /\ IsPrefix(TypePrefix, suffix)
    /\ Last(suffix) = RBrace
    /\ quote # 0

\* What follows the payload is ,"type":"..."} and nothing else.
TypeSuffix(suffix, quote) ==
    /\ Len(suffix) >= Len(TypePrefix) + 2
    /\ IsPrefix(TypePrefix, suffix)
    /\ Last(suffix) = RBrace
    /\ quote # 0 /\ quote = Len(suffix) - 1

\* The two parts of an envelope whose payload ends at end.
PartsAround(t, end) ==
    LET suffix == SubSeq(t, end + 1, Len(t))
        quote == SelectInSubSeq(suffix, Len(TypePrefix) + 1, Len(suffix), LAMBDA ch : ch = Quote)
    IN  IF end # 0 /\ TypeSuffix(suffix, quote)
        THEN [ok |-> TRUE, payload |-> SubSeq(t, Len(EnvelopePrefix) + 1, end),
              type |-> SubSeq(suffix, Len(TypePrefix) + 1, quote - 1)]
        ELSE Throws

split_envelope(t) ==
    IF IsPrefix(Append(EnvelopePrefix, LBrace), t)
    THEN PartsAround(t, PayloadEnd(t, Len(EnvelopePrefix) + 1))
    ELSE Throws

\* A string or an integer; null is read by json.loads only, in a request.
ReadValue(t, p, field) ==
    IF field \in IntFields THEN ReadInteger(t, p)
    ELSE IF field = "organization_id" /\ At(t, p, Word("null")) THEN Got(<<>>, p + 1)
    ELSE ReadString(t, p)

\* key(f), then the value, then the expected separator.
ReadField(t, before, field, separator) ==
    Then(before, LAMBDA previous, p :
        Then(ReadString(t, p), LAMBDA name, q :
            IF name # <<Word(field)>> \/ ~At(t, q, Colon) THEN Throws
            ELSE Then(ReadValue(t, q + 1, field), LAMBDA value, r :
                     IF At(t, r, separator) THEN Got(value, r + 1) ELSE Throws)))

\* The whole payload: the fields in their order, the closing brace, no more.
ReadObject(t, fields) ==
    LET n == Len(fields)
        read[i \in 0..n] ==
            IF i = 0 THEN (IF At(t, 1, LBrace) THEN Got(<<>>, 2) ELSE Throws)
            ELSE ReadField(t, read[i - 1], fields[i], IF i = n THEN RBrace ELSE Comma)
        object == [f \in ToSet(fields) |-> read[CHOOSE i \in 1..n : fields[i] = f].value]
    IN  Then(read[n], LAMBDA last, p : IF p = Len(t) + 1 THEN Got(object, p) ELSE Throws)
================================================================================
