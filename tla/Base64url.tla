-------------------------------- MODULE Base64url -------------------------------
(***************************************************************************)
(* How a signature travels as text: base64url_encode and base64url_decode  *)
(* of crypto.hpp around OpenSSL's block functions, and the decoder of the  *)
(* Python reference (job.py's _unb64).  Characters are JsonText's bytes.   *)
(*                                                                         *)
(* EVP_DecodeBlock skips blanks and tabs at the beginning and white space  *)
(* at the end, wants whole groups of four and takes '=' for six zero bits  *)
(* wherever it finds it; what the padding means is left to its caller.     *)
(***************************************************************************)
EXTENDS JsonText

Blank == 32
Plus == 43
Pad == 61
Underscore == 95

Invalid == <<-1>>       \* the decoder throws

\* The character of six bits: letters, digits, '+' and '/'.
Character(bits) ==
    IF bits <= 25 THEN 65 + bits
    ELSE IF bits <= 51 THEN LowerA + bits - 26
    ELSE IF bits <= 61 THEN Zero + bits - 52
    ELSE IF bits = 62 THEN Plus ELSE Slash

Alphabet == {Character(bits) : bits \in 0..63}

Bits(ch) == IF ch = Pad THEN 0 ELSE CHOOSE bits \in 0..63 : Character(bits) = ch

\* std::replace
Replaced(t, old, new) == [i \in DOMAIN t |-> IF t[i] = old THEN new ELSE t[i]]

\* Three bytes, or what is left of them, as one number.
Group(bytes, q) ==
    LET Byte(i) == IF i <= Len(bytes) THEN bytes[i] ELSE 0
    IN  65536 * Byte(3 * q + 1) + 256 * Byte(3 * q + 2) + Byte(3 * q + 3)

EVP_EncodeBlock(bytes) ==
    [i \in 1..4 * ((Len(bytes) + 2) \div 3) |->
        LET q == (i - 1) \div 4
            k == (i - 1) % 4
        IN  IF k > 0 /\ 3 * q + k > Len(bytes)
            THEN Pad
            ELSE Character((Group(bytes, q) \div <<262144, 4096, 64, 1>>[k + 1]) % 64)]

base64url_encode(bytes) == Replaced(Replaced(EVP_EncodeBlock(bytes), Plus, Minus), Slash, Underscore)

Leading == {9, Blank}                   \* tab and blank
Trailing == Leading \cup {10, 13}       \* and the ends of a line

\* EVP_DecodeBlock's bytes, three for every four characters.  The end is cut back
\* to no less than three characters, which are then not a whole group.
EVP_DecodeBlock(t) ==
    LET first == SelectInSeq(t, LAMBDA ch : ch \notin Leading)
        last == SelectLastInSeq(t, LAMBDA ch : ch \notin Trailing)
        core == IF first = 0 THEN <<>> ELSE SubSeq(t, first, last)
        Quad(q) == FoldLeft(LAMBDA acc, ch : 64 * acc + Bits(ch), 0, SubSeq(core, 4 * q + 1, 4 * q + 4))
    IN  IF Len(core) % 4 # 0 \/ (first # 0 /\ core = <<>>) \/ ~(ToSet(core) \subseteq Alphabet \cup {Pad})
        THEN Invalid
        ELSE [i \in 1..3 * (Len(core) \div 4) |->
                 (Quad((i - 1) \div 3) \div 256^(2 - ((i - 1) % 3))) % 256]

\* Mutant: only the last character is looked at.
PaddingBytes_One(t) == IF t # <<>> /\ Last(t) = Pad THEN 1 ELSE 0

\* The bytes base64url_decode takes off for padding, by the text's last two
\* characters.
PaddingBytes(t) ==
    (IF t # <<>> /\ Last(t) = Pad THEN 1 ELSE 0)
        + (IF Len(t) >= 2 /\ t[Len(t) - 1] = Pad THEN 1 ELSE 0)

\* The text in the alphabet EVP_DecodeBlock knows.
Standard(t) == Replaced(Replaced(t, Minus, Plus), Underscore, Slash)

base64url_decode(t) ==
    LET bytes == EVP_DecodeBlock(Standard(t))
    IN  IF Len(t) % 4 # 0 \/ bytes = Invalid
        THEN Invalid
        ELSE SubSeq(bytes, 1, Len(bytes) - PaddingBytes(t))

\* base64.b64decode with validate=True: characters of the alphabet, then at most
\* two of padding.
unb64(t) ==
    LET data == SelectSeq(Standard(t), LAMBDA ch : ch # Pad)
        padding == Len(t) - Len(data)
    IN  IF /\ Len(t) % 4 = 0 /\ padding <= 2
           /\ ToSet(data) \subseteq Alphabet /\ IsPrefix(data, Standard(t))
        THEN SubSeq(EVP_DecodeBlock(Standard(t)), 1, 3 * (Len(t) \div 4) - padding)
        ELSE Invalid
================================================================================
