-------------------------- MODULE SignedWire_proofs ------------------------------
(***************************************************************************)
(* AcceptedIsSigned for all payloads, identifiers, timestamps, signatures  *)
(* and edits, of any length.                                               *)
(*                                                                         *)
(* The argument has two halves.  The canonical text determines the         *)
(* message: the escapes of one character are never the beginning of those  *)
(* of another, neither within a language nor between the two, so that from *)
(* one position of a text at most one string can be read, then at most one *)
(* value, one member and one object (CanonicalUnique).  And what the       *)
(* reader parses is a message at all: whatever the text, each of its       *)
(* recursions is defined and gives a value of its field's kind, or throws  *)
(* (ObjectRead).  An accepted message has the canonical text that was      *)
(* signed, and is therefore the message that was signed.                   *)
(***************************************************************************)
EXTENDS SignedWire, WellFoundedInduction, SequenceTheorems, TLAPS

(* Induction and recursion                                                *)

LEMMA LeastNatural ==
    ASSUME NEW S \in SUBSET Nat, NEW e \in S
    PROVE  \E x \in S : \A y \in S : x <= y
<1>1. IsWellFoundedOn(OpToRel(<, Nat), Nat) BY NatLessThanWellFounded
<1>2. PICK x \in S : \A y \in S : ~ (<<y, x>> \in OpToRel(<, Nat)) BY <1>1, WFMin, Zenon
<1>3. \A y \in S : ~ (y < x) BY <1>2 DEF OpToRel
<1> QED BY <1>3

\* A set that holds 0, and with each number the next, holds them all.
LEMMA Induction ==
    ASSUME NEW n \in Nat, NEW S, 0 \in S, \A i \in 1..n : i - 1 \in S => i \in S
    PROVE  \A i \in 0..n : i \in S
<1> SUFFICES ASSUME NEW i \in 0..n, i \notin S PROVE FALSE OBVIOUS
<1> DEFINE out == {k \in 0..n : k \notin S}
<1>1. PICK x \in out : \A y \in out : x <= y
    <2>1. out \in SUBSET Nat /\ i \in out OBVIOUS
    <2> HIDE DEF out
    <2> QED BY <2>1, LeastNatural
<1>2. x \in 1..n /\ x - 1 \in 0..n /\ x - 1 \notin out BY <1>1
<1> QED BY <1>2

\* A set that holds each x when it holds everything of lower rank holds them all.
LEMMA RankInduction ==
    ASSUME NEW D, NEW rank \in [D -> Nat], NEW S,
           \A x \in D : (\A y \in D : rank[y] < rank[x] => y \in S) => x \in S
    PROVE  \A x \in D : x \in S
<1> SUFFICES ASSUME NEW x \in D, x \notin S PROVE FALSE OBVIOUS
<1> DEFINE out == {rank[y] : y \in {z \in D : z \notin S}}
<1>1. out \in SUBSET Nat /\ rank[x] \in out OBVIOUS
<1>2. PICK r \in out : \A s \in out : r <= s
    <2> HIDE DEF out
    <2> QED BY <1>1, LeastNatural
<1>3. PICK y \in D : y \notin S /\ r = rank[y] BY <1>2
<1>4. \A z \in D : rank[z] < rank[y] => z \in S
    <2> SUFFICES ASSUME NEW z \in D, rank[z] < rank[y], z \notin S PROVE FALSE OBVIOUS
    <2>1. rank[z] \in out OBVIOUS
    <2> HIDE DEF out
    <2>2. rank[y] <= rank[z] BY <1>2, <1>3, <2>1
    <2>3. rank[y] \in Nat /\ rank[z] \in Nat OBVIOUS
    <2> QED BY <2>2, <2>3
<1> QED BY <1>3, <1>4

\* Outside B the value at x is made from the value at prev[x], of lower rank.
Descends(D, n, rank, B, prev, V, base, step) ==
    /\ n \in Nat /\ rank \in [D -> 0..n] /\ prev \in [D -> D]
    /\ \A x \in D : x \notin B => rank[prev[x]] < rank[x]
    /\ base \in [D -> V] /\ step \in [V \X D -> V]

At1(f, x, B, prev, base, step) ==
    f[x] = IF x \in B THEN base[x] ELSE step[<<f[prev[x]], x>>]

Solvable(D, B, prev, V, base, step) ==
    \E f \in [D -> V] : \A x \in D : At1(f, x, B, prev, base, step)

\* A recursive definition over such an order has a solution.
LEMMA Recursion ==
    ASSUME NEW D, NEW n, NEW rank, NEW B, NEW prev, NEW V, NEW base, NEW step,
           Descends(D, n, rank, B, prev, V, base, step)
    PROVE  Solvable(D, B, prev, V, base, step)
<1> DEFINE iter(f) == [x \in D |-> IF x \in B THEN base[x] ELSE step[<<f[prev[x]], x>>]]
           S == {k \in 0..n : \E f \in [D -> V] : \A x \in D : rank[x] <= k => At1(f, x, B, prev, base, step)}
<1>0. /\ n \in Nat /\ rank \in [D -> 0..n] /\ prev \in [D -> D]
      /\ \A x \in D : x \notin B => rank[prev[x]] < rank[x]
      /\ base \in [D -> V] /\ step \in [V \X D -> V]
    BY DEF Descends
<1>1. \A f \in [D -> V] : iter(f) \in [D -> V] BY <1>0
<1>2. \A f \in [D -> V] : \A x \in D :
          iter(f)[x] = IF x \in B THEN base[x] ELSE step[<<f[prev[x]], x>>]
    OBVIOUS
<1> HIDE DEF iter
<1>3. 0 \in S
    <2>1. \A x \in D : rank[x] <= 0 => At1(iter(base), x, B, prev, base, step)
        <3> SUFFICES ASSUME NEW x \in D, rank[x] <= 0 PROVE At1(iter(base), x, B, prev, base, step) OBVIOUS
        <3>1. prev[x] \in D /\ rank[prev[x]] \in 0..n BY <1>0
        <3>2. x \in B BY <1>0, <3>1
        <3> QED BY <1>0, <1>2, <3>2 DEF At1
    <2>2. 0 \in 0..n BY <1>0
    <2> QED BY <1>0, <1>1, <2>1, <2>2
<1>4. ASSUME NEW k \in 1..n, k - 1 \in S PROVE k \in S
    <2>1. PICK f \in [D -> V] : \A x \in D : rank[x] <= k - 1 => At1(f, x, B, prev, base, step) BY <1>4
    <2>2. \A x \in D : rank[x] <= k => At1(iter(f), x, B, prev, base, step)
        <3> SUFFICES ASSUME NEW x \in D, rank[x] <= k PROVE At1(iter(f), x, B, prev, base, step) OBVIOUS
        <3>1. CASE x \in B BY <1>2, <3>1 DEF At1
        <3>2. CASE x \notin B
            <4> DEFINE y == prev[x]
            <4>1. y \in D /\ rank[y] \in 0..n /\ rank[x] \in 0..n /\ rank[y] < rank[x] BY <1>0, <3>2
            <4> HIDE DEF y
            <4>2. rank[y] <= k - 1 BY <4>1
            <4>3. iter(f)[y] = f[y] BY <1>2, <2>1, <4>1, <4>2 DEF At1
            <4> QED BY <1>2, <3>2, <4>3 DEF At1, y
        <3> QED BY <3>1, <3>2
    <2>3. k \in 0..n OBVIOUS
    <2> QED BY <1>1, <2>2, <2>3
<1> HIDE DEF S
<1>5. n \in S
    <2>1. n \in Nat BY <1>0
    <2>2. \A i \in 0..n : i \in S BY <1>3, <1>4, <2>1, Induction
    <2> QED BY <2>1, <2>2
<1>6. PICK f \in [D -> V] : \A x \in D : rank[x] <= n => At1(f, x, B, prev, base, step) BY <1>5 DEF S
<1>7. \A x \in D : rank[x] <= n BY <1>0
<1> QED BY <1>6, <1>7 DEF Solvable

--------------------------------------------------------------------------------
(* Escapes: which text stands for a character                             *)

Joined(a, b, c) ==
    /\ c \in Seq(Nat) /\ Len(c) = Len(a) + Len(b)
    /\ \A i \in 1..Len(a) : c[i] = a[i]
    /\ \A i \in 1..Len(b) : c[Len(a) + i] = b[i]

LEMMA ConcatFacts == ASSUME NEW a \in Seq(Nat), NEW b \in Seq(Nat) PROVE Joined(a, b, a \o b)
<1>1. a \o b \in Seq(Nat) /\ Len(a \o b) = Len(a) + Len(b) OBVIOUS
<1>2. \A i \in 1..Len(a) : (a \o b)[i] = a[i] OBVIOUS
<1>3. \A i \in 1..Len(b) : (a \o b)[Len(a) + i] = b[i] OBVIOUS
<1> QED BY <1>1, <1>2, <1>3 DEF Joined

Lies(x, T, p) == p + Len(x) <= Len(T) /\ \A j \in 1..Len(x) : T[p + j] = x[j]

LEMMA LiesConcat ==
    ASSUME NEW a \in Seq(Nat), NEW b \in Seq(Nat), NEW T \in Seq(Nat), NEW p \in Nat, Lies(a \o b, T, p)
    PROVE  Lies(a, T, p) /\ Lies(b, T, p + Len(a))
<1>1. Len(a \o b) = Len(a) + Len(b) /\ Len(a) \in Nat /\ Len(b) \in Nat /\ Len(T) \in Nat OBVIOUS
<1>2. \A j \in 1..Len(a) : (a \o b)[j] = a[j] OBVIOUS
<1>3. \A j \in 1..Len(b) : (a \o b)[Len(a) + j] = b[j] OBVIOUS
<1> DEFINE c == a \o b
<1>4. p + Len(c) <= Len(T) /\ \A j \in 1..Len(c) : T[p + j] = c[j] BY DEF Lies
<1> HIDE DEF c
<1>5. Lies(a, T, p)
    <2>1. \A j \in 1..Len(a) : j \in 1..Len(c) /\ c[j] = a[j] BY <1>1, <1>2 DEF c
    <2>2. Len(c) = Len(a) + Len(b) BY <1>1 DEF c
    <2> QED BY <1>1, <1>4, <2>1, <2>2 DEF Lies
<1>6. Lies(b, T, p + Len(a))
    <2>1. Len(c) = Len(a) + Len(b) BY <1>1 DEF c
    <2>2. ASSUME NEW j \in 1..Len(b) PROVE T[(p + Len(a)) + j] = b[j]
        <3>1. Len(a) + j \in 1..Len(c) BY <1>1, <2>1
        <3>2. T[p + (Len(a) + j)] = c[Len(a) + j] BY <1>4, <3>1
        <3>3. p + (Len(a) + j) = (p + Len(a)) + j BY <1>1
        <3> QED BY <1>3, <3>2, <3>3 DEF c
    <2>3. (p + Len(a)) + Len(b) <= Len(T) BY <1>1, <1>4, <2>1
    <2> QED BY <2>2, <2>3 DEF Lies
<1> QED BY <1>5, <1>6

LEMMA LiesWhole == ASSUME NEW T \in Seq(Nat) PROVE Lies(T, T, 0)
BY DEF Lies

LEMMA LiesIn ==
    ASSUME NEW a \in Seq(Nat), NEW b \in Seq(Nat), NEW T \in Seq(Nat), NEW p \in Nat, NEW q \in Nat,
           Lies(a, b, q), Lies(b, T, p)
    PROVE  Lies(a, T, p + q)
<1>1. Len(a) \in Nat /\ Len(b) \in Nat /\ Len(T) \in Nat OBVIOUS
<1>0. q + Len(a) <= Len(b) /\ p + Len(b) <= Len(T) BY DEF Lies
<1>2. ASSUME NEW j \in 1..Len(a) PROVE T[(p + q) + j] = a[j]
    <2>1. q + j \in 1..Len(b) BY <1>0, <1>1
    <2>2. T[p + (q + j)] = b[q + j] /\ b[q + j] = a[j] BY <2>1 DEF Lies
    <2> QED BY <1>1, <2>2
<1>3. (p + q) + Len(a) <= Len(T) BY <1>0, <1>1
<1> QED BY <1>2, <1>3 DEF Lies

Escape(c) ==
    \/ c >= 32 /\ c # Quote /\ c # Backslash /\ Escaped(c) = <<c>>
    \/ c \in {Quote, Backslash} /\ Escaped(c) = <<Backslash, c>>
    \/ c = 8 /\ Escaped(c) = <<Backslash, 98>>
    \/ c = 9 /\ Escaped(c) = <<Backslash, 116>>
    \/ c = 10 /\ Escaped(c) = <<Backslash, 110>>
    \/ c = 12 /\ Escaped(c) = <<Backslash, 102>>
    \/ c = 13 /\ Escaped(c) = <<Backslash, 114>>
    \/ c < 32 /\ Escaped(c) = <<Backslash, LowerU, Zero, Zero, Hex(c \div 16), Hex(c % 16)>>

LEMMA EscapedShape == ASSUME NEW c \in Nat PROVE Escape(c)
<1> USE DEF Quote, Backslash
<1>1. CASE c >= 32 /\ c \notin {Quote, Backslash}
    <2>1. c \notin DOMAIN ShortEscape BY <1>1 DEF ShortEscape
    <2> QED BY <1>1, <2>1 DEF Escape, Escaped
<1>2. CASE c \in {Quote, Backslash}
    <2>1. c \notin DOMAIN ShortEscape BY <1>2 DEF ShortEscape
    <2> QED BY <1>2, <2>1 DEF Escape, Escaped
<1>3. CASE c \in {8, 9, 10, 12, 13}
    <2>1. c \in DOMAIN ShortEscape BY <1>3 DEF ShortEscape
    <2>2. Escaped(c) = <<Backslash, ShortEscape[c]>> BY <1>3, <2>1 DEF Escaped
    <2>3. /\ ShortEscape[8] = 98 /\ ShortEscape[9] = 116 /\ ShortEscape[10] = 110
          /\ ShortEscape[12] = 102 /\ ShortEscape[13] = 114
        BY DEF ShortEscape
    <2> QED BY <1>3, <2>2, <2>3 DEF Escape
<1>4. CASE c < 32 /\ c \notin {8, 9, 10, 12, 13}
    <2>1. c \notin DOMAIN ShortEscape BY <1>4 DEF ShortEscape
    <2>2. Escaped(c) = UnicodeEscape(c) BY <1>4, <2>1 DEF Escaped
    <2>3. (c \div 4096) % 16 = 0 /\ (c \div 256) % 16 = 0 /\ (c \div 16) % 16 = c \div 16 BY <1>4
    <2>4. Hex(0) = Zero BY DEF Hex, Zero
    <2>5. UnicodeEscape(c) = <<Backslash, LowerU, Zero, Zero, Hex(c \div 16), Hex(c % 16)>>
        BY <2>3, <2>4 DEF UnicodeEscape
    <2> QED BY <1>4, <2>2, <2>5 DEF Escape
<1> QED BY <1>1, <1>2, <1>3, <1>4

--------------------------------------------------------------------------------
Code(lang, c) == IF lang = "python" THEN PythonEscaped(c) ELSE Escaped(c)

LEMMA HexFacts == ASSUME NEW n \in 0..15 PROVE Hex(n) \in 48..102
BY DEF Hex, Zero, LowerA

LEMMA HexUnique == ASSUME NEW n \in 0..15, NEW m \in 0..15, Hex(n) = Hex(m) PROVE n = m
BY DEF Hex, Zero, LowerA

\* The four digits of a unit.
Nibble(u, i) ==
    IF i = 1 THEN (u \div 4096) % 16 ELSE IF i = 2 THEN (u \div 256) % 16
    ELSE IF i = 3 THEN (u \div 16) % 16 ELSE u % 16

LEMMA NibbleType == ASSUME NEW u \in Nat PROVE \A i \in 1..4 : Nibble(u, i) \in 0..15
<1>1. \A x \in Nat : x % 16 \in 0..15 BY SMT
<1>2. u \div 4096 \in Nat /\ u \div 256 \in Nat /\ u \div 16 \in Nat BY SMT
<1> QED BY SMT, <1>1, <1>2 DEF Nibble

LEMMA UnitFacts ==
    ASSUME NEW u \in Nat
    PROVE  /\ UnicodeEscape(u) \in Seq(Nat) /\ Len(UnicodeEscape(u)) = 6
           /\ UnicodeEscape(u)[1] = Backslash /\ UnicodeEscape(u)[2] = LowerU
           /\ \A i \in 1..4 : UnicodeEscape(u)[2 + i] = Hex(Nibble(u, i))
<1> DEFINE a == Hex((u \div 4096) % 16)
           b == Hex((u \div 256) % 16)
           c == Hex((u \div 16) % 16)
           d == Hex(u % 16)
<1>1. /\ a = Hex(Nibble(u, 1)) /\ b = Hex(Nibble(u, 2)) /\ c = Hex(Nibble(u, 3))
      /\ d = Hex(Nibble(u, 4))
    BY SMT DEF Nibble
<1>2. UnicodeEscape(u) = <<Backslash, LowerU, a, b, c, d>> BY SMT DEF UnicodeEscape
<1> HIDE DEF a, b, c, d
<1>3. \A i \in 1..4 : Hex(Nibble(u, i)) \in 48..102 BY NibbleType, HexFacts
<1>4. a \in Nat /\ b \in Nat /\ c \in Nat /\ d \in Nat BY <1>1, <1>3
<1>5. Backslash \in Nat /\ LowerU \in Nat BY DEF Backslash, LowerU
<1> QED BY <1>1, <1>2, <1>4, <1>5

High(c) == 55296 + (c - 65536) \div 1024
Low(c) == 56320 + ((c - 65536) % 1024)

LEMMA SurrogateFacts ==
    ASSUME NEW c \in Nat, c > 65535, c <= MaxCodePoint
    PROVE  /\ PythonEscaped(c) = UnicodeEscape(High(c)) \o UnicodeEscape(Low(c))
           /\ High(c) \in Nat /\ 55296 <= High(c) /\ High(c) <= 56319
           /\ Low(c) \in Nat /\ 56320 <= Low(c) /\ Low(c) <= 57343
<1>1. c \in Nat /\ c >= 65536 /\ c <= 1114111 BY SMT DEF MaxCodePoint
<1>2. PICK x \in Nat : x = c - 65536 /\ x <= 1048575 BY SMT, <1>1
<1>3. x \div 1024 \in 0..1023 /\ x % 1024 \in 0..1023 BY SMT, <1>2
<1>4. /\ High(c) \in Nat /\ 55296 <= High(c) /\ High(c) <= 56319
      /\ Low(c) \in Nat /\ 56320 <= Low(c) /\ Low(c) <= 57343
    BY SMT, <1>2, <1>3 DEF High, Low
<1>5. ~(c < 127 \/ c > MaxCodePoint) /\ ~(c <= 65535) BY SMT, <1>1 DEF MaxCodePoint
<1>6. PythonEscaped(c) = UnicodeEscape(High(c)) \o UnicodeEscape(Low(c))
    BY SMT, <1>5 DEF PythonEscaped, High, Low
<1> QED BY SMT, <1>4, <1>6

LEMMA PythonUnit == ASSUME NEW c \in Nat, c >= 127, c <= 65535 PROVE PythonEscaped(c) = UnicodeEscape(c)
BY SMT DEF PythonEscaped, MaxCodePoint

LEMMA PythonShort ==
    ASSUME NEW c \in Nat, c < 127 \/ c > MaxCodePoint PROVE PythonEscaped(c) = Escaped(c)
BY SMT DEF PythonEscaped, MaxCodePoint

Single(c) == c < 127 \/ c > MaxCodePoint

\* What x, the code of c, looks like: a symbol, a backslash and a letter, or the
\* six symbols of a unit below 32.
EscapeFacts(c, x) ==
    /\ x \in Seq(Nat) /\ Len(x) \in {1, 2, 6} /\ x[1] # Quote
    /\ Len(x) = 1 => c >= 32 /\ c # Quote /\ c # Backslash /\ x = <<c>>
    /\ Len(x) > 1 => x[1] = Backslash
    /\ Len(x) = 2 => x[2] # LowerU
    /\ Len(x) = 6 => /\ c < 32 /\ x[2] = LowerU /\ x[3] = Zero /\ x[4] = Zero
                     /\ x[5] = Hex(c \div 16) /\ x[6] = Hex(c % 16)

LEMMA EscapedFacts == ASSUME NEW c \in Nat PROVE EscapeFacts(c, Escaped(c))
<1> DEFINE x == Escaped(c)
<1>0. Escape(c) BY EscapedShape
<1> USE DEF Quote, Backslash, LowerU, Zero
<1>1. ASSUME c >= 32, c # Quote, c # Backslash, x = <<c>> PROVE EscapeFacts(c, x)
    <2> HIDE DEF x
    <2> QED BY <1>1 DEF EscapeFacts
<1>2. ASSUME NEW e \in Nat \ {LowerU}, x = <<Backslash, e>> PROVE EscapeFacts(c, x)
    <2> HIDE DEF x
    <2> QED BY <1>2 DEF EscapeFacts
<1>3. ASSUME c < 32, x = <<Backslash, LowerU, Zero, Zero, Hex(c \div 16), Hex(c % 16)>>
      PROVE  EscapeFacts(c, x)
    <2> HIDE DEF x
    <2>1. c \div 16 \in 0..15 /\ c % 16 \in 0..15 BY <1>3
    <2>2. Hex(c \div 16) \in 48..102 /\ Hex(c % 16) \in 48..102 BY <2>1, HexFacts
    <2>3. PICK h \in Nat, g \in Nat : h = Hex(c \div 16) /\ g = Hex(c % 16) BY <2>2
    <2>4. x = <<92, 117, 48, 48, h, g>> BY <1>3, <2>3
    <2>5. /\ x \in Seq(Nat) /\ Len(x) = 6 /\ x[1] = 92 /\ x[2] = 117 /\ x[3] = 48 /\ x[4] = 48
          /\ x[5] = h /\ x[6] = g
        BY <2>4
    <2> QED BY <1>3, <2>3, <2>5 DEF EscapeFacts
<1> HIDE DEF x
<1>4. \/ c >= 32 /\ c # Quote /\ c # Backslash /\ x = <<c>>
      \/ \E e \in Nat \ {LowerU} : x = <<Backslash, e>>
      \/ c < 32 /\ x = <<Backslash, LowerU, Zero, Zero, Hex(c \div 16), Hex(c % 16)>>
    BY <1>0 DEF Escape, x
<1>5. EscapeFacts(c, x) BY <1>1, <1>2, <1>3, <1>4
<1> QED BY <1>5 DEF x

LEMMA EscapedUnique ==
    ASSUME NEW c \in Nat, NEW d \in Nat, Escaped(c) = Escaped(d) PROVE c = d
<1>1. CASE Len(Escaped(c)) = 6
    <2>1. /\ c < 32 /\ d < 32
          /\ Hex(c \div 16) = Hex(d \div 16) /\ Hex(c % 16) = Hex(d % 16)
        <3>1. c < 32 /\ Escaped(c)[5] = Hex(c \div 16) /\ Escaped(c)[6] = Hex(c % 16)
            BY <1>1, EscapedFacts DEF EscapeFacts
        <3>2. d < 32 /\ Escaped(d)[5] = Hex(d \div 16) /\ Escaped(d)[6] = Hex(d % 16)
            BY <1>1, EscapedFacts DEF EscapeFacts
        <3> QED BY <3>1, <3>2
    <2>2. c \div 16 \in 0..15 /\ c % 16 \in 0..15 /\ d \div 16 \in 0..15 /\ d % 16 \in 0..15 BY <2>1
    <2>3. c \div 16 = d \div 16 /\ c % 16 = d % 16 BY <2>1, <2>2, HexUnique
    <2> QED BY <2>1, <2>3
<1>2. CASE Len(Escaped(c)) # 6
    <2>1. Escape(c) /\ Escape(d) BY EscapedShape
    <2> QED BY <1>2, <2>1 DEF Escape, Quote, Backslash
<1> QED BY <1>1, <1>2


\* x and y are alike as far as both go.
Agree(x, y) == \A j \in 1..Len(x) : j <= Len(y) => x[j] = y[j]

LEMMA AgreeAt ==
    ASSUME NEW x \in Seq(Nat), NEW y \in Seq(Nat), Agree(x, y), NEW j \in Nat, 1 <= j, j <= Len(x), j <= Len(y)
    PROVE  x[j] = y[j]
<1>1. Len(x) \in Nat OBVIOUS
<1>2. j \in 1..Len(x) BY <1>1
<1> QED BY <1>2 DEF Agree

LEMMA EscapeHead ==
    ASSUME NEW c \in Nat, NEW x, EscapeFacts(c, x), NEW n \in Nat, n = Len(x)
    PROVE  (n = 1 => x[1] # Backslash) /\ (n > 1 => x[1] = Backslash) /\ (n = 2 => x[2] # LowerU) /\ (n = 6 => x[2] = LowerU)
<1>1. ASSUME n = 1 PROVE x[1] # Backslash
    <2>1. c # Backslash /\ x = <<c>> BY <1>1 DEF EscapeFacts
    <2>2. <<c>>[1] = c OBVIOUS
    <2> QED BY <2>1, <2>2
<1>2. (n > 1 => x[1] = Backslash) /\ (n = 2 => x[2] # LowerU) /\ (n = 6 => x[2] = LowerU) BY DEF EscapeFacts
<1> QED BY <1>1, <1>2

LEMMA ShortUnique ==
    ASSUME NEW c \in Nat, NEW d \in Nat, NEW x \in Seq(Nat), NEW y \in Seq(Nat),
           EscapeFacts(c, x), EscapeFacts(d, y), Agree(x, y)
    PROVE  x = y
<1>0. Len(x) \in {1, 2, 6} /\ Len(y) \in {1, 2, 6} BY DEF EscapeFacts
<1>1. PICK n \in Nat : n = Len(x) /\ (n = 1 \/ n = 2 \/ n = 6) BY <1>0
<1>2. PICK m \in Nat : m = Len(y) /\ (m = 1 \/ m = 2 \/ m = 6) BY <1>0
<1>3. x[1] = y[1]
    <2>1. 1 <= Len(x) /\ 1 <= Len(y) BY <1>1, <1>2
    <2> QED BY <2>1, AgreeAt
<1>4. n > 1 /\ m > 1 => x[2] = y[2]
    <2>1. n > 1 /\ m > 1 => 2 <= Len(x) /\ 2 <= Len(y) BY <1>1, <1>2
    <2> QED BY <2>1, AgreeAt
<1>5. (n = 1 => x[1] # Backslash) /\ (n > 1 => x[1] = Backslash) /\ (n = 2 => x[2] # LowerU) /\ (n = 6 => x[2] = LowerU)
    BY <1>1, EscapeHead
<1>6. (m = 1 => y[1] # Backslash) /\ (m > 1 => y[1] = Backslash) /\ (m = 2 => y[2] # LowerU) /\ (m = 6 => y[2] = LowerU)
    BY <1>2, EscapeHead
<1>7. n = m
    <2>1. (n = 1 \/ n = 2 \/ n = 6) /\ (m = 1 \/ m = 2 \/ m = 6) BY <1>1, <1>2
    <2> QED BY <1>3, <1>4, <1>5, <1>6, <2>1
<1>8. Len(x) = Len(y) BY <1>1, <1>2, <1>7
<1>9. \A i \in 1..Len(x) : x[i] = y[i] BY <1>8 DEF Agree
<1> QED BY <1>8, <1>9, SeqEqual

\* x begins with the escape of a unit.
UnitFirst(x, u) ==
    /\ Len(x) >= 6 /\ x[1] = Backslash /\ x[2] = LowerU
    /\ \A i \in 1..4 : x[2 + i] = Hex(Nibble(u, i))

LEMMA PairFacts ==
    ASSUME NEW h \in Nat, NEW a \in Seq(Nat), NEW b \in Seq(Nat), UnitFirst(a, h)
    PROVE  a \o b \in Seq(Nat) /\ UnitFirst(a \o b, h)
<1>1. Joined(a, b, a \o b) BY ConcatFacts
<1> DEFINE y == a \o b
<1>2. Joined(a, b, y) BY <1>1
<1> HIDE DEF y
<1>3. y \in Seq(Nat) /\ Len(y) = Len(a) + Len(b) /\ \A i \in 1..Len(a) : y[i] = a[i] BY <1>2 DEF Joined
<1>4. Len(a) \in Nat /\ Len(b) \in Nat /\ Len(a) >= 6 BY DEF UnitFirst
<1>5. \A i \in 1..6 : y[i] = a[i]
    <2>1. \A i \in 1..6 : i \in 1..Len(a) BY <1>4
    <2> QED BY <1>3, <2>1
<1>6. \A i \in 1..4 : 2 + i \in 1..6 OBVIOUS
<1>7. \A i \in 1..4 : y[2 + i] = a[2 + i] BY <1>5, <1>6
<1>8. UnitFirst(y, h)
    <2>1. Len(y) >= 6 BY <1>3, <1>4
    <2>2. y[1] = Backslash /\ y[2] = LowerU BY <1>5 DEF UnitFirst
    <2>3. \A i \in 1..4 : y[2 + i] = Hex(Nibble(h, i)) BY <1>7 DEF UnitFirst
    <2> QED BY <2>1, <2>2, <2>3 DEF UnitFirst
<1> QED BY <1>3, <1>8 DEF y

LEMMA UnitIsFirst == ASSUME NEW u \in Nat PROVE UnicodeEscape(u) \in Seq(Nat) /\ UnitFirst(UnicodeEscape(u), u)
BY UnitFacts DEF UnitFirst

LEMMA LongFacts ==
    ASSUME NEW d \in Nat, ~Single(d)
    PROVE  PythonEscaped(d) \in Seq(Nat) /\ \E u \in Nat : u >= 32 /\ u <= 65535 /\ UnitFirst(PythonEscaped(d), u)
<1>1. d >= 127 /\ d <= MaxCodePoint BY SMT DEF Single, MaxCodePoint
<1>2. CASE d <= 65535
    <2>1. PythonEscaped(d) = UnicodeEscape(d) BY <1>1, <1>2, PythonUnit, SMT
    <2>2. UnitFirst(UnicodeEscape(d), d) /\ UnicodeEscape(d) \in Seq(Nat) BY UnitIsFirst, SMT
    <2> QED BY <1>1, <1>2, <2>1, <2>2, SMT
<1>3. CASE d > 65535
    <2> DEFINE h == High(d)
               l == Low(d)
    <2>1. /\ PythonEscaped(d) = UnicodeEscape(h) \o UnicodeEscape(l)
          /\ h \in Nat /\ 55296 <= h /\ h <= 56319 /\ l \in Nat
        BY <1>1, <1>3, SurrogateFacts, SMT
    <2> HIDE DEF h, l
    <2>2. UnicodeEscape(h) \in Seq(Nat) /\ UnitFirst(UnicodeEscape(h), h) BY <2>1, UnitIsFirst, SMT
    <2>3. UnicodeEscape(l) \in Seq(Nat) BY <2>1, UnitIsFirst, SMT
    <2>4. PythonEscaped(d) \in Seq(Nat) /\ UnitFirst(PythonEscaped(d), h)
        BY <2>1, <2>2, <2>3, PairFacts, SMT
    <2>5. h >= 32 /\ h <= 65535 BY <2>1, SMT
    <2> QED BY <2>1, <2>4, <2>5, SMT
<1> QED BY <1>1, <1>2, <1>3, SMT

LEMMA SmallUnit ==
    ASSUME NEW u \in Nat, u <= 65535, (u \div 4096) % 16 = 0, (u \div 256) % 16 = 0, (u \div 16) % 16 <= 1
    PROVE  u < 32
<1>1. PICK a \in Nat : a = u \div 4096 BY SMT
<1>2. PICK b \in Nat : b = u \div 256 BY SMT
<1>3. PICK c \in Nat : c = u \div 16 BY SMT
<1>4. a <= 15 BY <1>1, SMT
<1>5. a = 0 BY <1>1, <1>4, SMT
<1>6. b <= 15 BY <1>1, <1>2, <1>5, SMT
<1>7. b = 0 BY <1>2, <1>6, SMT
<1>8. c <= 15 BY <1>2, <1>3, <1>7, SMT
<1>9. c <= 1 BY <1>3, <1>8, SMT
<1> QED BY <1>3, <1>9, SMT

UnitRange(u) == u >= 32 /\ u <= 65535

LEMMA LongUnique ==
    ASSUME NEW c \in Nat, NEW x \in Seq(Nat), NEW y \in Seq(Nat), EscapeFacts(c, x),
           NEW u \in Nat, UnitRange(u), UnitFirst(y, u), Agree(x, y)
    PROVE  FALSE
<1>0. Len(x) \in {1, 2, 6} /\ Len(y) \in Nat /\ Len(y) >= 6 BY DEF EscapeFacts, UnitFirst
<1>1. PICK n \in Nat : n = Len(x) /\ (n = 1 \/ n = 2 \/ n = 6) BY <1>0
<1>2. x[1] = y[1]
    <2>1. 1 <= Len(x) /\ 1 <= Len(y) BY <1>0, <1>1
    <2> QED BY <2>1, AgreeAt
<1>3. n > 1 => x[2] = y[2]
    <2>1. n > 1 => 2 <= Len(x) /\ 2 <= Len(y) BY <1>0, <1>1
    <2> QED BY <2>1, AgreeAt
<1>4. (n = 1 => x[1] # Backslash) /\ (n = 2 => x[2] # LowerU) BY <1>1 DEF EscapeFacts
<1>5. y[1] = Backslash /\ y[2] = LowerU BY DEF UnitFirst
<1>6. n = 6 BY <1>1, <1>2, <1>3, <1>4, <1>5
<1>7. c < 32 /\ x[3] = Zero /\ x[4] = Zero /\ x[5] = Hex(c \div 16) BY <1>1, <1>6 DEF EscapeFacts
<1>8. y[3] = Hex(Nibble(u, 1)) /\ y[4] = Hex(Nibble(u, 2)) /\ y[5] = Hex(Nibble(u, 3)) BY DEF UnitFirst
<1>9. x[3] = y[3] /\ x[4] = y[4] /\ x[5] = y[5]
    <2>1. 5 <= Len(x) /\ 5 <= Len(y) BY <1>0, <1>1, <1>6
    <2>2. \A j \in 3..5 : j \in Nat /\ 1 <= j /\ j <= Len(x) /\ j <= Len(y) BY <2>1
    <2>3. \A j \in 3..5 : x[j] = y[j] BY <2>2, AgreeAt
    <2> QED BY <2>3
<1>10. Hex(0) = Zero BY DEF Hex, Zero
<1>11. c \div 16 \in 0..1 BY <1>7
<1>12. Nibble(u, 1) \in 0..15 /\ Nibble(u, 2) \in 0..15 /\ Nibble(u, 3) \in 0..15 BY NibbleType
<1>13. 0 \in 0..15 /\ c \div 16 \in 0..15 BY <1>11
<1>14. Hex(Nibble(u, 1)) = Hex(0) /\ Hex(Nibble(u, 2)) = Hex(0) /\ Hex(Nibble(u, 3)) = Hex(c \div 16)
    BY <1>7, <1>8, <1>9, <1>10, Zenon
<1>15. Nibble(u, 1) = 0 BY <1>12, <1>13, <1>14, HexUnique, Zenon
<1>16. Nibble(u, 2) = 0 BY <1>12, <1>13, <1>14, HexUnique, Zenon
<1>17. Nibble(u, 3) = c \div 16 BY <1>12, <1>13, <1>14, HexUnique, Zenon
<1>18. (u \div 4096) % 16 = 0 /\ (u \div 256) % 16 = 0 /\ (u \div 16) % 16 <= 1
    BY <1>11, <1>15, <1>16, <1>17, SMT DEF Nibble
<1>19. u >= 32 /\ u <= 65535 BY SMT DEF UnitRange
<1>20. u < 32 BY <1>18, <1>19, SmallUnit, SMT
<1> QED BY <1>19, <1>20, SMT

LEMMA CodeType == ASSUME NEW lang, NEW c \in Nat PROVE Code(lang, c) \in Seq(Nat)
<1>1. Escaped(c) \in Seq(Nat) BY EscapedFacts DEF EscapeFacts
<1>2. PythonEscaped(c) \in Seq(Nat) BY <1>1, LongFacts, PythonShort DEF Single
<1> QED BY <1>1, <1>2 DEF Code

\* No code of the C++ writer is the beginning of another one of either writer, or
\* the other way round.
LEMMA CodeUnique ==
    ASSUME NEW c \in Nat, NEW d \in Nat, NEW lang, Agree(Code("cpp", c), Code(lang, d))
    PROVE  c = d /\ Code("cpp", c) = Code(lang, d) /\ (lang = "python" => Single(d))
<1>1. PICK x \in Seq(Nat), y \in Seq(Nat) : x = Code("cpp", c) /\ y = Code(lang, d) BY CodeType
<1>2. Agree(x, y) BY <1>1
<1>3. x = Escaped(c) BY <1>1 DEF Code
<1>4. EscapeFacts(c, x) BY <1>3, EscapedFacts
<1>5. CASE lang = "python" => Single(d)
    <2>1. y = Escaped(d) BY <1>1, <1>5, PythonShort DEF Code, Single
    <2>2. EscapeFacts(d, y) BY <2>1, EscapedFacts
    <2>3. x = y BY <1>2, <1>4, <2>2, ShortUnique
    <2> QED BY <1>1, <1>3, <1>5, <2>1, <2>3, EscapedUnique
<1>6. CASE lang = "python" /\ ~Single(d)
    <2>1. y = PythonEscaped(d) BY <1>1, <1>6 DEF Code
    <2>2. PICK u \in Nat : UnitRange(u) /\ UnitFirst(y, u) BY <1>6, <2>1, LongFacts, SMT DEF UnitRange
    <2> QED BY <1>2, <1>4, <2>2, LongUnique
<1> QED BY <1>5, <1>6

--------------------------------------------------------------------------------
(* Text made of pieces                                                    *)

LEMMA LiesParts ==
    ASSUME NEW a \in Seq(Nat), NEW b \in Seq(Nat)
    PROVE  /\ a \o b \in Seq(Nat) /\ Len(a \o b) = Len(a) + Len(b)
           /\ Lies(a, a \o b, 0) /\ Lies(b, a \o b, Len(a))
<1>1. a \o b \in Seq(Nat) /\ Len(a \o b) = Len(a) + Len(b) /\ Len(a) \in Nat OBVIOUS
<1>2. Lies(a \o b, a \o b, 0) BY <1>1, LiesWhole
<1>3. Lies(a, a \o b, 0) /\ Lies(b, a \o b, 0 + Len(a)) BY <1>1, <1>2, LiesConcat
<1>4. 0 + Len(a) = Len(a) BY <1>1
<1> QED BY <1>1, <1>3, <1>4

\* The pieces of s lie in T one after the other, the k-th one after L[k - 1].
Pieces(s, T, L) ==
    /\ T \in Seq(Nat) /\ L \in [0..Len(s) -> Nat] /\ L[0] = 0 /\ Len(T) = L[Len(s)]
    /\ \A k \in 1..Len(s) : L[k] = L[k - 1] + Len(s[k])
    /\ \A k \in 1..Len(s) : Lies(s[k], T, L[k - 1])

LEMMA FlattenRec ==
    ASSUME NEW s \in Seq(Seq(Nat)), Len(s) # 0
    PROVE  \E f \in [1..Len(s) -> Seq(Nat)] :
               /\ f[1] = s[1] /\ \A i \in 2..Len(s) : f[i] = f[i - 1] \o s[i]
               /\ FlattenSeq(s) = f[Len(s)]
<1> DEFINE n == Len(s)
           D == 1..n
           rank == [i \in D |-> i]
           prev == [i \in D |-> IF i = 1 THEN 1 ELSE i - 1]
           base == [i \in D |-> s[i]]
           step == [z \in Seq(Nat) \X D |-> z[1] \o s[z[2]]]
           Is(f) == f = [i \in D |-> IF i = 1 THEN s[i] ELSE f[i - 1] \o s[i]]
           b == CHOOSE f : Is(f)
<1>0. n \in Nat /\ n >= 1 /\ 1 \in D /\ n \in D OBVIOUS
<1>1. \A i \in D : s[i] \in Seq(Nat) OBVIOUS
<1>2. Descends(D, n, rank, {1}, prev, Seq(Nat), base, step)
    <2>1. n \in Nat /\ rank \in [D -> 0..n] /\ prev \in [D -> D] BY <1>0
    <2>2. \A i \in D : i \notin {1} => rank[prev[i]] < rank[i] BY <1>0
    <2>3. base \in [D -> Seq(Nat)] BY <1>1
    <2>4. step \in [Seq(Nat) \X D -> Seq(Nat)] BY <1>1
    <2> QED BY <2>1, <2>2, <2>3, <2>4 DEF Descends
<1>5. PICK f \in [D -> Seq(Nat)] : \A i \in D : At1(f, i, {1}, prev, base, step)
    <2> HIDE DEF n, D, rank, prev, base, step
    <2>1. Solvable(D, {1}, prev, Seq(Nat), base, step) BY <1>2, Recursion, Zenon
    <2> QED BY <2>1 DEF Solvable
<1>6. \A i \in D : f[i] = IF i = 1 THEN s[i] ELSE f[i - 1] \o s[i]
    <2> SUFFICES ASSUME NEW i \in D PROVE f[i] = IF i = 1 THEN s[i] ELSE f[i - 1] \o s[i] OBVIOUS
    <2>1. f[i] = IF i \in {1} THEN base[i] ELSE step[<<f[prev[i]], i>>] BY <1>5 DEF At1
    <2>2. CASE i = 1 BY <2>1, <2>2
    <2>3. CASE i # 1
        <3>1. prev[i] = i - 1 /\ i - 1 \in D BY <2>3
        <3>2. f[i - 1] \in Seq(Nat) BY <3>1
        <3>3. step[<<f[i - 1], i>>] = f[i - 1] \o s[i] BY <3>2
        <3> QED BY <2>1, <2>3, <3>1, <3>3
    <2> QED BY <2>2, <2>3
<1>7. Is(f) BY <1>6
<1>8. Is(b) BY <1>7, Zenon
<1>9. FlattenSeq(s) = b[n] BY <1>0 DEF FlattenSeq
<1> HIDE DEF b
<1>10. b[1] = s[1] /\ \A i \in 2..n : b[i] = b[i - 1] \o s[i]
    <2>1. \A i \in D : b[i] = IF i = 1 THEN s[i] ELSE b[i - 1] \o s[i] BY <1>8
    <2>2. \A i \in 2..n : i \in D /\ i # 1 OBVIOUS
    <2> QED BY <1>0, <2>1, <2>2
<1>11. DOMAIN b = D BY <1>8
<1>12. \A i \in D : b[i] \in Seq(Nat)
    <2> DEFINE S == {i \in 0..n : i = 0 \/ b[i] \in Seq(Nat)}
    <2>1. 0 \in S BY <1>0
    <2>2. ASSUME NEW i \in 1..n, i - 1 \in S PROVE i \in S
        <3>0. i \in 0..n /\ i \in D BY <1>0
        <3>1. CASE i = 1
            <4>1. b[i] \in Seq(Nat) BY <1>1, <1>10, <3>0, <3>1
            <4> QED BY <3>0, <4>1
        <3>2. CASE i # 1
            <4>0. i \in 2..n BY <3>2
            <4>1. b[i - 1] \in Seq(Nat) BY <2>2, <3>2
            <4>2. s[i] \in Seq(Nat) /\ b[i] = b[i - 1] \o s[i] BY <1>1, <1>10, <3>0, <4>0
            <4>3. b[i] \in Seq(Nat) BY <4>1, <4>2
            <4> QED BY <3>0, <4>3
        <3> QED BY <3>1, <3>2
    <2> HIDE DEF S
    <2>3. \A i \in 0..n : i \in S BY <1>0, <2>1, <2>2, Induction, Zenon
    <2> QED BY <2>3 DEF S
<1>13. b \in [1..n -> Seq(Nat)]
    <2>1. b = [i \in D |-> b[i]] BY <1>8, <1>11
    <2> QED BY <1>12, <2>1
<1> QED BY <1>9, <1>10, <1>13

LEMMA FlattenFacts == ASSUME NEW s \in Seq(Seq(Nat)) PROVE \E L : Pieces(s, FlattenSeq(s), L)
<1>0. Len(s) \in Nat OBVIOUS
<1>1. CASE Len(s) = 0
    <2> DEFINE L == [k \in 0..0 |-> 0]
    <2>1. FlattenSeq(s) = s /\ s = <<>> BY <1>1 DEF FlattenSeq
    <2>2. <<>> \in Seq(Nat) /\ Len(<<>>) = 0 OBVIOUS
    <2>3. L \in [0..Len(s) -> Nat] /\ L[0] = 0 BY <1>1
    <2>4. Pieces(s, FlattenSeq(s), L) BY <1>1, <2>1, <2>2, <2>3 DEF Pieces
    <2> QED BY <2>4
<1>2. CASE Len(s) # 0
    <2> DEFINE n == Len(s)
    <2>1. PICK f \in [1..n -> Seq(Nat)] :
               /\ f[1] = s[1] /\ \A i \in 2..n : f[i] = f[i - 1] \o s[i]
               /\ FlattenSeq(s) = f[n]
        BY <1>2, FlattenRec
    <2>2. n \in Nat /\ n >= 1 BY <1>0, <1>2
    <2>3. \A i \in 1..n : s[i] \in Seq(Nat) OBVIOUS
    <2> HIDE DEF n
    <2> DEFINE L == [k \in 0..n |-> IF k = 0 THEN 0 ELSE Len(f[k])]
               S == {j \in 0..n : \A k \in 1..j : L[k] = L[k - 1] + Len(s[k]) /\ Lies(s[k], f[j], L[k - 1])}
    <2>4. L \in [0..n -> Nat] /\ L[0] = 0
        <3>1. \A k \in 1..n : Len(f[k]) \in Nat OBVIOUS
        <3> QED BY <2>2, <3>1
    <2>5. \A k \in 1..n : L[k] = Len(f[k]) OBVIOUS
    <2> HIDE DEF L
    <2>6. 0 \in S BY <2>2
    <2>7. ASSUME NEW j \in 1..n, j - 1 \in S PROVE j \in S
        <3>1. CASE j = 1
            <4>1. f[1] \in Seq(Nat) /\ s[1] \in Seq(Nat) /\ f[1] = s[1] BY <2>1, <2>2, <2>3
            <4>2. Lies(s[1], f[1], 0) BY <4>1, LiesWhole
            <4>3. L[1] = L[0] + Len(s[1]) BY <2>2, <2>4, <2>5, <4>1
            <4>4. \A k \in 1..1 : k = 1 /\ k - 1 = 0 OBVIOUS
            <4>5. \A k \in 1..j : L[k] = L[k - 1] + Len(s[k]) /\ Lies(s[k], f[j], L[k - 1])
                BY <2>4, <3>1, <4>2, <4>3, <4>4
            <4> QED BY <4>5
        <3>2. CASE j # 1
            <4>0. j - 1 \in 1..n /\ j \in 2..n BY <2>2, <3>2
            <4>1. f[j - 1] \in Seq(Nat) /\ s[j] \in Seq(Nat) /\ f[j] = f[j - 1] \o s[j] BY <2>1, <2>3, <4>0
            <4>2. f[j] \in Seq(Nat) /\ Len(f[j]) = Len(f[j - 1]) + Len(s[j]) /\ Lies(f[j - 1], f[j], 0) /\ Lies(s[j], f[j], Len(f[j - 1]))
                BY <4>1, LiesParts
            <4>3. L[j] = L[j - 1] + Len(s[j]) /\ Lies(s[j], f[j], L[j - 1]) BY <2>5, <4>0, <4>2
            <4>4. ASSUME NEW k \in 1..j - 1 PROVE L[k] = L[k - 1] + Len(s[k]) /\ Lies(s[k], f[j], L[k - 1])
                <5>1. L[k] = L[k - 1] + Len(s[k]) /\ Lies(s[k], f[j - 1], L[k - 1]) BY <2>7
                <5>0. k \in 1..n /\ k - 1 \in 0..n BY <2>2
                <5>2. s[k] \in Seq(Nat) /\ k - 1 \in 0..n BY <2>3, <5>0
                <5>3. L[k - 1] \in Nat BY <2>4, <5>2
                <5>4. Lies(s[k], f[j], 0 + L[k - 1]) BY <4>1, <4>2, <5>1, <5>2, <5>3, LiesIn
                <5>5. 0 + L[k - 1] = L[k - 1] BY <5>3
                <5> QED BY <5>1, <5>4, <5>5
            <4>5. \A k \in 1..j : k = j \/ k \in 1..j - 1 OBVIOUS
            <4>6. \A k \in 1..j : L[k] = L[k - 1] + Len(s[k]) /\ Lies(s[k], f[j], L[k - 1])
                BY <4>3, <4>4, <4>5
            <4> QED BY <4>6
        <3> QED BY <3>1, <3>2
    <2> HIDE DEF S
    <2>80. \A i \in 0..n : i \in S BY <2>2, <2>6, <2>7, Induction, Zenon
    <2>8. n \in S BY <2>2, <2>80
    <2>9. \A k \in 1..n : L[k] = L[k - 1] + Len(s[k]) /\ Lies(s[k], f[n], L[k - 1]) BY <2>8 DEF S
    <2>10. f[n] \in Seq(Nat) /\ Len(f[n]) = L[n] BY <2>2, <2>5
    <2>11. Pieces(s, f[n], L) BY <2>4, <2>9, <2>10 DEF Pieces, n
    <2> QED BY <2>1, <2>11
<1> QED BY <1>1, <1>2

--------------------------------------------------------------------------------
(* Strings: a text holds at most one                                      *)

LEMMA CodeFirst == ASSUME NEW lang, NEW c \in Nat PROVE Len(Code(lang, c)) >= 1 /\ Code(lang, c)[1] # Quote
<1>1. Len(Escaped(c)) >= 1 /\ Escaped(c)[1] # Quote
    <2> DEFINE x == Escaped(c)
    <2>1. EscapeFacts(c, x) BY EscapedFacts
    <2> HIDE DEF x
    <2>2. Len(x) \in {1, 2, 6} /\ x[1] # Quote BY <2>1 DEF EscapeFacts
    <2> QED BY <2>2 DEF x
<1>2. ASSUME ~Single(c) PROVE Len(PythonEscaped(c)) >= 1 /\ PythonEscaped(c)[1] # Quote
    <2>1. PICK u \in Nat : UnitFirst(PythonEscaped(c), u) BY <1>2, LongFacts, SMT
    <2>2. PythonEscaped(c) \in Seq(Nat) BY <1>2, LongFacts, SMT
    <2> QED BY <2>1, <2>2 DEF UnitFirst, Backslash, Quote
<1>3. Single(c) => PythonEscaped(c) = Escaped(c) BY PythonShort DEF Single
<1> QED BY <1>1, <1>2, <1>3 DEF Code

LEMMA LiesFirst ==
    ASSUME NEW x \in Seq(Nat), NEW T, NEW q \in Nat, Lies(x, T, q), Len(x) >= 1
    PROVE  T[q + 1] = x[1]
<1>1. 1 \in 1..Len(x) OBVIOUS
<1> QED BY <1>1 DEF Lies

LEMMA LiesAgree ==
    ASSUME NEW x \in Seq(Nat), NEW y \in Seq(Nat), NEW T, NEW q \in Nat, Lies(x, T, q), Lies(y, T, q)
    PROVE  Agree(x, y)
<1>1. ASSUME NEW j \in 1..Len(x), j <= Len(y) PROVE x[j] = y[j]
    <2>1. j \in 1..Len(y) BY <1>1
    <2> QED BY <2>1 DEF Lies
<1> QED BY <1>1 DEF Agree

\* The string v, as lang writes it, stands in T after position p: the quotes and
\* the codes, the k-th one after L[k - 1] symbols.
StringAt(lang, v, T, p, L) ==
    /\ L \in [0..Len(v) -> Nat] /\ L[0] = 0
    /\ p + L[Len(v)] + 2 <= Len(T) /\ T[p + 1] = Quote /\ T[p + 1 + L[Len(v)] + 1] = Quote
    /\ \A k \in 1..Len(v) : L[k] = L[k - 1] + Len(Code(lang, v[k]))
    /\ \A k \in 1..Len(v) : Lies(Code(lang, v[k]), T, p + 1 + L[k - 1])

LEMMA StringPlaced ==
    ASSUME NEW lang, NEW v \in Seq(Nat)
    PROVE  /\ JsonString(lang, v) \in Seq(Nat)
           /\ \E n \in Nat : /\ Len(JsonString(lang, v)) = n + 2
                             /\ \A T \in Seq(Nat), p \in Nat : Lies(JsonString(lang, v), T, p) =>
                                   \E L : StringAt(lang, v, T, p, L) /\ L[Len(v)] = n
<1> DEFINE s == [i \in DOMAIN v |-> Code(lang, v[i])]
           F == FlattenSeq(s)
           J == JsonString(lang, v)
           q == <<Quote>>
<1>1. s \in Seq(Seq(Nat)) /\ Len(s) = Len(v) /\ \A i \in 1..Len(v) : s[i] = Code(lang, v[i]) /\ s[i] \in Seq(Nat)
    <2>1. \A i \in 1..Len(v) : v[i] \in Nat OBVIOUS
    <2>2. \A i \in 1..Len(v) : Code(lang, v[i]) \in Seq(Nat) BY <2>1, CodeType
    <2>3. DOMAIN v = 1..Len(v) /\ Len(v) \in Nat OBVIOUS
    <2> QED BY <2>2, <2>3
<1>2. J = q \o F \o q BY DEF JsonString, Code
<1>3. q \in Seq(Nat) /\ Len(q) = 1 /\ q[1] = Quote BY DEF Quote
<1> HIDE DEF s, F, J, q
<1>4. PICK L : Pieces(s, F, L) BY <1>1, FlattenFacts DEF F
<1>5. /\ F \in Seq(Nat) /\ L \in [0..Len(v) -> Nat] /\ L[0] = 0 /\ Len(F) = L[Len(v)]
      /\ \A k \in 1..Len(v) : L[k] = L[k - 1] + Len(s[k]) /\ Lies(s[k], F, L[k - 1])
    BY <1>1, <1>4 DEF Pieces
<1>6. q \o F \in Seq(Nat) /\ Len(q \o F) = Len(F) + 1
    <2>1. F \in Seq(Nat) /\ Len(F) \in Nat BY <1>5
    <2>2. q \o F \in Seq(Nat) /\ Len(q \o F) = Len(q) + Len(F) BY <1>3, <2>1, LiesParts
    <2> QED BY <1>3, <2>1, <2>2
<1>7. J \in Seq(Nat) /\ Len(J) = Len(F) + 2 BY <1>2, <1>3, <1>5, <1>6
<1>8. ASSUME NEW T \in Seq(Nat), NEW p \in Nat, Lies(J, T, p) PROVE StringAt(lang, v, T, p, L)
    <2>0. Len(F) \in Nat /\ p + 1 \in Nat BY <1>5
    <2>1. Lies(q \o F, T, p) /\ Lies(q, T, p + (Len(F) + 1)) BY <1>2, <1>3, <1>6, <1>8, LiesConcat
    <2>2. Lies(q, T, p) /\ Lies(F, T, p + 1) BY <1>3, <1>5, <2>1, LiesConcat
    <2>3. T[p + 1] = Quote
        <3>1. Len(q) >= 1 BY <1>3
        <3>2. T[p + 1] = q[1] BY <1>3, <2>2, <3>1, LiesFirst
        <3> QED BY <1>3, <3>2
    <2>4. T[(p + (Len(F) + 1)) + 1] = Quote
        <3>1. p + (Len(F) + 1) \in Nat BY <2>0
        <3> QED BY <1>3, <2>1, <3>1, LiesFirst
    <2>5. (p + (Len(F) + 1)) + 1 = p + 1 + Len(F) + 1 /\ p + Len(F) + 2 = p + Len(J) BY <1>7, <2>0
    <2>6. p + Len(J) <= Len(T) BY <1>8 DEF Lies
    <2>7. ASSUME NEW k \in 1..Len(v) PROVE Lies(Code(lang, v[k]), T, p + 1 + L[k - 1])
        <3>1. s[k] \in Seq(Nat) /\ s[k] = Code(lang, v[k]) /\ Lies(s[k], F, L[k - 1]) BY <1>1, <1>5
        <3>2. k - 1 \in 0..Len(v) OBVIOUS
        <3>3. L[k - 1] \in Nat BY <1>5, <3>2
        <3>4. Lies(s[k], T, (p + 1) + L[k - 1]) BY <1>5, <2>0, <2>2, <3>1, <3>3, LiesIn
        <3> QED BY <3>1, <3>4
    <2> QED BY <1>1, <1>5, <2>3, <2>4, <2>5, <2>6, <2>7 DEF StringAt
<1>9. Len(F) \in Nat /\ L[Len(v)] = Len(F) BY <1>5
<1>10. \A T \in Seq(Nat), p \in Nat : Lies(J, T, p) => \E M : StringAt(lang, v, T, p, M) /\ M[Len(v)] = Len(F)
    BY <1>8, <1>9
<1> QED BY <1>7, <1>9, <1>10 DEF J

\* At one place of a text stands at most one string: the C++ writer's text of v
\* and any writer's text of w are never parts of each other, unless v = w.
StringSame(lang, v, w, L, M) ==
    /\ v = w /\ L[Len(v)] = M[Len(w)]
    /\ lang = "python" => \A k \in 1..Len(w) : Single(w[k])

\* The strings are alike up to their k-th code, and one of them has a k-th code.
Reached(v, w, L, M, k) ==
    /\ k \in Nat /\ k >= 1 /\ L[k - 1] = M[k - 1] /\ k - 1 <= Len(v) /\ k - 1 <= Len(w)
    /\ k <= Len(v) \/ k <= Len(w)

Passed(lang, v, w, L, M, k) ==
    k <= Len(v) /\ k <= Len(w) /\ L[k] = M[k] /\ v[k] = w[k] /\ (lang = "python" => Single(w[k]))

LEMMA StringStep ==
    ASSUME NEW lang, NEW v \in Seq(Nat), NEW w \in Seq(Nat), NEW T \in Seq(Nat), NEW p \in Nat,
           NEW L, NEW M, StringAt("cpp", v, T, p, L), StringAt(lang, w, T, p, M),
           NEW k, Reached(v, w, L, M, k)
    PROVE  Passed(lang, v, w, L, M, k)
<1>0. Len(v) \in Nat /\ Len(w) \in Nat OBVIOUS
<1>a. k \in Nat /\ k >= 1 /\ L[k - 1] = M[k - 1] /\ k - 1 <= Len(v) /\ k - 1 <= Len(w) /\ (k <= Len(v) \/ k <= Len(w))
    BY DEF Reached
<1>1. /\ L \in [0..Len(v) -> Nat] /\ T[p + 1 + L[Len(v)] + 1] = Quote
      /\ \A j \in 1..Len(v) : L[j] = L[j - 1] + Len(Code("cpp", v[j]))
      /\ \A j \in 1..Len(v) : Lies(Code("cpp", v[j]), T, p + 1 + L[j - 1])
    BY DEF StringAt
<1>2. /\ M \in [0..Len(w) -> Nat] /\ T[p + 1 + M[Len(w)] + 1] = Quote
      /\ \A j \in 1..Len(w) : M[j] = M[j - 1] + Len(Code(lang, w[j]))
      /\ \A j \in 1..Len(w) : Lies(Code(lang, w[j]), T, p + 1 + M[j - 1])
    BY DEF StringAt
<1> DEFINE o == p + 1 + L[k - 1]
<1>3. k - 1 \in 0..Len(v) BY <1>0, <1>a
<1>4. o \in Nat
    <2>1. L[k - 1] \in Nat BY <1>1, <1>3
    <2> QED BY <2>1
<1>5. o = p + 1 + M[k - 1] BY <1>a
<1> HIDE DEF o
<1>6. ASSUME k <= Len(v) PROVE T[o + 1] # Quote
    <2>1. k \in 1..Len(v) BY <1>0, <1>6, <1>a
    <2>2. v[k] \in Nat /\ Lies(Code("cpp", v[k]), T, o)
        <3>1. v[k] \in Nat BY <2>1
        <3>2. Lies(Code("cpp", v[k]), T, p + 1 + L[k - 1]) BY <1>1, <2>1
        <3> QED BY <3>1, <3>2 DEF o
    <2>3. Code("cpp", v[k]) \in Seq(Nat) /\ Len(Code("cpp", v[k])) >= 1 /\ Code("cpp", v[k])[1] # Quote
        BY <2>2, CodeFirst, CodeType
    <2>4. T[o + 1] = Code("cpp", v[k])[1] BY <1>4, <2>2, <2>3, LiesFirst
    <2> QED BY <2>3, <2>4
<1>7. ASSUME k <= Len(w) PROVE T[o + 1] # Quote
    <2>1. k \in 1..Len(w) BY <1>0, <1>7, <1>a
    <2>2. w[k] \in Nat /\ Lies(Code(lang, w[k]), T, o)
        <3>1. w[k] \in Nat BY <2>1
        <3>2. Lies(Code(lang, w[k]), T, p + 1 + M[k - 1]) BY <1>2, <2>1
        <3> QED BY <1>5, <3>1, <3>2
    <2>3. Code(lang, w[k]) \in Seq(Nat) /\ Len(Code(lang, w[k])) >= 1 /\ Code(lang, w[k])[1] # Quote
        BY <2>2, CodeFirst, CodeType
    <2>4. T[o + 1] = Code(lang, w[k])[1] BY <1>4, <2>2, <2>3, LiesFirst
    <2> QED BY <2>3, <2>4
<1>8. k - 1 = Len(v) => T[o + 1] = Quote BY <1>1 DEF o
<1>9. k - 1 = Len(w) => T[o + 1] = Quote BY <1>2, <1>5
<1>10. k <= Len(v) /\ k <= Len(w)
    <2>1. k - 1 # Len(v) /\ k - 1 # Len(w) BY <1>6, <1>7, <1>8, <1>9, <1>a
    <2>2. k \in Nat /\ k - 1 <= Len(v) /\ k - 1 <= Len(w) BY <1>a
    <2> QED BY <1>0, <2>1, <2>2
<1>11. k \in 1..Len(v) /\ k \in 1..Len(w) BY <1>0, <1>10, <1>a
<1>12. v[k] \in Nat /\ w[k] \in Nat BY <1>11
<1>13. Code("cpp", v[k]) \in Seq(Nat) /\ Code(lang, w[k]) \in Seq(Nat) BY <1>12, CodeType
<1>14. Lies(Code("cpp", v[k]), T, o) /\ Lies(Code(lang, w[k]), T, o) BY <1>1, <1>2, <1>5, <1>11 DEF o
<1>15. Agree(Code("cpp", v[k]), Code(lang, w[k])) BY <1>4, <1>13, <1>14, LiesAgree
<1>16. v[k] = w[k] /\ Code("cpp", v[k]) = Code(lang, w[k]) /\ (lang = "python" => Single(w[k]))
    BY <1>12, <1>15, CodeUnique
<1>17. L[k] = L[k - 1] + Len(Code("cpp", v[k])) /\ M[k] = M[k - 1] + Len(Code(lang, w[k])) BY <1>1, <1>2, <1>11
<1>18. L[k] = M[k] BY <1>16, <1>17, <1>a
<1> QED BY <1>10, <1>16, <1>18 DEF Passed

LEMMA StringUnique ==
    ASSUME NEW lang, NEW v \in Seq(Nat), NEW w \in Seq(Nat), NEW T \in Seq(Nat), NEW p \in Nat,
           NEW L, NEW M, StringAt("cpp", v, T, p, L), StringAt(lang, w, T, p, M)
    PROVE  StringSame(lang, v, w, L, M)
<1> DEFINE n == Len(v)
           S == {k \in 0..n : /\ k <= Len(w) /\ L[k] = M[k]
                              /\ \A i \in 1..k : v[i] = w[i] /\ (lang = "python" => Single(w[i]))}
<1>0. n \in Nat /\ Len(w) \in Nat OBVIOUS
<1>1. 0 \in S
    <2>1. L[0] = M[0] BY DEF StringAt
    <2> QED BY <1>0, <2>1
<1>2. ASSUME NEW k \in 1..n, k - 1 \in S PROVE k \in S
    <2>1. k - 1 <= Len(w) /\ L[k - 1] = M[k - 1] /\ \A i \in 1..k - 1 : v[i] = w[i] /\ (lang = "python" => Single(w[i]))
        BY <1>2
    <2>2. k \in Nat /\ k >= 1 /\ k <= Len(v) /\ k - 1 <= Len(v) BY <1>0
    <2>3. k <= Len(w) /\ L[k] = M[k] /\ v[k] = w[k] /\ (lang = "python" => Single(w[k]))
        <3>1. Reached(v, w, L, M, k) BY <2>1, <2>2 DEF Reached
        <3>2. Passed(lang, v, w, L, M, k)
            <4> HIDE DEF S, n
            <4> QED BY <3>1, StringStep, Zenon
        <3> QED BY <3>2 DEF Passed
    <2>4. \A i \in 1..k : i = k \/ i \in 1..k - 1 OBVIOUS
    <2>5. \A i \in 1..k : v[i] = w[i] /\ (lang = "python" => Single(w[i])) BY <2>1, <2>3, <2>4
    <2>6. k \in 0..n OBVIOUS
    <2> QED BY <2>3, <2>5, <2>6
<1>3. n \in S
    <2> HIDE DEF S, n
    <2>1. \A i \in 0..n : i \in S BY <1>0, <1>1, <1>2, Induction, Zenon
    <2> QED BY <1>0, <2>1
<1>4. n <= Len(w) /\ L[n] = M[n] /\ \A i \in 1..n : v[i] = w[i] /\ (lang = "python" => Single(w[i])) BY <1>3
<1>5. n = Len(w)
    <2> SUFFICES ASSUME n + 1 <= Len(w) PROVE FALSE BY <1>0, <1>4
    <2>1. n + 1 \in Nat /\ n + 1 >= 1 /\ (n + 1) - 1 = n BY <1>0
    <2>2. Reached(v, w, L, M, n + 1) BY <1>0, <1>4, <2>1 DEF Reached
    <2>3. Passed(lang, v, w, L, M, n + 1)
        <3> HIDE DEF S, n
        <3> QED BY <2>2, StringStep, Zenon
    <2>4. n + 1 <= Len(v) BY <2>3 DEF Passed
    <2> QED BY <1>0, <2>4
<1>6. v = w BY <1>4, <1>5, SeqEqual
<1> QED BY <1>4, <1>5, <1>6 DEF StringSame

--------------------------------------------------------------------------------
(* Numbers: a text holds at most one                                      *)

\* f gives the decimal digits of the numbers up to N.
DigitsOf(f, N) ==
    /\ f \in [0..N -> Seq(Nat)]
    /\ \A k \in 0..N : k < 10 => f[k] = <<Zero + k>>
    /\ \A k \in 0..N : k >= 10 => f[k] = Append(f[k \div 10], Zero + (k % 10))

Size(n) == IF n < 0 THEN -n ELSE n

LEMMA Tenth == ASSUME NEW k \in Nat, k >= 10 PROVE k \div 10 \in Nat /\ k \div 10 < k /\ k % 10 \in 0..9
OBVIOUS

LEMMA DigitsRec ==
    ASSUME NEW n \in Int
    PROVE  \E f : /\ DigitsOf(f, Size(n))
                  /\ Decimal(n) = IF n < 0 THEN <<Minus>> \o f[Size(n)] ELSE f[Size(n)]
<1> DEFINE N == Size(n)
           D == 0..N
           B == {k \in D : k < 10}
           rank == [k \in D |-> k]
           prev == [k \in D |-> IF k < 10 THEN k ELSE k \div 10]
           base == [k \in D |-> <<Zero + k>>]
           step == [z \in Seq(Nat) \X D |-> Append(z[1], Zero + (z[2] % 10))]
           Is(f) == f = [k \in D |-> IF k < 10 THEN <<Zero + k>> ELSE Append(f[k \div 10], Zero + (k % 10))]
           b == CHOOSE f : Is(f)
<1>0. N \in Nat BY DEF Size
<1> HIDE DEF N
<1>1. \A k \in D : k \in Nat /\ (k >= 10 => k \div 10 \in D /\ k \div 10 < k) BY <1>0, Tenth
<1>1a. \A k \in Nat : Zero + (k % 10) \in Nat /\ Zero + k \in Nat BY DEF Zero
<1>2. Descends(D, N, rank, B, prev, Seq(Nat), base, step)
    <2>1. N \in Nat /\ rank \in [D -> 0..N] BY <1>0
    <2>2. prev \in [D -> D] BY <1>1
    <2>3. \A i \in D : i \notin B => rank[prev[i]] < rank[i]
        <3> SUFFICES ASSUME NEW i \in D, i \notin B PROVE rank[prev[i]] < rank[i] OBVIOUS
        <3>1. i >= 10 /\ prev[i] = i \div 10 /\ i \div 10 \in D /\ i \div 10 < i BY <1>1
        <3> QED BY <3>1
    <2>4. base \in [D -> Seq(Nat)] BY <1>1, <1>1a
    <2>5. step \in [Seq(Nat) \X D -> Seq(Nat)]
        <3>1. ASSUME NEW z \in Seq(Nat) \X D PROVE Append(z[1], Zero + (z[2] % 10)) \in Seq(Nat)
            <4>1. z[1] \in Seq(Nat) /\ z[2] \in D OBVIOUS
            <4>2. Zero + (z[2] % 10) \in Nat BY <1>1, <1>1a, <4>1
            <4> QED BY <4>1, <4>2, AppendProperties
        <3> QED BY <3>1
    <2> QED BY <2>1, <2>2, <2>3, <2>4, <2>5 DEF Descends
<1>3. PICK f \in [D -> Seq(Nat)] : \A i \in D : At1(f, i, B, prev, base, step)
    <2> HIDE DEF D, rank, prev, base, step, B
    <2>1. Solvable(D, B, prev, Seq(Nat), base, step) BY <1>2, Recursion, Zenon
    <2> QED BY <2>1 DEF Solvable
<1>4. \A k \in D : f[k] = IF k < 10 THEN <<Zero + k>> ELSE Append(f[k \div 10], Zero + (k % 10))
    <2> SUFFICES ASSUME NEW k \in D PROVE f[k] = IF k < 10 THEN <<Zero + k>> ELSE Append(f[k \div 10], Zero + (k % 10)) OBVIOUS
    <2>1. f[k] = IF k \in B THEN base[k] ELSE step[<<f[prev[k]], k>>] BY <1>3 DEF At1
    <2>2. CASE k < 10 BY <2>1, <2>2
    <2>3. CASE ~(k < 10)
        <3>1. k \notin B /\ prev[k] = k \div 10 /\ k \div 10 \in D BY <1>1, <2>3
        <3>2. f[k \div 10] \in Seq(Nat) BY <3>1
        <3>3. step[<<f[k \div 10], k>>] = Append(f[k \div 10], Zero + (k % 10)) BY <3>2
        <3> QED BY <2>1, <2>3, <3>1, <3>3
    <2> QED BY <2>2, <2>3
<1>5. Is(f) BY <1>4
<1>6. Is(b) BY <1>5, Zenon
<1>7. Decimal(n) = IF n < 0 THEN <<Minus>> \o b[N] ELSE b[N] BY DEF Decimal, N, Size
<1> HIDE DEF b
<1>8. DOMAIN b = D BY <1>6
<1>9. \A k \in D : b[k] = IF k < 10 THEN <<Zero + k>> ELSE Append(b[k \div 10], Zero + (k % 10)) BY <1>6
<1>10. \A k \in D : b[k] \in Seq(Nat)
    <2> DEFINE S == {k \in D : b[k] \in Seq(Nat)}
    <2>1. rank \in [D -> Nat] OBVIOUS
    <2>2. ASSUME NEW k \in D, \A y \in D : rank[y] < rank[k] => y \in S PROVE k \in S
        <3>1. CASE k < 10
            <4>1. b[k] = <<Zero + k>> BY <1>9, <3>1
            <4>2. Zero + k \in Nat BY <1>1, <1>1a
            <4>3. b[k] \in Seq(Nat) BY <4>1, <4>2
            <4> QED BY <4>3
        <3>2. CASE ~(k < 10)
            <4>1. b[k] = Append(b[k \div 10], Zero + (k % 10)) BY <1>9, <3>2
            <4>2. k \div 10 \in D /\ k \div 10 < k BY <1>1, <3>2
            <4>3. rank[k \div 10] < rank[k] BY <4>2
            <4>4. b[k \div 10] \in Seq(Nat) BY <2>2, <4>2, <4>3
            <4>5. Zero + (k % 10) \in Nat BY <1>1, <1>1a
            <4>6. b[k] \in Seq(Nat) BY <4>1, <4>4, <4>5
            <4> QED BY <4>6
        <3> QED BY <3>1, <3>2
    <2> HIDE DEF S, D, rank
    <2>3. \A k \in D : k \in S BY <2>1, <2>2, RankInduction, Zenon
    <2> QED BY <2>3 DEF S
<1>11. b \in [0..N -> Seq(Nat)]
    <2>1. b = [k \in D |-> b[k]] BY <1>6, <1>8
    <2> QED BY <1>10, <2>1
<1>12. \A k \in D : ~(k < 10) <=> k >= 10 BY <1>1
<1>13. DigitsOf(b, N) BY <1>9, <1>11, <1>12 DEF DigitsOf
<1> QED BY <1>7, <1>13 DEF N

LEMMA DigitsFacts ==
    ASSUME NEW f, NEW N \in Nat, DigitsOf(f, N)
    PROVE  \A k \in 0..N : /\ Len(f[k]) >= 1 /\ (Len(f[k]) = 1 <=> k < 10)
                            /\ \A i \in 1..Len(f[k]) : IsDigit(f[k][i])
<1> DEFINE D == 0..N
           rank == [k \in D |-> k]
           S == {k \in D : /\ Len(f[k]) >= 1 /\ (Len(f[k]) = 1 <=> k < 10)
                           /\ \A i \in 1..Len(f[k]) : IsDigit(f[k][i])}
<1>1. rank \in [D -> Nat] OBVIOUS
<1>2. ASSUME NEW k \in D, \A y \in D : rank[y] < rank[k] => y \in S PROVE k \in S
    <2>1. CASE k < 10
        <3>1. f[k] = <<Zero + k>> BY <2>1 DEF DigitsOf
        <3>2. Zero + k \in Zero..Nine BY <2>1 DEF Zero, Nine
        <3>3. Len(f[k]) = 1 /\ f[k][1] = Zero + k BY <3>1
        <3>4. \A i \in 1..1 : i = 1 OBVIOUS
        <3>5. \A i \in 1..Len(f[k]) : IsDigit(f[k][i]) BY <3>2, <3>3, <3>4 DEF IsDigit
        <3> QED BY <2>1, <3>3, <3>5
    <2>2. CASE k >= 10
        <3>1. f[k] = Append(f[k \div 10], Zero + (k % 10)) BY <2>2 DEF DigitsOf
        <3>2. k \div 10 \in D /\ k \div 10 < k /\ k % 10 \in 0..9 BY <2>2, Tenth
        <3>3. rank[k \div 10] < rank[k] BY <3>2
        <3>4. k \div 10 \in S BY <1>2, <3>2, <3>3
        <3>5. Zero + (k % 10) \in Nat /\ IsDigit(Zero + (k % 10)) BY <3>2 DEF Zero, Nine, IsDigit
        <3>6. PICK a \in Seq(Nat) : a = f[k \div 10] BY <3>2 DEF DigitsOf
        <3>7. PICK d \in Nat : d = Zero + (k % 10) BY <3>5
        <3>8. Len(a) >= 1 /\ \A i \in 1..Len(a) : IsDigit(a[i]) BY <3>4, <3>6
        <3> DEFINE c == Append(a, d)
        <3>9. /\ c \in Seq(Nat) /\ Len(c) = Len(a) + 1 /\ \A i \in 1..Len(a) : c[i] = a[i]
              /\ c[Len(a) + 1] = d /\ Len(a) \in Nat
            BY AppendProperties
        <3>10. f[k] = c BY <3>1, <3>6, <3>7
        <3> HIDE DEF c
        <3>11. \A i \in 1..Len(c) : i \in 1..Len(a) \/ i = Len(a) + 1 BY <3>9
        <3>12. \A i \in 1..Len(c) : IsDigit(c[i]) BY <3>5, <3>7, <3>8, <3>9, <3>11
        <3>13. Len(c) >= 1 /\ ~(Len(c) = 1) BY <3>8, <3>9
        <3>14. ~(k < 10) BY <2>2
        <3> QED BY <3>10, <3>12, <3>13, <3>14
    <2> QED BY <2>1, <2>2
<1> HIDE DEF S, D, rank
<1>3. \A k \in D : k \in S BY <1>1, <1>2, RankInduction, Zenon
<1> QED BY <1>3 DEF S, D

LEMMA AppendSame ==
    ASSUME NEW x \in Seq(Nat), NEW y \in Seq(Nat), NEW d \in Nat, NEW e \in Nat, Append(x, d) = Append(y, e)
    PROVE  x = y /\ d = e
BY AppendInjective

SameDigits(f, g, N, M) == \A k \in 0..N : \A m \in 0..M : f[k] = g[m] => k = m

LEMMA DigitsUnique ==
    ASSUME NEW f, NEW g, NEW N \in Nat, NEW M \in Nat, DigitsOf(f, N), DigitsOf(g, M)
    PROVE  SameDigits(f, g, N, M)
<1> DEFINE D == 0..N
           rank == [k \in D |-> k]
           S == {k \in D : \A m \in 0..M : f[k] = g[m] => k = m}
<1>1. rank \in [D -> Nat] OBVIOUS
<1>2. ASSUME NEW k \in D, \A y \in D : rank[y] < rank[k] => y \in S PROVE k \in S
    <2> SUFFICES ASSUME NEW m \in 0..M, f[k] = g[m] PROVE k = m OBVIOUS
    <2>0. k < 10 <=> m < 10
        <3>1. Len(f[k]) = 1 <=> k < 10 BY DigitsFacts
        <3>2. Len(g[m]) = 1 <=> m < 10 BY DigitsFacts
        <3> QED BY <3>1, <3>2
    <2>1. CASE k < 10
        <3>1. f[k] = <<Zero + k>> BY <2>1 DEF DigitsOf
        <3>2. g[m] = <<Zero + m>> BY <2>0, <2>1 DEF DigitsOf
        <3>3. <<Zero + k>>[1] = <<Zero + m>>[1] BY <3>1, <3>2
        <3>4. Zero + k = Zero + m BY <3>3
        <3> QED BY <3>4 DEF Zero
    <2>2. CASE k >= 10
        <3>0. m >= 10 BY <2>0, <2>2
        <3>1. f[k] = Append(f[k \div 10], Zero + (k % 10)) BY <2>2 DEF DigitsOf
        <3>2. g[m] = Append(g[m \div 10], Zero + (m % 10)) BY <3>0 DEF DigitsOf
        <3>3. k \div 10 \in D /\ k \div 10 < k /\ k % 10 \in 0..9 BY <2>2, Tenth
        <3>4. m \div 10 \in 0..M /\ m % 10 \in 0..9 BY <3>0, Tenth
        <3>5. f[k \div 10] \in Seq(Nat) /\ g[m \div 10] \in Seq(Nat) BY <3>3, <3>4 DEF DigitsOf
        <3>6. Zero + (k % 10) \in Nat /\ Zero + (m % 10) \in Nat BY <3>3, <3>4 DEF Zero
        <3>7. f[k \div 10] = g[m \div 10] /\ Zero + (k % 10) = Zero + (m % 10)
            <4>1. PICK x \in Seq(Nat), y \in Seq(Nat), d \in Nat, e \in Nat :
                      x = f[k \div 10] /\ y = g[m \div 10] /\ d = Zero + (k % 10) /\ e = Zero + (m % 10)
                BY <3>5, <3>6
            <4>2. Append(x, d) = Append(y, e) BY <3>1, <3>2, <4>1
            <4>3. x = y /\ d = e BY <4>2, AppendSame
            <4> QED BY <4>1, <4>3
        <3>8. rank[k \div 10] < rank[k] BY <3>3
        <3>9. k \div 10 \in S BY <1>2, <3>3, <3>8
        <3>10. k \div 10 = m \div 10 BY <3>4, <3>7, <3>9
        <3>11. k % 10 = m % 10 BY <3>3, <3>4, <3>7 DEF Zero
        <3> QED BY <3>10, <3>11
    <2> QED BY <2>1, <2>2
<1> HIDE DEF S, D, rank
<1>3. \A k \in D : k \in S BY <1>1, <1>2, RankInduction, Zenon
<1> QED BY <1>3 DEF S, D, SameDigits

\* A sign, then digits; the text has the number's digits f.
DecimalIs(n, x, f) ==
    /\ x \in Seq(Nat) /\ Len(x) >= 1 /\ DigitsOf(f, Size(n))
    /\ n < 0 <=> x[1] = Minus
    /\ \A i \in 2..Len(x) : IsDigit(x[i])
    /\ n < 0 => Len(x) = Len(f[Size(n)]) + 1 /\ \A i \in 1..Len(f[Size(n)]) : x[1 + i] = f[Size(n)][i]
    /\ n >= 0 => x = f[Size(n)]

LEMMA DecimalFacts == ASSUME NEW n \in Int PROVE \E f : DecimalIs(n, Decimal(n), f)
<1>1. PICK f : /\ DigitsOf(f, Size(n))
               /\ Decimal(n) = IF n < 0 THEN <<Minus>> \o f[Size(n)] ELSE f[Size(n)]
    BY DigitsRec
<1>2. Size(n) \in Nat /\ Size(n) \in 0..Size(n) BY DEF Size
<1>3. PICK a \in Seq(Nat) : a = f[Size(n)] BY <1>1, <1>2 DEF DigitsOf
<1>4. Len(a) >= 1 /\ \A i \in 1..Len(a) : IsDigit(a[i]) BY <1>1, <1>2, <1>3, DigitsFacts
<1>5. CASE n < 0
    <2> DEFINE q == <<Minus>>
               x == q \o a
    <2>1. q \in Seq(Nat) /\ Len(q) = 1 /\ q[1] = Minus BY DEF Minus
    <2>2. Decimal(n) = x BY <1>1, <1>3, <1>5
    <2> HIDE DEF q
    <2>3. Joined(q, a, x) BY <2>1, ConcatFacts
    <2> HIDE DEF x
    <2>4. /\ x \in Seq(Nat) /\ Len(x) = 1 + Len(a) /\ Len(a) \in Nat
          /\ x[1] = Minus /\ \A i \in 1..Len(a) : x[1 + i] = a[i]
        <3>1. 1 \in 1..Len(q) BY <2>1
        <3>2. x[1] = q[1] BY <2>3, <3>1 DEF Joined
        <3> QED BY <2>1, <2>3, <3>2 DEF Joined
    <2>5. ASSUME NEW i \in 2..Len(x) PROVE IsDigit(x[i])
        <3>1. i - 1 \in 1..Len(a) /\ 1 + (i - 1) = i BY <2>4
        <3>2. x[1 + (i - 1)] = a[i - 1] BY <2>4, <3>1
        <3>3. IsDigit(a[i - 1]) BY <1>4, <3>1
        <3> QED BY <3>1, <3>2, <3>3
    <2>6. Len(x) >= 1 /\ Len(x) = Len(a) + 1 BY <2>4
    <2>7. ~(n >= 0) BY <1>5
    <2>8. DecimalIs(n, x, f) BY <1>1, <1>3, <1>5, <2>4, <2>5, <2>6, <2>7 DEF DecimalIs
    <2> QED BY <2>2, <2>8
<1>6. CASE ~(n < 0)
    <2>1. Decimal(n) = a BY <1>1, <1>3, <1>6
    <2>2. 1 \in 1..Len(a) /\ \A i \in 2..Len(a) : i \in 1..Len(a) BY <1>4
    <2>3. IsDigit(a[1]) /\ \A i \in 2..Len(a) : IsDigit(a[i]) BY <1>4, <2>2
    <2>4. a[1] # Minus BY <2>3 DEF IsDigit, Minus, Zero, Nine
    <2>5. DecimalIs(n, a, f) BY <1>1, <1>3, <1>4, <1>6, <2>3, <2>4 DEF DecimalIs
    <2> QED BY <2>1, <2>5
<1> QED BY <1>5, <1>6

LEMMA SameLength ==
    ASSUME NEW x \in Seq(Nat), NEW y \in Seq(Nat), NEW T, NEW p \in Nat, Lies(x, T, p), Lies(y, T, p),
           Len(x) >= 1, \A i \in 2..Len(y) : IsDigit(y[i]), ~IsDigit(T[p + Len(x) + 1])
    PROVE  Len(y) <= Len(x)
<1>0. Len(x) \in Nat /\ Len(y) \in Nat OBVIOUS
<1> SUFFICES ASSUME Len(x) < Len(y) PROVE FALSE BY <1>0
<1>1. Len(x) + 1 \in 2..Len(y) /\ Len(x) + 1 \in 1..Len(y) BY <1>0
<1>2. T[p + (Len(x) + 1)] = y[Len(x) + 1] BY <1>1 DEF Lies
<1>3. p + (Len(x) + 1) = p + Len(x) + 1 BY <1>0
<1>4. IsDigit(y[Len(x) + 1]) BY <1>1
<1> QED BY <1>2, <1>3, <1>4

\* Two numbers written at one place of a text, each ended there by something
\* that is no digit, are the same number.
LEMMA DecimalUnique ==
    ASSUME NEW a \in Int, NEW b \in Int, NEW T, NEW p \in Nat, Lies(Decimal(a), T, p), Lies(Decimal(b), T, p),
           ~IsDigit(T[p + Len(Decimal(a)) + 1]), ~IsDigit(T[p + Len(Decimal(b)) + 1])
    PROVE  a = b
<1> DEFINE x == Decimal(a)
           y == Decimal(b)
<1>1. PICK f : DecimalIs(a, x, f) BY DecimalFacts
<1>2. PICK g : DecimalIs(b, y, g) BY DecimalFacts
<1>3. Lies(x, T, p) /\ Lies(y, T, p) /\ ~IsDigit(T[p + Len(x) + 1]) /\ ~IsDigit(T[p + Len(y) + 1]) OBVIOUS
<1> HIDE DEF x, y
<1>4. /\ x \in Seq(Nat) /\ Len(x) >= 1 /\ (\A i \in 2..Len(x) : IsDigit(x[i])) BY <1>1 DEF DecimalIs
<1>5. /\ y \in Seq(Nat) /\ Len(y) >= 1 /\ (\A i \in 2..Len(y) : IsDigit(y[i])) BY <1>2 DEF DecimalIs
<1>6. Len(y) <= Len(x) BY <1>3, <1>4, <1>5, SameLength
<1>7. Len(x) <= Len(y) BY <1>3, <1>4, <1>5, SameLength
<1>8. Len(x) \in Nat /\ Len(y) \in Nat BY <1>4, <1>5
<1>9. Len(x) = Len(y) BY <1>6, <1>7, <1>8
<1>10. Agree(x, y) BY <1>3, <1>4, <1>5, LiesAgree
<1>11. \A i \in 1..Len(x) : x[i] = y[i] BY <1>9, <1>10 DEF Agree
<1>12. x = y BY <1>4, <1>5, <1>9, <1>11, SeqEqual
<1>13. a < 0 <=> b < 0 BY <1>1, <1>2, <1>12 DEF DecimalIs
<1>14. DigitsOf(f, Size(a)) /\ DigitsOf(g, Size(b)) BY <1>1, <1>2 DEF DecimalIs
<1>15. Size(a) \in Nat /\ Size(b) \in Nat /\ Size(a) \in 0..Size(a) /\ Size(b) \in 0..Size(b) BY DEF Size
<1>16. PICK c \in Seq(Nat), d \in Seq(Nat) : c = f[Size(a)] /\ d = g[Size(b)] BY <1>14, <1>15 DEF DigitsOf
<1>17. c = d
    <2>1. CASE a < 0
        <3>1. Len(x) = Len(c) + 1 /\ \A i \in 1..Len(c) : x[1 + i] = c[i] BY <1>1, <1>16, <2>1 DEF DecimalIs
        <3>2. Len(x) = Len(d) + 1 /\ \A i \in 1..Len(d) : x[1 + i] = d[i] BY <1>2, <1>12, <1>13, <1>16, <2>1 DEF DecimalIs
        <3>3. Len(c) \in Nat /\ Len(d) \in Nat BY <1>16
        <3>4. Len(c) = Len(d) BY <3>1, <3>2, <3>3
        <3>5. \A i \in 1..Len(c) : c[i] = d[i] BY <3>1, <3>2, <3>4
        <3> QED BY <3>4, <3>5, SeqEqual
    <2>2. CASE a >= 0
        <3>1. b >= 0 BY <1>13, <2>2
        <3> QED BY <1>1, <1>2, <1>12, <1>16, <2>2, <3>1 DEF DecimalIs
    <2> QED BY <2>1, <2>2
<1>18. Size(a) = Size(b)
    <2>1. SameDigits(f, g, Size(a), Size(b)) BY <1>14, <1>15, DigitsUnique
    <2>2. f[Size(a)] = g[Size(b)] BY <1>16, <1>17
    <2> QED BY <1>15, <2>1, <2>2 DEF SameDigits
<1> QED BY <1>13, <1>18 DEF Size

--------------------------------------------------------------------------------
(* Words and fields                                                       *)

LEMMA MinFacts ==
    ASSUME NEW S \in SUBSET Nat, S # {} PROVE Min(S) \in S /\ \A y \in S : Min(S) <= y
<1>1. PICK e \in S : TRUE OBVIOUS
<1>2. \E x \in S : \A y \in S : x <= y BY <1>1, LeastNatural
<1> DEFINE Is(x) == x \in S /\ \A y \in S : x <= y
<1>3. PICK x : Is(x) BY <1>2
<1>4. Is(CHOOSE y : Is(y)) BY <1>3, Zenon
<1>5. Min(S) = CHOOSE y : Is(y) BY DEF Min
<1> QED BY <1>4, <1>5

\* The index of the first w in s, 0 when there is none.
First(s, w) == SelectInSeq(s, LAMBDA x : x = w)

LEMMA FirstFacts ==
    ASSUME NEW S, NEW s \in Seq(S), NEW w
    PROVE  /\ First(s, w) \in 0..Len(s)
           /\ First(s, w) # 0 => s[First(s, w)] = w
           /\ (\E i \in 1..Len(s) : s[i] = w) => First(s, w) \in 1..Len(s)
<1> DEFINE I == {i \in 1..Len(s) : s[i] = w}
<1>1. First(s, w) = IF I # {} THEN Min(I) ELSE 0 BY DEF First, SelectInSeq
<1>2. I \in SUBSET Nat /\ \A i \in I : i \in 1..Len(s) /\ s[i] = w OBVIOUS
<1>3. (\E i \in 1..Len(s) : s[i] = w) => I # {} OBVIOUS
<1>4. Len(s) \in Nat OBVIOUS
<1> HIDE DEF I
<1>5. I # {} => Min(I) \in I BY <1>2, MinFacts
<1>6. CASE I = {} BY <1>1, <1>3, <1>4, <1>6
<1>7. CASE I # {}
    <2>1. First(s, w) \in 1..Len(s) /\ s[First(s, w)] = w BY <1>1, <1>2, <1>5, <1>7
    <2> QED BY <1>4, <2>1
<1> QED BY <1>6, <1>7

OtherWords == <<"type", "null", "Ed25519", "ECHO", "OK", "JOB_REQUEST", "JOB_RESULT", "FAILURE_NOTICE">>

Names == ToSet(RequestFields) \cup ToSet(ResultFields) \cup ToSet(NoticeFields) \cup ToSet(OtherWords)

LEMMA TupleType ==
    ASSUME NEW s, NEW n \in Nat, s = [i \in 1..n |-> s[i]], ToSet(s) \subseteq Names
    PROVE  s \in Seq(Names) /\ Len(s) = n
<1>1. DOMAIN s = 1..n OBVIOUS
<1>2. \A i \in 1..n : s[i] \in Names BY <1>1 DEF ToSet
<1>3. [i \in 1..n |-> s[i]] \in Seq(Names) BY <1>2
<1> QED BY <1>3

LEMMA FieldsType ==
    /\ RequestFields \in Seq(Names) /\ Len(RequestFields) = 12
    /\ ResultFields \in Seq(Names) /\ Len(ResultFields) = 10
    /\ NoticeFields \in Seq(Names) /\ Len(NoticeFields) = 9
    /\ OtherWords \in Seq(Names)
<1>1. RequestFields = [i \in 1..12 |-> RequestFields[i]] BY DEF RequestFields
<1>2. ResultFields = [i \in 1..10 |-> ResultFields[i]] BY DEF ResultFields
<1>3. NoticeFields = [i \in 1..9 |-> NoticeFields[i]] BY DEF NoticeFields
<1>4. OtherWords = [i \in 1..8 |-> OtherWords[i]] BY DEF OtherWords
<1>5. /\ ToSet(RequestFields) \subseteq Names /\ ToSet(ResultFields) \subseteq Names
      /\ ToSet(NoticeFields) \subseteq Names /\ ToSet(OtherWords) \subseteq Names
    BY DEF Names
<1> QED BY <1>1, <1>2, <1>3, <1>4, <1>5, TupleType

LEMMA ConcatIndex ==
    ASSUME NEW a \in Seq(Names), NEW b \in Seq(Names)
    PROVE  /\ a \o b \in Seq(Names) /\ Len(a \o b) = Len(a) + Len(b)
           /\ \A i \in 1..Len(a) : (a \o b)[i] = a[i]
           /\ \A i \in 1..Len(b) : (a \o b)[Len(a) + i] = b[i]
OBVIOUS

LEMMA WordsFacts ==
    /\ Words \in Seq(Names)
    /\ \E i \in 1..Len(Words) : Words[i] = "expires_at"
    /\ \E i \in 1..Len(Words) : Words[i] = "completed_at"
    /\ \E i \in 1..Len(Words) : Words[i] = "failed_node_id"
<1> DEFINE a == RequestFields
           b == ResultFields
           c == NoticeFields
           d == OtherWords
           e == a \o b
           f == e \o c
<1>1. Words = f \o d BY DEF Words, OtherWords
<1>2. a \in Seq(Names) /\ b \in Seq(Names) /\ c \in Seq(Names) BY FieldsType
<1>3. d \in Seq(Names) BY FieldsType
<1>4. a[1] = "expires_at" /\ b[1] = "completed_at" /\ c[1] = "failed_node_id"
    BY DEF RequestFields, ResultFields, NoticeFields
<1>5. Len(a) = 12 /\ Len(b) = 10 /\ Len(c) = 9 BY FieldsType
<1> HIDE DEF a, b, c, d
<1>6. e \in Seq(Names) /\ Len(e) = Len(a) + Len(b) /\ e[1] = a[1] /\ e[Len(a) + 1] = b[1]
    <2>1. 1 \in 1..Len(a) /\ 1 \in 1..Len(b) BY <1>5
    <2> QED BY <1>2, <2>1, ConcatIndex
<1>7. Len(e) = 22 /\ e[13] = b[1] BY <1>5, <1>6
<1> HIDE DEF e
<1>8. f \in Seq(Names) /\ Len(f) = Len(e) + Len(c) /\ f[1] = e[1] /\ f[13] = e[13] /\ f[Len(e) + 1] = c[1]
    <2>1. 1 \in 1..Len(e) /\ 13 \in 1..Len(e) /\ 1 \in 1..Len(c) BY <1>5, <1>7
    <2>2. e \in Seq(Names) /\ c \in Seq(Names) BY <1>2, <1>6
    <2> QED BY <2>1, <2>2, ConcatIndex
<1>9. Len(f) = 31 /\ f[23] = c[1] BY <1>5, <1>7, <1>8
<1> HIDE DEF f
<1>10. 1 \in 1..Len(f) /\ 13 \in 1..Len(f) /\ 23 \in 1..Len(f) BY <1>9
<1>11. f \o d \in Seq(Names) /\ \A i \in 1..Len(f) : (f \o d)[i] = f[i] BY <1>3, <1>8, ConcatIndex
<1>12. \A i \in 1..Len(f) : i \in 1..Len(f \o d)
    <2>1. Len(f \o d) = Len(f) + Len(d) /\ Len(f) \in Nat /\ Len(d) \in Nat BY <1>3, <1>8
    <2> QED BY <2>1
<1> QED BY <1>1, <1>4, <1>6, <1>7, <1>8, <1>9, <1>10, <1>11, <1>12

LEMMA WordType == ASSUME NEW w PROVE Word(w) \in Nat /\ Word(w) > 255 /\ Word(w) >= MaxCodePoint
<1>1. Word(w) = MaxCodePoint + First(Words, w) BY SMT DEF Word, First
<1>2. First(Words, w) \in 0..Len(Words) BY WordsFacts, FirstFacts
<1>3. Len(Words) \in Nat BY WordsFacts
<1>4. First(Words, w) \in Nat BY <1>2, <1>3
<1> QED BY <1>1, <1>4, SMT DEF MaxCodePoint

LEMMA WordUnique ==
    ASSUME NEW v \in {"expires_at", "completed_at", "failed_node_id"},
           NEW w \in {"expires_at", "completed_at", "failed_node_id"}, Word(v) = Word(w)
    PROVE  v = w
<1>1. Word(v) = MaxCodePoint + First(Words, v) /\ Word(w) = MaxCodePoint + First(Words, w) BY SMT DEF Word, First
<1>2. First(Words, v) \in 1..Len(Words) /\ First(Words, w) \in 1..Len(Words) BY WordsFacts, FirstFacts
<1>3. Len(Words) \in Nat BY WordsFacts
<1>4. First(Words, v) \in Nat /\ First(Words, w) \in Nat /\ First(Words, v) # 0 /\ First(Words, w) # 0 BY <1>2, <1>3
<1>5. First(Words, v) = First(Words, w)
    <2>1. PICK i \in Nat, j \in Nat : i = First(Words, v) /\ j = First(Words, w) BY <1>4
    <2>2. MaxCodePoint + i = MaxCodePoint + j BY <1>1, <2>1
    <2>3. i = j BY <2>2, SMT DEF MaxCodePoint
    <2> QED BY <2>1, <2>3
<1>6. Words[First(Words, v)] = v /\ Words[First(Words, w)] = w BY <1>4, WordsFacts, FirstFacts
<1> QED BY <1>5, <1>6

--------------------------------------------------------------------------------
(* Values: a text holds at most one of a field                            *)

Types == {"JOB_REQUEST", "JOB_RESULT", "FAILURE_NOTICE"}

FirstOf(type) ==
    IF type = "JOB_REQUEST" THEN "expires_at" ELSE IF type = "JOB_RESULT" THEN "completed_at" ELSE "failed_node_id"

LEMMA FieldsOf ==
    ASSUME NEW type \in Types
    PROVE  Fields(type) \in Seq(Names) /\ Len(Fields(type)) >= 2 /\ Fields(type)[1] = FirstOf(type)
<1>1. CASE type = "JOB_REQUEST"
    <2>1. Fields(type) = RequestFields BY <1>1, Zenon DEF Fields
    <2>2. RequestFields[1] = "expires_at" BY DEF RequestFields
    <2>3. RequestFields \in Seq(Names) /\ Len(RequestFields) >= 2 BY FieldsType
    <2>4. FirstOf(type) = "expires_at" BY <1>1 DEF FirstOf
    <2> QED BY <2>1, <2>2, <2>3, <2>4
<1>2. CASE type = "JOB_RESULT"
    <2>1. Fields(type) = ResultFields BY <1>2, Zenon DEF Fields
    <2>2. ResultFields[1] = "completed_at" BY DEF ResultFields
    <2>3. ResultFields \in Seq(Names) /\ Len(ResultFields) >= 2 BY FieldsType
    <2>4. FirstOf(type) = "completed_at" BY <1>2 DEF FirstOf
    <2> QED BY <2>1, <2>2, <2>3, <2>4
<1>3. CASE type = "FAILURE_NOTICE"
    <2>1. Fields(type) = NoticeFields BY <1>3, Zenon DEF Fields
    <2>2. NoticeFields[1] = "failed_node_id" BY DEF NoticeFields
    <2>3. NoticeFields \in Seq(Names) /\ Len(NoticeFields) >= 2 BY FieldsType
    <2>4. FirstOf(type) = "failed_node_id" BY <1>3 DEF FirstOf
    <2> QED BY <2>1, <2>2, <2>3, <2>4
<1> QED BY <1>1, <1>2, <1>3 DEF Types

\* What is left of s when it loses one e: all else that s holds.
Without(r, s, e) ==
    /\ r \in Seq(Names) /\ Len(r) >= 1 /\ r[1] = s[1]
    /\ \A k \in 1..Len(r) : r[k] \in ToSet(s)
    /\ \A f \in ToSet(s) : f # e => \E k \in 1..Len(r) : r[k] = f

LEMMA TailFacts ==
    ASSUME NEW s \in Seq(Names), NEW m \in Nat, m <= Len(s)
    PROVE  /\ SubSeq(s, m + 1, Len(s)) \in Seq(Names) /\ Len(SubSeq(s, m + 1, Len(s))) = Len(s) - m
           /\ \A i \in 1..Len(s) - m : SubSeq(s, m + 1, Len(s))[i] = s[m + i]
<1> DEFINE b == SubSeq(s, m + 1, Len(s))
<1>0. Len(s) \in Nat /\ m + 1 \in Int /\ Len(s) \in Int OBVIOUS
<1>1. \A i \in m + 1..Len(s) : s[i] \in Names OBVIOUS
<1>2. /\ b \in Seq(Names) /\ Len(b) = (IF m + 1 <= Len(s) THEN Len(s) - (m + 1) + 1 ELSE 0)
      /\ \A i \in 1..Len(s) - (m + 1) + 1 : b[i] = s[m + 1 + i - 1]
    BY <1>0, <1>1, SubSeqProperties
<1> HIDE DEF b
<1>3. Len(b) = Len(s) - m BY <1>0, <1>2
<1>4. \A i \in 1..Len(s) - m : b[i] = s[m + i]
    <2> SUFFICES ASSUME NEW i \in 1..Len(s) - m PROVE b[i] = s[m + i] OBVIOUS
    <2>1. i \in 1..Len(s) - (m + 1) + 1 /\ m + 1 + i - 1 = m + i BY <1>0
    <2> QED BY <1>2, <2>1
<1> QED BY <1>2, <1>3, <1>4 DEF b

LEMMA RemoveFirstFacts ==
    ASSUME NEW s \in Seq(Names), NEW e, Len(s) >= 2, s[1] # e
    PROVE  Without(RemoveFirst(s, e), s, e)
<1> DEFINE n == Len(s)
           m == First(s, e)
           a == SubSeq(s, 1, m - 1)
           b == SubSeq(s, m + 1, n)
           r == RemoveFirst(s, e)
<1>0. n \in Nat /\ n >= 2 /\ DOMAIN s = 1..n OBVIOUS
<1>1. CASE \E i \in 1..n : s[i] = e
    <2>1. r = a \o b BY <1>1 DEF RemoveFirst, RemoveAt, First
    <2>2. m \in 1..n /\ s[m] = e BY <1>1, FirstFacts
    <2>3. m # 1 BY <2>2
    <2> HIDE DEF m, n
    <2>4. m \in 2..n BY <1>0, <2>2, <2>3
    <2>5. a \in Seq(Names) /\ Len(a) = m - 1 /\ \A i \in 1..m - 1 : a[i] = s[i] BY <1>0, <2>4 DEF n
    <2>6. b \in Seq(Names) /\ Len(b) = n - m /\ \A i \in 1..n - m : b[i] = s[m + i]
        <3>1. m \in Nat /\ m <= Len(s) BY <1>0, <2>4 DEF n
        <3> QED BY <3>1, TailFacts DEF n
    <2> HIDE DEF a, b, r
    <2>7. r \in Seq(Names) /\ Len(r) = Len(a) + Len(b) BY <2>1, <2>5, <2>6, ConcatIndex
    <2>8. Len(r) = n - 1 BY <1>0, <2>4, <2>5, <2>6, <2>7
    <2>9. \A i \in 1..m - 1 : r[i] = s[i]
        <3>1. \A i \in 1..Len(a) : (a \o b)[i] = a[i] BY <2>5, <2>6, ConcatIndex
        <3> QED BY <2>1, <2>5, <3>1
    <2>10. \A i \in 1..n - m : r[(m - 1) + i] = s[m + i]
        <3>1. \A i \in 1..Len(b) : (a \o b)[Len(a) + i] = b[i] BY <2>5, <2>6, ConcatIndex
        <3> QED BY <2>1, <2>5, <2>6, <3>1
    <2>11. Len(r) >= 1 /\ r[1] = s[1]
        <3>1. 1 \in 1..m - 1 BY <2>4
        <3> QED BY <1>0, <2>8, <2>9, <3>1
    <2>12. ASSUME NEW k \in 1..Len(r) PROVE r[k] \in ToSet(s)
        <3>1. CASE k <= m - 1
            <4>1. k \in 1..m - 1 /\ k \in 1..n BY <1>0, <2>4, <2>8, <3>1
            <4>2. r[k] = s[k] BY <2>9, <4>1
            <4> QED BY <1>0, <4>1, <4>2 DEF ToSet
        <3>2. CASE k > m - 1
            <4>1. k - (m - 1) \in 1..n - m /\ (m - 1) + (k - (m - 1)) = k /\ m + (k - (m - 1)) \in 1..n
                BY <1>0, <2>4, <2>8, <3>2
            <4>2. r[k] = s[m + (k - (m - 1))] BY <2>10, <4>1
            <4> QED BY <1>0, <4>1, <4>2 DEF ToSet
        <3>3. k \in Int /\ m - 1 \in Int BY <1>0, <2>4, <2>8
        <3> QED BY <3>1, <3>2, <3>3
    <2>13. ASSUME NEW f \in ToSet(s), f # e PROVE \E k \in 1..Len(r) : r[k] = f
        <3>1. PICK i \in 1..n : s[i] = f BY <1>0 DEF ToSet
        <3>2. i # m BY <2>2, <2>13, <3>1
        <3>3. CASE i < m
            <4>1. i \in 1..m - 1 /\ i \in 1..Len(r) BY <1>0, <2>4, <2>8, <3>3
            <4> QED BY <2>9, <3>1, <4>1
        <3>4. CASE i > m
            <4>1. i - m \in 1..n - m /\ m + (i - m) = i /\ (m - 1) + (i - m) \in 1..Len(r) BY <1>0, <2>4, <2>8, <3>4
            <4> QED BY <2>10, <3>1, <4>1
        <3>5. i \in Int /\ m \in Int BY <1>0, <2>4
        <3> QED BY <3>2, <3>3, <3>4, <3>5
    <2>14. Without(r, s, e) BY <2>7, <2>11, <2>12, <2>13 DEF Without
    <2> QED BY <2>14 DEF r
<1>2. CASE ~\E i \in 1..n : s[i] = e
    <2>1. r = s BY <1>2 DEF RemoveFirst
    <2>2. Len(s) >= 1 BY <1>0
    <2>3. \A k \in 1..Len(s) : s[k] \in ToSet(s) BY <1>0 DEF ToSet
    <2>4. \A f \in ToSet(s) : f # e => \E k \in 1..Len(s) : s[k] = f BY <1>0 DEF ToSet
    <2>5. Without(s, s, e) BY <2>2, <2>3, <2>4 DEF Without
    <2> QED BY <2>1, <2>5
<1> QED BY <1>1, <1>2

SignedFields(type) == RemoveFirst(Fields(type), "signature")

LEMMA SignedFieldsFacts ==
    ASSUME NEW type \in Types
    PROVE  Without(SignedFields(type), Fields(type), "signature") /\ SignedFields(type)[1] = FirstOf(type)
<1>1. Fields(type) \in Seq(Names) /\ Len(Fields(type)) >= 2 /\ Fields(type)[1] = FirstOf(type) BY FieldsOf
<1>2. FirstOf(type) # "signature" BY DEF FirstOf
<1>3. Without(SignedFields(type), Fields(type), "signature") BY <1>1, <1>2, RemoveFirstFacts DEF SignedFields
<1> QED BY <1>1, <1>3 DEF Without
--------------------------------------------------------------------------------
ValueOk(f, v) == IF f \in IntFields THEN v \in Int ELSE v \in Seq(Nat)

LEMMA ValueInt == ASSUME NEW lang, NEW f \in IntFields, NEW v PROVE Value(lang, f, v) = Decimal(v)
BY Zenon DEF Value, IntFields

LEMMA ValueNull == ASSUME NEW lang PROVE Value(lang, "organization_id", <<>>) = <<Word("null")>>
<1>1. "organization_id" \notin IntFields BY DEF IntFields
<1> QED BY <1>1, Zenon DEF Value

LEMMA ValueString ==
    ASSUME NEW lang, NEW f, f \notin IntFields, NEW v, f # "organization_id" \/ v # <<>>
    PROVE  Value(lang, f, v) = JsonString(lang, v)
BY Zenon DEF Value

Ends(ch) == ch = Comma \/ ch = RBrace

ValueSame(lang, f, v, w) ==
    /\ v = w
    /\ lang = "python" /\ f \notin IntFields => \A k \in 1..Len(w) : Single(w[k])

LEMMA ValueType == ASSUME NEW lang, NEW f, NEW v, ValueOk(f, v) PROVE Value(lang, f, v) \in Seq(Nat)
<1>1. CASE f \in IntFields
    <2>1. v \in Int BY <1>1 DEF ValueOk
    <2>2. PICK d : DecimalIs(v, Decimal(v), d) BY <2>1, DecimalFacts
    <2>3. Decimal(v) \in Seq(Nat) BY <2>2 DEF DecimalIs
    <2> QED BY <1>1, <2>3, ValueInt
<1>2. CASE f = "organization_id" /\ v = <<>>
    <2>1. Word("null") \in Nat BY WordType
    <2>2. <<Word("null")>> \in Seq(Nat) BY <2>1
    <2> QED BY <1>2, <2>2, ValueNull
<1>3. CASE f \notin IntFields /\ (f # "organization_id" \/ v # <<>>)
    <2>1. v \in Seq(Nat) BY <1>3 DEF ValueOk
    <2>2. JsonString(lang, v) \in Seq(Nat) BY <2>1, StringPlaced
    <2> QED BY <1>3, <2>2, ValueString
<1> QED BY <1>1, <1>2, <1>3

LEMMA StringText ==
    ASSUME NEW lang, NEW v \in Seq(Nat), NEW w \in Seq(Nat), NEW T \in Seq(Nat), NEW p \in Nat,
           Lies(JsonString("cpp", v), T, p), Lies(JsonString(lang, w), T, p)
    PROVE  /\ v = w /\ Len(JsonString("cpp", v)) = Len(JsonString(lang, w))
           /\ lang = "python" => \A k \in 1..Len(w) : Single(w[k])
<1>1. PICK n \in Nat : /\ Len(JsonString("cpp", v)) = n + 2
                        /\ \E L : StringAt("cpp", v, T, p, L) /\ L[Len(v)] = n
    BY StringPlaced
<1>2. PICK m \in Nat : /\ Len(JsonString(lang, w)) = m + 2
                        /\ \E L : StringAt(lang, w, T, p, L) /\ L[Len(w)] = m
    BY StringPlaced
<1>3. PICK L : StringAt("cpp", v, T, p, L) /\ L[Len(v)] = n BY <1>1
<1>4. PICK M : StringAt(lang, w, T, p, M) /\ M[Len(w)] = m BY <1>2
<1>5. StringSame(lang, v, w, L, M) BY <1>3, <1>4, StringUnique, Zenon
<1>6. v = w /\ n = m /\ (lang = "python" => \A k \in 1..Len(w) : Single(w[k]))
    BY <1>3, <1>4, <1>5 DEF StringSame
<1> QED BY <1>1, <1>2, <1>6

LEMMA StringFirst ==
    ASSUME NEW lang, NEW v \in Seq(Nat), NEW T \in Seq(Nat), NEW p \in Nat, Lies(JsonString(lang, v), T, p)
    PROVE  T[p + 1] = Quote
<1>1. PICK L : StringAt(lang, v, T, p, L) BY StringPlaced
<1> QED BY <1>1 DEF StringAt

LEMMA NullFirst ==
    ASSUME NEW T \in Seq(Nat), NEW p \in Nat, Lies(<<Word("null")>>, T, p)
    PROVE  T[p + 1] # Quote
<1>1. Word("null") \in Nat /\ Word("null") > 255 BY WordType
<1> DEFINE x == <<Word("null")>>
<1>2. x \in Seq(Nat) /\ Len(x) = 1 /\ x[1] = Word("null") /\ Lies(x, T, p) BY <1>1
<1> HIDE DEF x
<1>3. Len(x) >= 1 BY <1>2
<1>4. T[p + 1] = x[1] BY <1>2, <1>3, LiesFirst
<1> QED BY <1>1, <1>2, <1>4 DEF Quote

\* At one place of a text stands at most one value of a field.
LEMMA ValueUnique ==
    ASSUME NEW lang, NEW f, NEW v, NEW w, ValueOk(f, v), ValueOk(f, w), NEW T \in Seq(Nat), NEW p \in Nat,
           Lies(Value("cpp", f, v), T, p), Lies(Value(lang, f, w), T, p),
           Ends(T[p + Len(Value("cpp", f, v)) + 1]), Ends(T[p + Len(Value(lang, f, w)) + 1])
    PROVE  ValueSame(lang, f, v, w) /\ Len(Value("cpp", f, v)) = Len(Value(lang, f, w))
<1>1. CASE f \in IntFields
    <2>1. v \in Int /\ w \in Int BY <1>1 DEF ValueOk
    <2>2. Value("cpp", f, v) = Decimal(v) /\ Value(lang, f, w) = Decimal(w) BY <1>1, ValueInt
    <2>3. \A ch : Ends(ch) => ~IsDigit(ch) BY DEF Ends, IsDigit, Zero, Nine, Comma, RBrace
    <2>4. v = w BY <2>1, <2>2, <2>3, DecimalUnique
    <2> QED BY <1>1, <2>2, <2>4 DEF ValueSame
<1>2. CASE f \notin IntFields
    <2>1. v \in Seq(Nat) /\ w \in Seq(Nat) BY <1>2 DEF ValueOk
    <2>2. CASE f = "organization_id" /\ v = <<>> /\ w = <<>>
        <3>1. Len(w) = 0 BY <2>2
        <3>2. \A k \in 1..Len(w) : Single(w[k]) BY <3>1
        <3> QED BY <2>2, <3>2, ValueNull DEF ValueSame
    <2>3. CASE f = "organization_id" /\ v = <<>> /\ w # <<>>
        <3>1. Value("cpp", f, v) = <<Word("null")>> /\ Value(lang, f, w) = JsonString(lang, w)
            BY <1>2, <2>3, ValueNull, ValueString
        <3>2. T[p + 1] # Quote BY <3>1, NullFirst
        <3>3. T[p + 1] = Quote BY <2>1, <3>1, StringFirst
        <3> QED BY <3>2, <3>3
    <2>4. CASE f = "organization_id" /\ v # <<>> /\ w = <<>>
        <3>1. Value("cpp", f, v) = JsonString("cpp", v) /\ Value(lang, f, w) = <<Word("null")>>
            BY <1>2, <2>4, ValueNull, ValueString
        <3>2. T[p + 1] # Quote BY <3>1, NullFirst
        <3>3. T[p + 1] = Quote BY <2>1, <3>1, StringFirst
        <3> QED BY <3>2, <3>3
    <2>5. CASE f # "organization_id" \/ (v # <<>> /\ w # <<>>)
        <3>1. Value("cpp", f, v) = JsonString("cpp", v) /\ Value(lang, f, w) = JsonString(lang, w)
            BY <1>2, <2>5, ValueString
        <3>2. /\ v = w /\ Len(JsonString("cpp", v)) = Len(JsonString(lang, w))
              /\ lang = "python" => \A k \in 1..Len(w) : Single(w[k])
            <4>1. Lies(JsonString("cpp", v), T, p) /\ Lies(JsonString(lang, w), T, p) BY <3>1
            <4> QED BY <2>1, <4>1, StringText
        <3> QED BY <3>1, <3>2 DEF ValueSame
    <2> QED BY <2>2, <2>3, <2>4, <2>5
<1> QED BY <1>1, <1>2

--------------------------------------------------------------------------------
(* Objects: a text holds at most one with its fields                      *)

\* Every one of the fields has a value of its kind in m.
FieldsOk(fields, m) == \A k \in 1..Len(fields) : ValueOk(fields[k], m[fields[k]])

Val(lang, fields, m, k) == Value(lang, fields[k], m[fields[k]])

\* The text of an object: the k-th member stands after L[k - 1] symbols, its
\* value five symbols further, and a comma or the closing brace follows it.
ObjectAt(lang, fields, m, T, L) ==
    /\ T \in Seq(Nat) /\ L \in [0..Len(fields) -> Nat] /\ L[0] = 0
    /\ T[3] = Word(fields[1])
    /\ \A k \in 1..Len(fields) :
          /\ L[k] = L[k - 1] + 5 + Len(Val(lang, fields, m, k))
          /\ Lies(Val(lang, fields, m, k), T, L[k - 1] + 5)
          /\ Ends(T[L[k] + 1])

LEMMA MemberFacts ==
    ASSUME NEW a \in Nat, NEW b \in Nat, NEW c \in Nat, NEW d \in Nat, NEW e \in Nat, NEW v \in Seq(Nat)
    PROVE  LET h == <<a, b, c, d, e>>
               x == h \o v
           IN  x \in Seq(Nat) /\ Len(x) = 5 + Len(v) /\ x[1] = a /\ x[3] = c /\ Lies(v, x, 5)
<1> DEFINE h == <<a, b, c, d, e>>
           x == h \o v
<1>1. h \in Seq(Nat) /\ Len(h) = 5 /\ h[1] = a /\ h[3] = c OBVIOUS
<1> HIDE DEF h
<1>2. x \in Seq(Nat) /\ Len(x) = Len(h) + Len(v) /\ Lies(h, x, 0) /\ Lies(v, x, Len(h)) BY <1>1, LiesParts
<1> HIDE DEF x
<1>3. Len(v) \in Nat OBVIOUS
<1>4. x[0 + 1] = h[1] /\ x[0 + 3] = h[3]
    <2>1. 1 \in 1..Len(h) /\ 3 \in 1..Len(h) BY <1>1
    <2> QED BY <1>2, <2>1 DEF Lies
<1>5. x \in Seq(Nat) /\ Len(x) = 5 + Len(v) /\ x[1] = a /\ x[3] = c /\ Lies(v, x, 5) BY <1>1, <1>2, <1>3, <1>4
<1> QED BY <1>5 DEF x, h

Member(lang, fields, m, i) ==
    <<IF i = 1 THEN LBrace ELSE Comma, Quote, Word(fields[i]), Quote, Colon>> \o Value(lang, fields[i], m[fields[i]])

LEMMA MemberType ==
    ASSUME NEW lang, NEW fields \in Seq(Names), NEW m, FieldsOk(fields, m), NEW i \in 1..Len(fields)
    PROVE  LET x == Member(lang, fields, m, i)
           IN  /\ x \in Seq(Nat) /\ Len(x) = 5 + Len(Val(lang, fields, m, i)) /\ Val(lang, fields, m, i) \in Seq(Nat)
               /\ x[1] = (IF i = 1 THEN LBrace ELSE Comma) /\ x[3] = Word(fields[i])
               /\ Lies(Val(lang, fields, m, i), x, 5)
<1> DEFINE a == IF i = 1 THEN LBrace ELSE Comma
           w == Word(fields[i])
           v == Val(lang, fields, m, i)
<1>1. Member(lang, fields, m, i) = <<a, Quote, w, Quote, Colon>> \o v BY DEF Member, Val
<1>2. a \in Nat /\ Quote \in Nat /\ Colon \in Nat BY DEF LBrace, Comma, Quote, Colon
<1>3. w \in Nat BY WordType
<1>4. v \in Seq(Nat) BY ValueType DEF Val, FieldsOk
<1> HIDE DEF a, w, v
<1>5. LET x == <<a, Quote, w, Quote, Colon>> \o v
      IN  x \in Seq(Nat) /\ Len(x) = 5 + Len(v) /\ x[1] = a /\ x[3] = w /\ Lies(v, x, 5)
    BY <1>2, <1>3, <1>4, MemberFacts
<1> QED BY <1>1, <1>4, <1>5 DEF a, w, v

LEMMA ObjectPlaced ==
    ASSUME NEW lang, NEW fields \in Seq(Names), Len(fields) >= 1, NEW m, FieldsOk(fields, m)
    PROVE  \E L : ObjectAt(lang, fields, m, FlatObject(lang, fields, m), L)
<1> DEFINE n == Len(fields)
           s == [i \in DOMAIN fields |-> Member(lang, fields, m, i)]
           F == FlattenSeq(s)
           q == <<RBrace>>
           T == FlatObject(lang, fields, m)
<1>0. n \in Nat /\ n >= 1 /\ DOMAIN fields = 1..n OBVIOUS
<1>1. T = F \o q BY DEF FlatObject, Member
<1>2. \A i \in 1..n : s[i] = Member(lang, fields, m, i) BY <1>0
<1>3. \A i \in 1..n : Member(lang, fields, m, i) \in Seq(Nat) BY MemberType
<1>4. s \in Seq(Seq(Nat)) /\ Len(s) = n BY <1>0, <1>3
<1>5. q \in Seq(Nat) /\ Len(q) = 1 /\ q[1] = RBrace BY DEF RBrace
<1> HIDE DEF s, F, q, T, n
<1>6. PICK L : Pieces(s, F, L) BY <1>4, FlattenFacts DEF F
<1>7. /\ F \in Seq(Nat) /\ L \in [0..n -> Nat] /\ L[0] = 0 /\ Len(F) = L[n]
      /\ \A k \in 1..n : L[k] = L[k - 1] + Len(s[k]) /\ Lies(s[k], F, L[k - 1])
    BY <1>4, <1>6 DEF Pieces
<1>8. T \in Seq(Nat) /\ Lies(F, T, 0) /\ Lies(q, T, Len(F)) BY <1>1, <1>5, <1>7, LiesParts
<1>9. T[L[n] + 1] = RBrace
    <2>1. Len(q) >= 1 /\ Len(F) \in Nat BY <1>5, <1>7
    <2>2. T[Len(F) + 1] = q[1] BY <1>5, <1>8, <2>1, LiesFirst
    <2> QED BY <1>5, <1>7, <2>2
<1>10. ASSUME NEW k \in 1..n
       PROVE  /\ L[k - 1] \in Nat /\ L[k] = L[k - 1] + 5 + Len(Val(lang, fields, m, k))
              /\ Lies(Val(lang, fields, m, k), T, L[k - 1] + 5)
              /\ T[L[k - 1] + 1] = (IF k = 1 THEN LBrace ELSE Comma) /\ T[L[k - 1] + 3] = Word(fields[k])
    <2>0. k - 1 \in 0..n BY <1>0
    <2>1. PICK o \in Nat : o = L[k - 1] BY <1>7, <2>0
    <2> DEFINE x == Member(lang, fields, m, k)
               v == Val(lang, fields, m, k)
    <2>2. /\ x \in Seq(Nat) /\ Len(x) = 5 + Len(v) /\ v \in Seq(Nat)
          /\ x[1] = (IF k = 1 THEN LBrace ELSE Comma) /\ x[3] = Word(fields[k])
          /\ Lies(v, x, 5)
        BY MemberType DEF n
    <2>3. s[k] = x BY <1>2
    <2> HIDE DEF x, v
    <2>4. L[k] = o + Len(x) /\ Lies(x, F, o) BY <1>7, <2>1, <2>3
    <2>5. Lies(x, T, 0 + o) BY <1>7, <1>8, <2>2, <2>4, LiesIn
    <2>6. Lies(x, T, o) BY <2>5
    <2>7. Lies(v, T, o + 5) BY <1>8, <2>2, <2>6, LiesIn
    <2>8. Len(v) \in Nat BY <2>2
    <2>9. 1 \in 1..Len(x) /\ 3 \in 1..Len(x) BY <2>2, <2>8
    <2>10. T[o + 1] = x[1] /\ T[o + 3] = x[3] BY <2>6, <2>9 DEF Lies
    <2>11. L[k] = o + 5 + Len(v) BY <2>2, <2>4, <2>8
    <2> QED BY <2>1, <2>2, <2>7, <2>10, <2>11 DEF v
<1>11. ASSUME NEW k \in 1..n PROVE Ends(T[L[k] + 1])
    <2>1. CASE k = n BY <1>9, <2>1 DEF Ends
    <2>2. CASE k # n
        <3>1. k + 1 \in 1..n /\ k + 1 # 1 /\ (k + 1) - 1 = k BY <1>0, <2>2
        <3>2. T[L[k] + 1] = Comma BY <1>10, <3>1
        <3> QED BY <3>2 DEF Ends
    <2> QED BY <2>1, <2>2
<1>12. T[3] = Word(fields[1])
    <2>1. 1 \in 1..n /\ 1 - 1 = 0 /\ 0 + 3 = 3 BY <1>0
    <2>2. T[L[1 - 1] + 3] = Word(fields[1]) BY <1>10, <2>1
    <2> QED BY <1>7, <2>1, <2>2
<1>13. ObjectAt(lang, fields, m, T, L) BY <1>7, <1>8, <1>10, <1>11, <1>12 DEF ObjectAt, n
<1> QED BY <1>13 DEF T

LEMMA ObjectUnique ==
    ASSUME NEW lang, NEW fields \in Seq(Names), NEW m, NEW w, FieldsOk(fields, m), FieldsOk(fields, w),
           NEW T, NEW L, NEW M, ObjectAt("cpp", fields, m, T, L), ObjectAt(lang, fields, w, T, M)
    PROVE  \A k \in 1..Len(fields) : ValueSame(lang, fields[k], m[fields[k]], w[fields[k]])
<1> DEFINE n == Len(fields)
           S == {k \in 0..n : /\ L[k] = M[k]
                              /\ k # 0 => ValueSame(lang, fields[k], m[fields[k]], w[fields[k]])}
<1>0. n \in Nat OBVIOUS
<1>1. /\ T \in Seq(Nat) /\ L \in [0..n -> Nat] /\ L[0] = 0
      /\ \A k \in 1..n :
          /\ L[k] = L[k - 1] + 5 + Len(Val("cpp", fields, m, k))
          /\ Lies(Val("cpp", fields, m, k), T, L[k - 1] + 5)
          /\ Ends(T[L[k] + 1])
    BY DEF ObjectAt
<1>2. /\ M \in [0..n -> Nat] /\ M[0] = 0
      /\ \A k \in 1..n :
          /\ M[k] = M[k - 1] + 5 + Len(Val(lang, fields, w, k))
          /\ Lies(Val(lang, fields, w, k), T, M[k - 1] + 5)
          /\ Ends(T[M[k] + 1])
    BY DEF ObjectAt
<1>3. 0 \in S BY <1>0, <1>1, <1>2
<1>4. ASSUME NEW k \in 1..n, k - 1 \in S PROVE k \in S
    <2>0. k - 1 \in 0..n /\ k \in 0..n /\ L[k - 1] = M[k - 1] BY <1>4
    <2>1. PICK p \in Nat : p = L[k - 1] + 5 /\ p = M[k - 1] + 5
        <3>1. L[k - 1] \in Nat BY <1>1, <2>0
        <3> QED BY <2>0, <3>1
    <2> DEFINE f == fields[k]
               x == Value("cpp", f, m[f])
               y == Value(lang, f, w[f])
    <2>2. ValueOk(f, m[f]) /\ ValueOk(f, w[f]) BY DEF FieldsOk
    <2>3. x \in Seq(Nat) /\ y \in Seq(Nat) BY <2>2, ValueType
    <2>4. Lies(x, T, p) /\ L[k] = p + Len(x) /\ Ends(T[p + Len(x) + 1]) BY <1>1, <2>1 DEF Val
    <2>5. Lies(y, T, p) /\ M[k] = p + Len(y) /\ Ends(T[p + Len(y) + 1]) BY <1>2, <2>1 DEF Val
    <2>6. ValueSame(lang, f, m[f], w[f]) /\ Len(x) = Len(y)
        <3> HIDE DEF f, n, S
        <3> QED BY <1>1, <2>2, <2>4, <2>5, ValueUnique
    <2>7. L[k] = M[k] BY <2>4, <2>5, <2>6
    <2> QED BY <2>0, <2>6, <2>7
<1> HIDE DEF S, n
<1>5. \A k \in 0..n : k \in S BY <1>0, <1>3, <1>4, Induction, Zenon
<1>6. \A k \in 1..n : k \in 0..n /\ k # 0 BY <1>0
<1>7. \A k \in 1..n : ValueSame(lang, fields[k], m[fields[k]], w[fields[k]]) BY <1>5, <1>6 DEF S
<1> QED BY <1>7 DEF n

--------------------------------------------------------------------------------
(* Canonical text determines the message; UTF-8                           *)

MessageOk(type, m) == \A f \in ToSet(Fields(type)) : ValueOk(f, m[f])

LEMMA SignedFieldsOk ==
    ASSUME NEW type \in Types, NEW m, MessageOk(type, m)
    PROVE  SignedFields(type) \in Seq(Names) /\ Len(SignedFields(type)) >= 1 /\ FieldsOk(SignedFields(type), m)
BY SignedFieldsFacts DEF Without, MessageOk, FieldsOk

CanonicalSame(lang, t, u, m, w) ==
    /\ t = u
    /\ \A f \in ToSet(Fields(t)) : f # "signature" => ValueSame(lang, f, m[f], w[f])

\* Two messages have one canonical text only if they are of one type and have
\* the same fields but for the signature.
LEMMA CanonicalUnique ==
    ASSUME NEW lang, NEW t \in Types, NEW u \in Types, NEW m, NEW w, MessageOk(t, m), MessageOk(u, w),
           Canonical("cpp", t, m) = Canonical(lang, u, w)
    PROVE  CanonicalSame(lang, t, u, m, w)
<1> DEFINE T == Canonical("cpp", t, m)
           F == SignedFields(t)
           G == SignedFields(u)
<1>1. T = FlatObject("cpp", F, m) /\ T = FlatObject(lang, G, w) BY DEF Canonical, SignedFields
<1>2. F \in Seq(Names) /\ Len(F) >= 1 /\ FieldsOk(F, m) /\ F[1] = FirstOf(t) BY SignedFieldsOk, SignedFieldsFacts
<1>3. G \in Seq(Names) /\ Len(G) >= 1 /\ FieldsOk(G, w) /\ G[1] = FirstOf(u) BY SignedFieldsOk, SignedFieldsFacts
<1> HIDE DEF T, F, G
<1>4. PICK L : ObjectAt("cpp", F, m, T, L) BY <1>1, <1>2, ObjectPlaced
<1>5. PICK M : ObjectAt(lang, G, w, T, M) BY <1>1, <1>3, ObjectPlaced
<1>6. t = u
    <2>1. Word(FirstOf(t)) = Word(FirstOf(u)) BY <1>2, <1>3, <1>4, <1>5 DEF ObjectAt
    <2>2. /\ FirstOf(t) \in {"expires_at", "completed_at", "failed_node_id"}
          /\ FirstOf(u) \in {"expires_at", "completed_at", "failed_node_id"}
        BY DEF FirstOf
    <2>3. FirstOf(t) = FirstOf(u) BY <2>1, <2>2, WordUnique
    <2> QED BY <2>3 DEF FirstOf, Types
<1>7. F = G BY <1>6 DEF F, G
<1>8. \A k \in 1..Len(F) : ValueSame(lang, F[k], m[F[k]], w[F[k]])
    BY <1>2, <1>3, <1>4, <1>5, <1>7, ObjectUnique
<1>9. ASSUME NEW f \in ToSet(Fields(t)), f # "signature" PROVE ValueSame(lang, f, m[f], w[f])
    <2>1. PICK k \in 1..Len(F) : F[k] = f BY <1>9, SignedFieldsFacts DEF Without, F
    <2> QED BY <1>8, <2>1
<1> QED BY <1>6, <1>9 DEF CanonicalSame
--------------------------------------------------------------------------------
\* What Utf8 makes of one character.
Utf8Piece(c) == IF c > MaxCodePoint THEN <<c>> ELSE append_utf8(c)

PieceFacts(c, x) ==
    /\ x \in Seq(Nat) /\ Len(x) >= 1
    /\ Single(c) => x = <<c>>
    /\ ~Single(c) => ~Single(x[1])

LEMMA PieceOf == ASSUME NEW c \in Nat PROVE PieceFacts(c, Utf8Piece(c))
<1> USE DEF Single, MaxCodePoint
<1>1. CASE c > MaxCodePoint \/ c <= 127
    <2>1. Utf8Piece(c) = <<c>> BY <1>1, SMT DEF Utf8Piece, append_utf8
    <2>2. <<c>> \in Seq(Nat) /\ Len(<<c>>) >= 1 /\ <<c>>[1] = c BY SMT
    <2> QED BY <2>1, <2>2, SMT DEF PieceFacts
<1>2. CASE c > 127 /\ c <= MaxCodePoint
    <2>1. ~Single(c) BY <1>2, SMT
    <2>2. \A a \in Nat : 0 <= a % 64 /\ a % 64 <= 63 /\ a % 64 \in Nat BY SMT
    <2>3. c \div 64 \in Nat /\ c \div 4096 \in Nat /\ c \div 262144 \in Nat BY SMT
    <2>4. 128 + (c % 64) \in Nat /\ 128 + ((c \div 64) % 64) \in Nat /\ 128 + ((c \div 4096) % 64) \in Nat
        BY <2>2, <2>3, SMT
    <2>5. CASE c <= 2047
        <3>1. Utf8Piece(c) = <<192 + c \div 64, 128 + (c % 64)>> BY <1>2, <2>5, SMT DEF Utf8Piece, append_utf8
        <3>2. PICK a \in Nat, b \in Nat : a = 192 + c \div 64 /\ b = 128 + (c % 64) BY <2>3, <2>4, SMT
        <3>3. a >= 127 /\ a <= 1114111 BY <2>5, <3>2, SMT
        <3>4. <<a, b>> \in Seq(Nat) /\ Len(<<a, b>>) >= 1 /\ <<a, b>>[1] = a BY SMT
        <3>5. Utf8Piece(c) = <<a, b>> BY <3>1, <3>2, SMT
        <3> QED BY <2>1, <3>3, <3>4, <3>5, SMT DEF PieceFacts
    <2>6. CASE c > 2047 /\ c <= 65535
        <3>1. Utf8Piece(c) = <<224 + c \div 4096, 128 + ((c \div 64) % 64), 128 + (c % 64)>>
            BY <1>2, <2>6, SMT DEF Utf8Piece, append_utf8
        <3>2. PICK a \in Nat, b \in Nat, d \in Nat :
                  a = 224 + c \div 4096 /\ b = 128 + ((c \div 64) % 64) /\ d = 128 + (c % 64)
            BY <2>3, <2>4, SMT
        <3>3. a >= 127 /\ a <= 1114111 BY <2>6, <3>2, SMT
        <3>4. <<a, b, d>> \in Seq(Nat) /\ Len(<<a, b, d>>) >= 1 /\ <<a, b, d>>[1] = a BY SMT
        <3>5. Utf8Piece(c) = <<a, b, d>> BY <3>1, <3>2, SMT
        <3> QED BY <2>1, <3>3, <3>4, <3>5, SMT DEF PieceFacts
    <2>7. CASE c > 65535
        <3>1. Utf8Piece(c) = <<240 + c \div 262144, 128 + ((c \div 4096) % 64), 128 + ((c \div 64) % 64), 128 + (c % 64)>>
            BY <1>2, <2>7, SMT DEF Utf8Piece, append_utf8
        <3>2. PICK a \in Nat, b \in Nat, d \in Nat, e \in Nat :
                  /\ a = 240 + c \div 262144 /\ b = 128 + ((c \div 4096) % 64) /\ d = 128 + ((c \div 64) % 64)
                  /\ e = 128 + (c % 64)
            BY <2>3, <2>4, SMT
        <3>3. a >= 127 /\ a <= 1114111 BY <1>2, <2>7, <3>2, SMT
        <3>4. <<a, b, d, e>> \in Seq(Nat) /\ Len(<<a, b, d, e>>) >= 1 /\ <<a, b, d, e>>[1] = a BY SMT
        <3>5. Utf8Piece(c) = <<a, b, d, e>> BY <3>1, <3>2, SMT
        <3> QED BY <2>1, <3>3, <3>4, <3>5, SMT DEF PieceFacts
    <2> QED BY <2>5, <2>6, <2>7, SMT
<1> QED BY <1>1, <1>2, SMT

LEMMA Utf8Pieces ==
    ASSUME NEW s \in Seq(Nat)
    PROVE  \E z, L : /\ Pieces(z, Utf8(s), L) /\ Len(z) = Len(s)
                     /\ \A i \in 1..Len(s) : z[i] \in Seq(Nat) /\ z[i] = Utf8Piece(s[i]) /\ PieceFacts(s[i], z[i])
<1> DEFINE z == [i \in DOMAIN s |-> Utf8Piece(s[i])]
<1>1. Utf8(s) = FlattenSeq(z) BY DEF Utf8, Utf8Piece
<1>2. DOMAIN s = 1..Len(s) /\ Len(s) \in Nat /\ \A i \in 1..Len(s) : s[i] \in Nat OBVIOUS
<1>3. \A i \in 1..Len(s) : z[i] = Utf8Piece(s[i]) /\ PieceFacts(s[i], z[i]) BY <1>2, PieceOf
<1>4. \A i \in 1..Len(s) : Utf8Piece(s[i]) \in Seq(Nat) BY <1>2, <1>3 DEF PieceFacts
<1>5. z \in Seq(Seq(Nat)) /\ Len(z) = Len(s) BY <1>2, <1>4
<1> HIDE DEF z
<1>6. PICK L : Pieces(z, FlattenSeq(z), L) BY <1>5, FlattenFacts
<1> QED BY <1>1, <1>3, <1>4, <1>5, <1>6

LEMMA Utf8Type == ASSUME NEW s \in Seq(Nat) PROVE Utf8(s) \in Seq(Nat)
BY Utf8Pieces DEF Pieces

Singles(s) == \A i \in 1..Len(s) : Single(s[i])

LEMMA Utf8Singles == ASSUME NEW s \in Seq(Nat), Singles(Utf8(s)) PROVE Singles(s)
<1>1. PICK z, L : /\ Pieces(z, Utf8(s), L) /\ Len(z) = Len(s)
                  /\ \A i \in 1..Len(s) : z[i] \in Seq(Nat) /\ z[i] = Utf8Piece(s[i]) /\ PieceFacts(s[i], z[i])
    BY Utf8Pieces
<1>2. ASSUME NEW i \in 1..Len(s) PROVE Single(s[i])
    <2>1. z[i] \in Seq(Nat) /\ Len(z[i]) >= 1 /\ (~Single(s[i]) => ~Single(z[i][1])) BY <1>1 DEF PieceFacts
    <2>2. Utf8(s) \in Seq(Nat) /\ L \in [0..Len(s) -> Nat] /\ Lies(z[i], Utf8(s), L[i - 1]) BY <1>1 DEF Pieces
    <2>3. i - 1 \in 0..Len(s) OBVIOUS
    <2>4. PICK o \in Nat : o = L[i - 1] BY <2>2, <2>3
    <2>5. Utf8(s)[o + 1] = z[i][1] BY <2>1, <2>2, <2>4, LiesFirst
    <2>6. o + Len(z[i]) <= Len(Utf8(s)) /\ Len(z[i]) \in Nat /\ Len(Utf8(s)) \in Nat
        <3>1. Lies(z[i], Utf8(s), o) BY <2>2, <2>4
        <3>2. o + Len(z[i]) <= Len(Utf8(s)) BY <3>1 DEF Lies
        <3> QED BY <2>1, <2>2, <3>2
    <2>7. o + 1 \in 1..Len(Utf8(s)) BY <2>1, <2>6
    <2> QED BY <2>1, <2>5, <2>7 DEF Singles
<1> QED BY <1>2 DEF Singles

LEMMA Utf8Same == ASSUME NEW s \in Seq(Nat), Singles(s) PROVE Utf8(s) = s
<1>1. PICK z, L : /\ Pieces(z, Utf8(s), L) /\ Len(z) = Len(s)
                  /\ \A i \in 1..Len(s) : z[i] \in Seq(Nat) /\ z[i] = Utf8Piece(s[i]) /\ PieceFacts(s[i], z[i])
    BY Utf8Pieces
<1> DEFINE n == Len(s)
           S == {k \in 0..n : L[k] = k}
<1>0. n \in Nat OBVIOUS
<1>2. \A i \in 1..n : z[i] = <<s[i]>> BY <1>1 DEF PieceFacts, Singles
<1>9. \A i \in 1..n : Len(z[i]) = 1 /\ z[i][1] = s[i]
    <2>1. \A a : Len(<<a>>) = 1 /\ <<a>>[1] = a OBVIOUS
    <2> QED BY <1>2, <2>1
<1>3. /\ Utf8(s) \in Seq(Nat) /\ L \in [0..n -> Nat] /\ L[0] = 0 /\ Len(Utf8(s)) = L[n]
      /\ \A k \in 1..n : L[k] = L[k - 1] + Len(z[k]) /\ Lies(z[k], Utf8(s), L[k - 1])
    BY <1>1 DEF Pieces
<1>4. 0 \in S BY <1>0, <1>3
<1>5. ASSUME NEW k \in 1..n, k - 1 \in S PROVE k \in S
    <2>1. L[k - 1] = k - 1 BY <1>5
    <2>2. Len(z[k]) = 1 BY <1>9
    <2>3. L[k] = L[k - 1] + Len(z[k]) BY <1>3
    <2>4. L[k] = k BY <2>1, <2>2, <2>3
    <2> QED BY <2>4
<1>6. \A k \in 0..n : L[k] = k
    <2> HIDE DEF S, n
    <2>1. \A k \in 0..n : k \in S BY <1>0, <1>4, <1>5, Induction, Zenon
    <2> QED BY <2>1 DEF S
<1>7. Len(Utf8(s)) = n
    <2>1. n \in 0..n BY <1>0
    <2> QED BY <1>3, <1>6, <2>1
<1>8. ASSUME NEW k \in 1..n PROVE Utf8(s)[k] = s[k]
    <2>1. k - 1 \in 0..n /\ k - 1 \in Nat /\ (k - 1) + 1 = k BY <1>0
    <2>2. Lies(z[k], Utf8(s), k - 1) BY <1>3, <1>6, <2>1
    <2>3. z[k] \in Seq(Nat) /\ Len(z[k]) = 1 /\ z[k][1] = s[k] BY <1>1, <1>9
    <2>4. Len(z[k]) >= 1 BY <2>3
    <2>5. Utf8(s)[(k - 1) + 1] = z[k][1] BY <2>1, <2>2, <2>3, <2>4, LiesFirst
    <2> QED BY <2>1, <2>3, <2>5
<1> QED BY <1>3, <1>7, <1>8, SeqEqual

--------------------------------------------------------------------------------
(* What is sent is text                                                   *)

LEMMA CharacterType == ASSUME NEW bits \in 0..63 PROVE Character(bits) \in Nat
BY DEF Character, LowerA, Zero, Plus, Slash

LEMMA GroupType == ASSUME NEW bytes \in Seq(0..255), NEW q \in Nat PROVE Group(bytes, q) \in Nat
<1> DEFINE Byte(i) == IF i <= Len(bytes) THEN bytes[i] ELSE 0
<1>1. ASSUME NEW i \in Nat, i >= 1 PROVE Byte(i) \in Nat
    <2>0. Len(bytes) \in Nat OBVIOUS
    <2>1. CASE i <= Len(bytes)
        <3>1. i \in 1..Len(bytes) BY <1>1, <2>0, <2>1
        <3>2. bytes[i] \in 0..255 BY <3>1, ElementOfSeq, Zenon
        <3>3. bytes[i] \in Nat
            <4>1. \A b \in 0..255 : b \in Nat OBVIOUS
            <4> QED BY <3>2, <4>1, Zenon
        <3>4. Byte(i) = bytes[i] BY <2>1
        <3> QED BY <3>3, <3>4
    <2>2. CASE ~(i <= Len(bytes)) BY <2>2
    <2> QED BY <2>1, <2>2
<1>2. Group(bytes, q) = 65536 * Byte(3 * q + 1) + 256 * Byte(3 * q + 2) + Byte(3 * q + 3) BY SMT DEF Group
<1> HIDE DEF Byte
<1>3. 3 * q + 1 \in Nat /\ 3 * q + 2 \in Nat /\ 3 * q + 3 \in Nat /\ 3 * q + 1 >= 1 /\ 3 * q + 2 >= 1 /\ 3 * q + 3 >= 1 OBVIOUS
<1>4. Byte(3 * q + 1) \in Nat /\ Byte(3 * q + 2) \in Nat /\ Byte(3 * q + 3) \in Nat BY <1>1, <1>3
<1>5. \A a, b, c \in Nat : 65536 * a + 256 * b + c \in Nat BY SMT
<1> QED BY <1>2, <1>4, <1>5, SMT

LEMMA EncodeType == ASSUME NEW bytes \in Seq(0..255) PROVE base64url_encode(bytes) \in Seq(Nat)
<1> DEFINE N == 4 * ((Len(bytes) + 2) \div 3)
           e(i) == LET q == (i - 1) \div 4
                       k == (i - 1) % 4
                   IN  IF k > 0 /\ 3 * q + k > Len(bytes)
                       THEN Pad
                       ELSE Character((Group(bytes, q) \div <<262144, 4096, 64, 1>>[k + 1]) % 64)
<1>1. N \in Nat OBVIOUS
<1>2. ASSUME NEW i \in 1..N PROVE e(i) \in Nat
    <2>1. (i - 1) \div 4 \in Nat /\ (i - 1) % 4 \in 0..3 OBVIOUS
    <2>2. PICK q \in Nat : q = (i - 1) \div 4 BY <2>1
    <2>3. PICK k \in 0..3 : k = (i - 1) % 4 BY <2>1
    <2>4. PICK d \in Nat : d = <<262144, 4096, 64, 1>>[k + 1] /\ d > 0 BY SMT
    <2>5. PICK g \in Nat : g = Group(bytes, q) BY GroupType
    <2>6. (g \div d) % 64 \in 0..63
        <3>1. d = 262144 \/ d = 4096 \/ d = 64 \/ d = 1 BY <2>4, SMT
        <3>2. g \div 262144 \in Nat /\ g \div 4096 \in Nat /\ g \div 64 \in Nat /\ g \div 1 \in Nat BY SMT
        <3>3. PICK x \in Nat : x = g \div d BY <3>1, <3>2, SMT
        <3>4. x % 64 \in 0..63 BY SMT
        <3> QED BY <3>3, <3>4, SMT
    <2>7. Character((g \div d) % 64) \in Nat BY <2>6, CharacterType
    <2>8. Pad \in Nat BY DEF Pad
    <2>9. e(i) = IF k > 0 /\ 3 * q + k > Len(bytes) THEN Pad ELSE Character((g \div d) % 64) BY <2>2, <2>3, <2>4, <2>5, SMT
    <2> QED BY <2>7, <2>8, <2>9, SMT
<1>3. EVP_EncodeBlock(bytes) = [i \in 1..N |-> e(i)] BY SMT DEF EVP_EncodeBlock
<1> HIDE DEF N, e
<1>4. EVP_EncodeBlock(bytes) \in Seq(Nat) BY <1>1, <1>2, <1>3
<1>5. \A t \in Seq(Nat), a, b \in Nat : Replaced(t, a, b) \in Seq(Nat)
    <2> SUFFICES ASSUME NEW t \in Seq(Nat), NEW a \in Nat, NEW b \in Nat PROVE Replaced(t, a, b) \in Seq(Nat) OBVIOUS
    <2>1. DOMAIN t = 1..Len(t) /\ Len(t) \in Nat OBVIOUS
    <2>2. \A i \in 1..Len(t) : (IF t[i] = a THEN b ELSE t[i]) \in Nat OBVIOUS
    <2> QED BY <2>1, <2>2 DEF Replaced
<1>6. Plus \in Nat /\ Minus \in Nat /\ Slash \in Nat /\ Underscore \in Nat BY DEF Plus, Minus, Slash, Underscore
<1> QED BY <1>4, <1>5, <1>6 DEF base64url_encode

LEMMA HeldType == ASSUME NEW lang, NEW s \in Seq(Nat) PROVE Held(lang, s) \in Seq(Nat)
BY Utf8Type DEF Held

ContentFields == {"payload", "reason", "organization_id"}

MessageField(lang, id, content, time, signature, f) ==
    IF f \in IntFields THEN (IF f = "issued_at" THEN 0 ELSE time)
    ELSE IF f \in ContentFields THEN Held(lang, content)
    ELSE IF f = "request_id" THEN Held(lang, id)
    ELSE IF f = "signature" THEN base64url_encode(signature)
    ELSE FixedField(f)

LEMMA MessageAt ==
    ASSUME NEW lang, NEW type, NEW id, NEW content, NEW time, NEW signature
    PROVE  /\ DOMAIN Message(lang, type, id, content, time, signature) = ToSet(Fields(type))
           /\ Message(lang, type, id, content, time, signature)
                = [f \in ToSet(Fields(type)) |-> Message(lang, type, id, content, time, signature)[f]]
           /\ \A f \in ToSet(Fields(type)) :
                 Message(lang, type, id, content, time, signature)[f]
                     = MessageField(lang, id, content, time, signature, f)
BY DEF Message, MessageField, ContentFields

LEMMA FixedType == ASSUME NEW f PROVE FixedField(f) \in Seq(Nat)
<1>1. Word("Ed25519") \in Nat /\ Word("ECHO") \in Nat /\ Word("OK") \in Nat BY WordType
<1>2. LowerA \in Nat BY DEF LowerA
<1>3. \A a \in Nat : <<a>> \in Seq(Nat) OBVIOUS
<1> QED BY <1>1, <1>2, <1>3 DEF FixedField

LEMMA MessageType ==
    ASSUME NEW lang, NEW type, NEW id \in Seq(Nat), NEW content \in Seq(Nat), NEW time \in Int,
           NEW signature \in Seq(0..255)
    PROVE  MessageOk(type, Message(lang, type, id, content, time, signature))
<1>1. ASSUME NEW f PROVE ValueOk(f, MessageField(lang, id, content, time, signature, f))
    <2>1. Held(lang, content) \in Seq(Nat) /\ Held(lang, id) \in Seq(Nat) BY HeldType
    <2>2. base64url_encode(signature) \in Seq(Nat) BY EncodeType
    <2>3. FixedField(f) \in Seq(Nat) BY FixedType
    <2> QED BY <2>1, <2>2, <2>3 DEF ValueOk, MessageField
<1> QED BY <1>1, MessageAt DEF MessageOk

\* In one language a string is what it is in the other if it is all ASCII (or
\* fixed words) there or here.
LEMMA HeldSame ==
    ASSUME NEW lang, NEW s \in Seq(Nat), Singles(Held(lang, s)) PROVE \A other : Held(other, s) = Held(lang, s)
<1>1. Singles(s) BY Utf8Singles DEF Held
<1>2. Utf8(s) = s BY <1>1, Utf8Same
<1> QED BY <1>2 DEF Held

LEMMA MessageSame ==
    ASSUME NEW lang, NEW other, NEW id \in Seq(Nat), NEW content \in Seq(Nat), NEW time, NEW signature, NEW f,
           NEW v, v = MessageField(lang, id, content, time, signature, f),
           lang # other /\ f \notin IntFields => Singles(v)
    PROVE  v = MessageField(other, id, content, time, signature, f)
<1>1. CASE lang = other BY <1>1
<1>2. CASE lang # other /\ f \notin IntFields
    <2>1. CASE f \in ContentFields
        <3>1. v = Held(lang, content) BY <1>2, <2>1 DEF MessageField
        <3>2. Held(other, content) = Held(lang, content) BY <1>2, <3>1, HeldSame
        <3> QED BY <1>2, <2>1, <3>1, <3>2 DEF MessageField
    <2>2. CASE f = "request_id"
        <3>0. f \notin ContentFields BY <2>2 DEF ContentFields
        <3>1. v = Held(lang, id) BY <1>2, <2>2, <3>0 DEF MessageField
        <3>2. Held(other, id) = Held(lang, id) BY <1>2, <3>1, HeldSame
        <3> QED BY <1>2, <2>2, <3>0, <3>1, <3>2 DEF MessageField
    <2>3. CASE f \notin ContentFields /\ f # "request_id" BY <1>2, <2>3 DEF MessageField
    <2> QED BY <2>1, <2>2, <2>3
<1>3. CASE f \in IntFields BY <1>3 DEF MessageField
<1> QED BY <1>1, <1>2, <1>3

LEMMA AllFieldsOk ==
    ASSUME NEW type \in Types, NEW m, MessageOk(type, m)
    PROVE  Fields(type) \in Seq(Names) /\ Len(Fields(type)) >= 1 /\ FieldsOk(Fields(type), m)
<1>1. Fields(type) \in Seq(Names) /\ Len(Fields(type)) >= 2 BY FieldsOf
<1>2. \A k \in 1..Len(Fields(type)) : Fields(type)[k] \in ToSet(Fields(type)) BY <1>1 DEF ToSet
<1>3. Len(Fields(type)) >= 1 BY <1>1
<1> QED BY <1>1, <1>2, <1>3 DEF FieldsOk, MessageOk

LEMMA EnvelopeType ==
    ASSUME NEW lang, NEW type \in Types, NEW m, MessageOk(type, m) PROVE Envelope(lang, type, m) \in Seq(Nat)
<1> DEFINE o == FlatObject(lang, Fields(type), m)
           e == <<Word(type), Quote, RBrace>>
<1>1. PICK L : ObjectAt(lang, Fields(type), m, o, L) BY AllFieldsOk, ObjectPlaced
<1>2. o \in Seq(Nat) BY <1>1 DEF ObjectAt
<1>3. Word("payload") \in Nat /\ Word("type") \in Nat /\ Word(type) \in Nat BY WordType
<1>4. /\ Quote \in Nat /\ RBrace \in Nat /\ LBrace \in Nat /\ Colon \in Nat /\ Comma \in Nat
    BY DEF Quote, RBrace, LBrace, Colon, Comma
<1>5. EnvelopePrefix \in Seq(Nat) BY <1>3, <1>4 DEF EnvelopePrefix
<1>6. TypePrefix \in Seq(Nat) BY <1>3, <1>4 DEF TypePrefix
<1>7. e \in Seq(Nat) BY <1>3, <1>4
<1>8. Envelope(lang, type, m) = EnvelopePrefix \o o \o TypePrefix \o e BY DEF Envelope
<1> HIDE DEF o, e
<1>9. EnvelopePrefix \o o \in Seq(Nat) BY <1>2, <1>5, LiesParts
<1>10. EnvelopePrefix \o o \o TypePrefix \in Seq(Nat) BY <1>6, <1>9, LiesParts
<1> QED BY <1>7, <1>8, <1>10, LiesParts

--------------------------------------------------------------------------------
(* Reading an escape                                                      *)

\* Reading at p throws, or gives a value of V and a later position.
Reads(r, t, p, V) == r = Throws \/ \E v \in V, q \in p + 1..Len(t) + 1 : r = Got(v, q)

LEMMA GotFacts ==
    /\ ~Throws.ok
    /\ \A v, q : Got(v, q).ok /\ Got(v, q).value = v /\ Got(v, q).pos = q
BY DEF Got, Throws

LEMMA HexDigitType == ASSUME NEW ch, IsHexDigit(ch) PROVE hex_digit(ch) \in 0..15
BY DEF IsHexDigit, hex_digit, Zero, Nine, LowerA, LowerF

LEMMA UnitReads == ASSUME NEW t \in Seq(Nat), NEW p \in Nat PROVE Reads(unicode_unit(t, p), t, p, Nat)
<1>0. Len(t) \in Nat OBVIOUS
<1>1. CASE p + 3 > Len(t) \/ \E i \in p..p + 3 : ~IsHexDigit(t[i])
    BY <1>1 DEF unicode_unit, Reads
<1>2. CASE ~(p + 3 > Len(t) \/ \E i \in p..p + 3 : ~IsHexDigit(t[i]))
    <2>1. \A i \in p..p + 3 : IsHexDigit(t[i]) BY <1>2
    <2>2. p \in p..p + 3 /\ p + 1 \in p..p + 3 /\ p + 2 \in p..p + 3 /\ p + 3 \in p..p + 3 OBVIOUS
    <2>3. PICK a \in 0..15 : a = hex_digit(t[p]) BY <2>1, <2>2, HexDigitType
    <2>4. PICK b \in 0..15 : b = hex_digit(t[p + 1]) BY <2>1, <2>2, HexDigitType
    <2>5. PICK c \in 0..15 : c = hex_digit(t[p + 2]) BY <2>1, <2>2, HexDigitType
    <2>6. PICK d \in 0..15 : d = hex_digit(t[p + 3]) BY <2>1, <2>2, HexDigitType
    <2>7. unicode_unit(t, p) = Got(4096 * a + 256 * b + 16 * c + d, p + 4)
        BY <1>2, <2>3, <2>4, <2>5, <2>6, SMT DEF unicode_unit
    <2>8. 4096 * a + 256 * b + 16 * c + d \in Nat BY SMT
    <2>9. p + 4 \in p + 1..Len(t) + 1 BY <1>0, <1>2, SMT
    <2> QED BY <2>7, <2>8, <2>9, SMT DEF Reads
<1> QED BY <1>1, <1>2

LEMMA AppendType == ASSUME NEW c \in Nat PROVE append_utf8(c) \in Seq(Nat)
<1>1. \A a \in Nat : 0 <= a % 64 /\ a % 64 \in Nat BY SMT
<1>2. c \div 64 \in Nat /\ c \div 4096 \in Nat /\ c \div 262144 \in Nat BY SMT
<1>3. /\ 128 + (c % 64) \in Nat /\ 128 + ((c \div 64) % 64) \in Nat /\ 128 + ((c \div 4096) % 64) \in Nat
      /\ 192 + c \div 64 \in Nat /\ 224 + c \div 4096 \in Nat /\ 240 + c \div 262144 \in Nat
    BY <1>1, <1>2, SMT
<1>4. \A a, b, d, e \in Nat : <<a>> \in Seq(Nat) /\ <<a, b>> \in Seq(Nat) /\ <<a, b, d>> \in Seq(Nat) /\ <<a, b, d, e>> \in Seq(Nat)
    BY SMT
<1>5. CASE c <= 127 BY <1>4, <1>5, SMT DEF append_utf8
<1>6. CASE c > 127 /\ c <= 2047
    <2>1. append_utf8(c) = <<192 + c \div 64, 128 + (c % 64)>> BY <1>6, SMT DEF append_utf8
    <2> QED BY <1>3, <1>4, <2>1, SMT
<1>7. CASE c > 2047 /\ c <= 65535
    <2>1. append_utf8(c) = <<224 + c \div 4096, 128 + ((c \div 64) % 64), 128 + (c % 64)>> BY <1>7, SMT DEF append_utf8
    <2> QED BY <1>3, <1>4, <2>1, SMT
<1>8. CASE c > 65535
    <2>1. append_utf8(c) = <<240 + c \div 262144, 128 + ((c \div 4096) % 64), 128 + ((c \div 64) % 64), 128 + (c % 64)>>
        BY <1>8, SMT DEF append_utf8
    <2> QED BY <1>3, <1>4, <2>1, SMT
<1> QED BY <1>5, <1>6, <1>7, <1>8, SMT

LEMMA ReadsLater ==
    ASSUME NEW r, NEW t \in Seq(Nat), NEW p \in Nat, NEW q \in Nat, p <= q, NEW V, Reads(r, t, q, V)
    PROVE  Reads(r, t, p, V)
<1>1. \A x \in q + 1..Len(t) + 1 : x \in p + 1..Len(t) + 1 OBVIOUS
<1> QED BY <1>1 DEF Reads

\* The end of a surrogate pair, from what was read of its second unit.
UnicodeTail(first, u) ==
    IF u.ok
    THEN IF u.value \in LowSurrogates
         THEN Got(append_utf8(65536 + (first - 55296) * 1024 + u.value - 56320), u.pos) ELSE Throws
    ELSE Throws

\* A \u escape, from what was read of its first unit.
UnicodeFrom(t, u) ==
    IF u.ok
    THEN IF u.value \in HighSurrogates
         THEN IF At(t, u.pos, Backslash) /\ At(t, u.pos + 1, LowerU)
              THEN UnicodeTail(u.value, unicode_unit(t, u.pos + 2)) ELSE Throws
         ELSE IF u.value \in LowSurrogates THEN Throws ELSE Got(append_utf8(u.value), u.pos)
    ELSE Throws

LEMMA UnicodeIs == ASSUME NEW t, NEW p PROVE ReadUnicode(t, p) = UnicodeFrom(t, unicode_unit(t, p))
BY SMT DEF ReadUnicode, Then, UnicodeFrom, UnicodeTail

LEMMA ReadsSplit ==
    ASSUME NEW r, NEW t \in Seq(Nat), NEW p, NEW V, Reads(r, t, p, V)
    PROVE  r = Throws \/ (r.ok /\ r.value \in V /\ r.pos \in p + 1..Len(t) + 1)
BY GotFacts DEF Reads

LEMMA ReadsThrows == ASSUME NEW t, NEW p, NEW V PROVE Reads(Throws, t, p, V)
BY DEF Reads

LEMMA ReadsGot ==
    ASSUME NEW t, NEW p, NEW V, NEW v \in V, NEW q \in p + 1..Len(t) + 1 PROVE Reads(Got(v, q), t, p, V)
BY DEF Reads

LEMMA TailReads ==
    ASSUME NEW t \in Seq(Nat), NEW q \in Nat, NEW u, Reads(u, t, q, Nat), NEW first \in HighSurrogates
    PROVE  Reads(UnicodeTail(first, u), t, q, Seq(Nat))
<1>1. CASE u = Throws
    <2>1. UnicodeTail(first, u) = Throws BY <1>1, GotFacts, SMT DEF UnicodeTail
    <2> QED BY <2>1, ReadsThrows
<1>2. CASE u.ok /\ u.value \in Nat /\ u.pos \in q + 1..Len(t) + 1
    <2>1. CASE u.value \in LowSurrogates
        <3> DEFINE cp == 65536 + (first - 55296) * 1024 + u.value - 56320
        <3>1. cp \in Nat BY <1>2, <2>1, SMT DEF HighSurrogates, LowSurrogates
        <3>2. UnicodeTail(first, u) = Got(append_utf8(cp), u.pos) BY <1>2, <2>1, SMT DEF UnicodeTail
        <3> HIDE DEF cp
        <3>3. append_utf8(cp) \in Seq(Nat) BY <3>1, AppendType
        <3> QED BY <1>2, <3>2, <3>3, ReadsGot
    <2>2. CASE u.value \notin LowSurrogates
        <3>1. UnicodeTail(first, u) = Throws BY <1>2, <2>2, SMT DEF UnicodeTail
        <3> QED BY <3>1, ReadsThrows
    <2> QED BY <2>1, <2>2
<1> QED BY <1>1, <1>2, ReadsSplit

LEMMA UnicodeReads == ASSUME NEW t \in Seq(Nat), NEW p \in Nat PROVE Reads(ReadUnicode(t, p), t, p, Seq(Nat))
<1> DEFINE u == unicode_unit(t, p)
<1>0. Len(t) \in Nat /\ Reads(u, t, p, Nat) /\ ReadUnicode(t, p) = UnicodeFrom(t, u) BY UnitReads, UnicodeIs
<1> HIDE DEF u
<1>1. CASE u = Throws
    <2>1. UnicodeFrom(t, u) = Throws BY <1>1, GotFacts, SMT DEF UnicodeFrom
    <2> QED BY <1>0, <2>1, ReadsThrows
<1>2. CASE u.ok /\ u.value \in Nat /\ u.pos \in p + 1..Len(t) + 1
    <2> DEFINE w == UnicodeTail(u.value, unicode_unit(t, u.pos + 2))
    <2>1. UnicodeFrom(t, u) =
              IF u.value \in HighSurrogates
              THEN IF At(t, u.pos, Backslash) /\ At(t, u.pos + 1, LowerU) THEN w ELSE Throws
              ELSE IF u.value \in LowSurrogates THEN Throws ELSE Got(append_utf8(u.value), u.pos)
        BY <1>2, SMT DEF UnicodeFrom
    <2>2. ASSUME u.value \in HighSurrogates PROVE Reads(w, t, p, Seq(Nat))
        <3>1. u.pos + 2 \in Nat /\ p <= u.pos + 2 BY <1>0, <1>2
        <3>2. Reads(unicode_unit(t, u.pos + 2), t, u.pos + 2, Nat) BY <3>1, UnitReads
        <3>3. Reads(w, t, u.pos + 2, Seq(Nat)) BY <2>2, <3>1, <3>2, TailReads
        <3> HIDE DEF w
        <3> QED BY <3>1, <3>3, ReadsLater
    <2> HIDE DEF w
    <2>3. Reads(Got(append_utf8(u.value), u.pos), t, p, Seq(Nat)) BY <1>2, AppendType, ReadsGot
    <2>4. Reads(UnicodeFrom(t, u), t, p, Seq(Nat)) BY <2>1, <2>2, <2>3, ReadsThrows
    <2> QED BY <1>0, <2>4
<1> QED BY <1>0, <1>1, <1>2, ReadsSplit

LEMMA EscapeReads ==
    ASSUME NEW t \in Seq(Nat), NEW p \in Nat, p >= 1 PROVE Reads(ReadEscape(t, p), t, p, Seq(Nat))
<1>0. Len(t) \in Nat OBVIOUS
<1>1. CASE p > Len(t) BY <1>1 DEF ReadEscape, Reads
<1>2. CASE p <= Len(t)
    <2>1. p \in 1..Len(t) BY <1>0, <1>2
    <2>2. t[p] \in Nat /\ p + 1 \in p + 1..Len(t) + 1 BY <1>0, <2>1
    <2>3. \A a \in Nat : <<a>> \in Seq(Nat) OBVIOUS
    <2>4. CASE t[p] \in {Quote, Backslash, Slash}
        <3>1. ReadEscape(t, p) = Got(<<t[p]>>, p + 1) BY <1>0, <1>2, <2>4 DEF ReadEscape
        <3> QED BY <2>2, <2>3, <3>1 DEF Reads
    <2>5. CASE t[p] \notin {Quote, Backslash, Slash} /\ t[p] \in Range(ShortEscape)
        <3> DEFINE c == CHOOSE c \in DOMAIN ShortEscape : ShortEscape[c] = t[p]
        <3>1. \E d \in DOMAIN ShortEscape : ShortEscape[d] = t[p] BY <2>5 DEF Range
        <3>2. c \in DOMAIN ShortEscape BY <3>1, Zenon
        <3>6. ~(p > Len(t)) BY <1>0, <1>2
        <3>3. ReadEscape(t, p) = Got(<<c>>, p + 1) BY <2>5, <3>6, Zenon DEF ReadEscape
        <3> HIDE DEF c
        <3>4. DOMAIN ShortEscape = {8, 9, 10, 12, 13} BY Zenon DEF ShortEscape
        <3>5. c \in Nat BY <3>2, <3>4
        <3> QED BY <2>2, <2>3, <3>3, <3>5 DEF Reads
    <2>6. CASE t[p] \notin {Quote, Backslash, Slash} /\ t[p] \notin Range(ShortEscape)
        <3>1. ReadEscape(t, p) = IF t[p] = LowerU THEN ReadUnicode(t, p + 1) ELSE Throws
            BY <1>0, <1>2, <2>6 DEF ReadEscape
        <3>2. Reads(ReadUnicode(t, p + 1), t, p, Seq(Nat))
            <4>1. Reads(ReadUnicode(t, p + 1), t, p + 1, Seq(Nat)) BY UnicodeReads
            <4> QED BY <4>1, ReadsLater
        <3>3. Reads(Throws, t, p, Seq(Nat)) BY DEF Reads
        <3> QED BY <3>1, <3>2, <3>3
    <2> QED BY <2>4, <2>5, <2>6
<1> QED BY <1>0, <1>1, <1>2

--------------------------------------------------------------------------------
(* Reading a string                                                       *)

\* What reading a string may give, at any place of t.
StringReads(t) == {Throws} \cup [ok : {TRUE}, value : Seq(Nat), pos : 1..Len(t) + 1]

LEMMA StringReadsIs ==
    ASSUME NEW t \in Seq(Nat), NEW r \in StringReads(t) PROVE Reads(r, t, 0, Seq(Nat))
<1>1. CASE r = Throws BY <1>1, ReadsThrows
<1>2. CASE r # Throws
    <2>1. r \in [ok : {TRUE}, value : Seq(Nat), pos : 1..Len(t) + 1] BY <1>2 DEF StringReads
    <2>2. r = Got(r.value, r.pos) BY <2>1 DEF Got
    <2>3. r.value \in Seq(Nat) /\ r.pos \in 0 + 1..Len(t) + 1 BY <2>1
    <2> QED BY <2>2, <2>3, ReadsGot
<1> QED BY <1>1, <1>2

LEMMA StringGot ==
    ASSUME NEW t, NEW v \in Seq(Nat), NEW q \in 1..Len(t) + 1 PROVE Got(v, q) \in StringReads(t)
BY DEF StringReads, Got

\* The next character of a string, or the escape that stands for it.
Piece(t, p) == IF t[p] = Backslash THEN ReadEscape(t, p + 1) ELSE Got(<<t[p]>>, p + 1)

LEMMA PieceReads ==
    ASSUME NEW t \in Seq(Nat), NEW p \in 1..Len(t) PROVE Reads(Piece(t, p), t, p, Seq(Nat))
<1>0. Len(t) \in Nat /\ p \in Nat /\ t[p] \in Nat /\ p + 1 \in p + 1..Len(t) + 1 OBVIOUS
<1>1. CASE t[p] = Backslash
    <2>1. p + 1 \in Nat /\ p + 1 >= 1 /\ p <= p + 1 BY <1>0
    <2>2. Reads(ReadEscape(t, p + 1), t, p + 1, Seq(Nat)) BY <2>1, EscapeReads
    <2>3. Reads(ReadEscape(t, p + 1), t, p, Seq(Nat)) BY <1>0, <2>1, <2>2, ReadsLater
    <2> QED BY <1>1, <2>3 DEF Piece
<1>2. CASE t[p] # Backslash
    <2>1. <<t[p]>> \in Seq(Nat) BY <1>0
    <2>2. Reads(Got(<<t[p]>>, p + 1), t, p, Seq(Nat)) BY <1>0, <2>1, ReadsGot
    <2> QED BY <1>2, <2>2 DEF Piece
<1> QED BY <1>1, <1>2

\* Where a string ends, or cannot go on.
RestEnds(t, p) == p > Len(t) \/ (p <= Len(t) /\ t[p] < 32) \/ t[p] = Quote \/ ~Piece(t, p).ok

RestBase(t, p) ==
    IF p > Len(t) \/ (p <= Len(t) /\ t[p] < 32) THEN Throws
    ELSE IF t[p] = Quote THEN Got(<<>>, p + 1) ELSE Throws

RestStep(x, r) == IF r.ok THEN Got(x \o r.value, r.pos) ELSE Throws

RestAt(f, t, p) ==
    f[p] = IF RestEnds(t, p) THEN RestBase(t, p) ELSE RestStep(Piece(t, p).value, f[Piece(t, p).pos])

LEMMA RestBaseType ==
    ASSUME NEW t \in Seq(Nat), NEW p \in 1..Len(t) + 1 PROVE RestBase(t, p) \in StringReads(t)
<1>1. Throws \in StringReads(t) BY DEF StringReads
<1>2. CASE p > Len(t) BY <1>1, <1>2 DEF RestBase
<1>3. CASE p <= Len(t)
    <2>1. p + 1 \in 1..Len(t) + 1 /\ <<>> \in Seq(Nat) BY <1>3
    <2>2. Got(<<>>, p + 1) \in StringReads(t) BY <2>1, StringGot
    <2> QED BY <1>1, <2>2 DEF RestBase
<1>4. Len(t) \in Nat OBVIOUS
<1> QED BY <1>2, <1>3, <1>4

LEMMA RestStepType ==
    ASSUME NEW t \in Seq(Nat), NEW x \in Seq(Nat), NEW r \in StringReads(t) PROVE RestStep(x, r) \in StringReads(t)
<1>1. Throws \in StringReads(t) BY DEF StringReads
<1>2. CASE r = Throws BY <1>1, <1>2, GotFacts DEF RestStep
<1>3. CASE r # Throws
    <2>1. PICK v \in Seq(Nat), q \in 1..Len(t) + 1 : r = Got(v, q) BY <1>3 DEF StringReads, Got
    <2>2. RestStep(x, r) = Got(x \o v, q) BY <2>1, GotFacts DEF RestStep
    <2>3. x \o v \in Seq(Nat) OBVIOUS
    <2> QED BY <2>2, <2>3, StringGot
<1> QED BY <1>2, <1>3

LEMMA PieceNext ==
    ASSUME NEW t \in Seq(Nat), NEW p \in 1..Len(t) + 1, ~RestEnds(t, p)
    PROVE  Piece(t, p).value \in Seq(Nat) /\ Piece(t, p).pos \in p + 1..Len(t) + 1
<1>1. p \in 1..Len(t) /\ Piece(t, p).ok BY DEF RestEnds
<1>2. Reads(Piece(t, p), t, p, Seq(Nat)) BY <1>1, PieceReads
<1> QED BY <1>1, <1>2, ReadsSplit, GotFacts

LEMMA RestExists ==
    ASSUME NEW t \in Seq(Nat)
    PROVE  \E f \in [1..Len(t) + 1 -> StringReads(t)] : \A p \in 1..Len(t) + 1 : RestAt(f, t, p)
<1> DEFINE n == Len(t) + 1
           D == 1..n
           V == StringReads(t)
           rank == [p \in D |-> n - p]
           B == {p \in D : RestEnds(t, p)}
           prev == [p \in D |-> IF RestEnds(t, p) THEN p ELSE Piece(t, p).pos]
           base == [p \in D |-> RestBase(t, p)]
           step == [z \in V \X D |-> IF RestEnds(t, z[2]) THEN z[1] ELSE RestStep(Piece(t, z[2]).value, z[1])]
<1>0. n \in Nat OBVIOUS
<1>1. \A p \in D : ~RestEnds(t, p) => Piece(t, p).value \in Seq(Nat) /\ Piece(t, p).pos \in p + 1..n BY PieceNext
<1>2. Descends(D, n, rank, B, prev, V, base, step)
    <2>1. rank \in [D -> 0..n] BY <1>0
    <2>2. prev \in [D -> D]
        <3>1. \A p \in D : (IF RestEnds(t, p) THEN p ELSE Piece(t, p).pos) \in D BY <1>0, <1>1
        <3> QED BY <3>1
    <2>3. ASSUME NEW p \in D, p \notin B PROVE rank[prev[p]] < rank[p]
        <3>1. ~RestEnds(t, p) /\ prev[p] = Piece(t, p).pos BY <2>3
        <3>2. PICK q \in p + 1..n : q = Piece(t, p).pos BY <1>1, <3>1
        <3>3. q \in D /\ rank[q] = n - q /\ rank[p] = n - p BY <1>0
        <3> QED BY <1>0, <3>1, <3>2, <3>3
    <2>4. base \in [D -> V] BY RestBaseType
    <2>5. step \in [V \X D -> V]
        <3>1. ASSUME NEW z \in V \X D
              PROVE (IF RestEnds(t, z[2]) THEN z[1] ELSE RestStep(Piece(t, z[2]).value, z[1])) \in V
            <4>1. z[1] \in V /\ z[2] \in D OBVIOUS
            <4> HIDE DEF D
            <4> QED BY <1>1, <4>1, RestStepType
        <3> QED BY <3>1
    <2> QED BY <1>0, <2>1, <2>2, <2>3, <2>4, <2>5 DEF Descends
<1>3. PICK f \in [D -> V] : \A p \in D : At1(f, p, B, prev, base, step)
    <2> HIDE DEF n, D, V, rank, B, prev, base, step
    <2>1. Solvable(D, B, prev, V, base, step) BY <1>2, Recursion, Zenon
    <2> QED BY <2>1 DEF Solvable
<1>4. ASSUME NEW p \in D PROVE RestAt(f, t, p)
    <2>1. f[p] = IF p \in B THEN base[p] ELSE step[<<f[prev[p]], p>>] BY <1>3 DEF At1
    <2>2. CASE RestEnds(t, p) BY <2>1, <2>2 DEF RestAt
    <2>3. CASE ~RestEnds(t, p)
        <3>1. prev[p] = Piece(t, p).pos /\ p \notin B BY <2>3
        <3>2. PICK q \in D : q = Piece(t, p).pos BY <1>0, <1>1, <2>3
        <3>3. f[q] \in V OBVIOUS
        <3>4. step[<<f[q], p>>] = RestStep(Piece(t, p).value, f[q]) BY <2>3, <3>3
        <3>5. f[p] = RestStep(Piece(t, p).value, f[q]) BY <2>1, <3>1, <3>2, <3>4
        <3> QED BY <2>3, <3>2, <3>5 DEF RestAt
    <2> QED BY <2>2, <2>3
<1> QED BY <1>3, <1>4

\* ReadString's recursion as one equation.
RestIs(f, t) ==
    f = [p \in 1..Len(t) + 1 |->
            IF p > Len(t) \/ (p <= Len(t) /\ t[p] < 32) THEN Throws
            ELSE IF t[p] = Quote THEN Got(<<>>, p + 1)
            ELSE IF Piece(t, p).ok
                 THEN IF f[Piece(t, p).pos].ok
                      THEN Got(Piece(t, p).value \o f[Piece(t, p).pos].value, f[Piece(t, p).pos].pos)
                      ELSE Throws
                 ELSE Throws]

LEMMA ReadStringIs ==
    ASSUME NEW t, NEW start
    PROVE  ReadString(t, start) = IF At(t, start, Quote) THEN (CHOOSE f : RestIs(f, t))[start + 1] ELSE Throws
BY Zenon DEF ReadString, RestIs, Piece, Then

LEMMA RestSame ==
    ASSUME NEW f, NEW t, NEW p
    PROVE  (IF RestEnds(t, p) THEN RestBase(t, p) ELSE RestStep(Piece(t, p).value, f[Piece(t, p).pos]))
           = IF p > Len(t) \/ (p <= Len(t) /\ t[p] < 32) THEN Throws
             ELSE IF t[p] = Quote THEN Got(<<>>, p + 1)
             ELSE IF Piece(t, p).ok
                  THEN IF f[Piece(t, p).pos].ok
                       THEN Got(Piece(t, p).value \o f[Piece(t, p).pos].value, f[Piece(t, p).pos].pos)
                       ELSE Throws
                  ELSE Throws
BY DEF RestEnds, RestBase, RestStep

LEMMA StringTyped ==
    ASSUME NEW t \in Seq(Nat), NEW start \in Nat, start >= 1 PROVE ReadString(t, start) \in StringReads(t)
<1> DEFINE D == 1..Len(t) + 1
           b == CHOOSE f : RestIs(f, t)
<1>0. Len(t) \in Nat OBVIOUS
<1>1. PICK f \in [D -> StringReads(t)] : \A p \in D : RestAt(f, t, p) BY RestExists
<1>2. RestIs(f, t) BY <1>1, RestSame DEF RestIs, RestAt
<1>3. RestIs(b, t) BY <1>2, Zenon
<1>4. ReadString(t, start) = IF At(t, start, Quote) THEN b[start + 1] ELSE Throws BY ReadStringIs
<1> HIDE DEF b
<1>5. \A p \in D : RestAt(b, t, p) BY <1>3, RestSame DEF RestIs, RestAt
<1>6. \A p \in D : b[p] \in StringReads(t)
    <2> DEFINE rank == [p \in D |-> Len(t) + 1 - p]
               S == {p \in D : b[p] \in StringReads(t)}
    <2>1. rank \in [D -> Nat] BY <1>0
    <2>2. ASSUME NEW p \in D, \A q \in D : rank[q] < rank[p] => q \in S PROVE p \in S
        <3>1. CASE RestEnds(t, p) BY <1>5, <3>1, RestBaseType DEF RestAt
        <3>2. CASE ~RestEnds(t, p)
            <4>1. Piece(t, p).value \in Seq(Nat) /\ Piece(t, p).pos \in p + 1..Len(t) + 1 BY <3>2, PieceNext
            <4>2. PICK q \in p + 1..Len(t) + 1 : q = Piece(t, p).pos BY <4>1
            <4>3. q \in D /\ rank[q] < rank[p] BY <1>0
            <4>4. b[q] \in StringReads(t) BY <2>2, <4>3
            <4>5. b[p] = RestStep(Piece(t, p).value, b[q]) BY <1>5, <3>2, <4>2 DEF RestAt
            <4>6. b[p] \in StringReads(t) BY <4>1, <4>4, <4>5, RestStepType
            <4> QED BY <4>6
        <3> QED BY <3>1, <3>2
    <2> HIDE DEF S, D, rank
    <2>3. \A p \in D : p \in S BY <2>1, <2>2, RankInduction, Zenon
    <2> QED BY <2>3 DEF S
<1>7. CASE At(t, start, Quote)
    <2>1. start + 1 \in D BY <1>0, <1>7 DEF At
    <2> QED BY <1>4, <1>6, <1>7, <2>1
<1>8. CASE ~At(t, start, Quote) BY <1>4, <1>8 DEF StringReads
<1> QED BY <1>7, <1>8

--------------------------------------------------------------------------------
(* Reading an integer                                                     *)

IntegerFirst(t, start) == IF At(t, start, Minus) THEN start + 1 ELSE start

IntegerEnd(t, first) ==
    CHOOSE q \in first..Len(t) + 1 :
        /\ \A i \in first..q - 1 : IsDigit(t[i])
        /\ q = Len(t) + 1 \/ ~IsDigit(t[q])

IntegerIs(f, t, first) ==
    f = [i \in first - 1..Len(t) |-> IF i < first THEN 0 ELSE 10 * f[i - 1] + t[i] - Zero]

Magnitude(t, first) == (CHOOSE f : IntegerIs(f, t, first))[IntegerEnd(t, first) - 1]

LEMMA ReadIntegerIs ==
    ASSUME NEW t, NEW start
    PROVE  ReadInteger(t, start)
           = IF IntegerFirst(t, start) > Len(t)
                 \/ IntegerEnd(t, IntegerFirst(t, start)) = IntegerFirst(t, start)
             THEN Throws
             ELSE Got(IF Magnitude(t, IntegerFirst(t, start)) > IntMax THEN Overflowed
                      ELSE IF IntegerFirst(t, start) = start THEN Magnitude(t, IntegerFirst(t, start))
                      ELSE -Magnitude(t, IntegerFirst(t, start)), IntegerEnd(t, IntegerFirst(t, start)))
BY Zenon DEF ReadInteger, IntegerFirst, IntegerEnd, IntegerIs, Magnitude

LEMMA EndType ==
    ASSUME NEW t \in Seq(Nat), NEW first \in 1..Len(t) PROVE IntegerEnd(t, first) \in first..Len(t) + 1
<1> DEFINE S == {q \in first..Len(t) + 1 : q = Len(t) + 1 \/ ~IsDigit(t[q])}
           P(q) == /\ \A i \in first..q - 1 : IsDigit(t[i])
                   /\ q = Len(t) + 1 \/ ~IsDigit(t[q])
<1>0. Len(t) \in Nat OBVIOUS
<1>1. S \in SUBSET Nat /\ Len(t) + 1 \in S BY <1>0
<1>2. PICK q \in S : \A y \in S : q <= y
    <2> HIDE DEF S
    <2> QED BY <1>1, LeastNatural
<1>3. ASSUME NEW i \in first..q - 1 PROVE IsDigit(t[i])
    <2>1. q \in first..Len(t) + 1 BY <1>2
    <2>2. i \in first..Len(t) + 1 /\ i < q BY <1>0, <2>1
    <2>3. i \notin S BY <1>2, <2>1, <2>2
    <2> QED BY <2>2, <2>3
<1>4. q \in first..Len(t) + 1 /\ P(q) BY <1>2, <1>3
<1>5. (CHOOSE x \in first..Len(t) + 1 : P(x)) \in first..Len(t) + 1 BY <1>4, Zenon
<1> QED BY <1>5 DEF IntegerEnd

LEMMA ValueExists ==
    ASSUME NEW t \in Seq(Nat), NEW first \in 1..Len(t) PROVE \E f : IntegerIs(f, t, first)
<1> DEFINE n == Len(t)
           D == first - 1..n
           rank == [i \in D |-> i]
           B == {first - 1}
           prev == [i \in D |-> IF i < first THEN i ELSE i - 1]
           base == [i \in D |-> 0]
           step == [z \in Int \X D |-> IF z[2] < first THEN 0 ELSE 10 * z[1] + t[z[2]] - Zero]
<1>0. n \in Nat /\ first \in Nat /\ first >= 1 /\ first <= n OBVIOUS
<1>1. \A i \in D : i >= first => t[i] \in Nat /\ i - 1 \in D BY <1>0
<1>2. Zero \in Int BY DEF Zero
<1>3. Descends(D, n, rank, B, prev, Int, base, step)
    <2>1. rank \in [D -> 0..n] BY <1>0
    <2>2. prev \in [D -> D] BY <1>0
    <2>3. \A i \in D : i \notin B => rank[prev[i]] < rank[i] BY <1>0
    <2>4. base \in [D -> Int] OBVIOUS
    <2>5. step \in [Int \X D -> Int]
        <3>1. ASSUME NEW z \in Int \X D PROVE (IF z[2] < first THEN 0 ELSE 10 * z[1] + t[z[2]] - Zero) \in Int
            <4>1. PICK x \in Int, i \in D : x = z[1] /\ i = z[2] OBVIOUS
            <4>2. CASE i < first BY <4>1, <4>2
            <4>3. CASE i >= first
                <5>1. t[i] \in Nat BY <1>1, <4>3
                <5>2. 10 * x + t[i] - Zero \in Int BY <1>2, <5>1
                <5>3. ~(i < first) BY <1>0, <4>3
                <5> QED BY <4>1, <5>2, <5>3
            <4> QED BY <1>0, <4>2, <4>3
        <3> QED BY <3>1
    <2> QED BY <1>0, <2>1, <2>2, <2>3, <2>4, <2>5 DEF Descends
<1>4. PICK f \in [D -> Int] : \A i \in D : At1(f, i, B, prev, base, step)
    <2> HIDE DEF n, D, rank, B, prev, base, step
    <2>1. Solvable(D, B, prev, Int, base, step) BY <1>3, Recursion, Zenon
    <2> QED BY <2>1 DEF Solvable
<1>5. ASSUME NEW i \in D PROVE f[i] = IF i < first THEN 0 ELSE 10 * f[i - 1] + t[i] - Zero
    <2>1. f[i] = IF i \in B THEN base[i] ELSE step[<<f[prev[i]], i>>] BY <1>4 DEF At1
    <2>2. CASE i < first BY <1>0, <2>1, <2>2
    <2>3. CASE ~(i < first)
        <3>1. i \notin B /\ prev[i] = i - 1 /\ i - 1 \in D BY <1>0, <2>3
        <3>2. f[i - 1] \in Int BY <3>1
        <3>3. step[<<f[i - 1], i>>] = 10 * f[i - 1] + t[i] - Zero BY <2>3, <3>2
        <3> QED BY <2>1, <2>3, <3>1, <3>3
    <2> QED BY <2>2, <2>3
<1> QED BY <1>5 DEF IntegerIs

LEMMA MagnitudeType ==
    ASSUME NEW t \in Seq(Nat), NEW first \in 1..Len(t), IntegerEnd(t, first) # first
    PROVE  Magnitude(t, first) \in Int
<1> DEFINE n == Len(t)
           b == CHOOSE f : IntegerIs(f, t, first)
           S == {i \in 0..n : i >= first - 1 => b[i] \in Int}
<1>0. n \in Nat /\ first \in Nat /\ first >= 1 /\ first <= n /\ Zero \in Int BY DEF Zero
<1>1. IntegerIs(b, t, first) BY ValueExists, Zenon
<1>2. IntegerEnd(t, first) - 1 \in first..n BY <1>0, EndType
<1>3. Magnitude(t, first) = b[IntegerEnd(t, first) - 1] BY Zenon DEF Magnitude
<1> HIDE DEF b
<1>4. ASSUME NEW i \in first - 1..n PROVE b[i] = IF i < first THEN 0 ELSE 10 * b[i - 1] + t[i] - Zero
    BY <1>1 DEF IntegerIs
<1>5. 0 \in S
    <2>1. 0 >= first - 1 => b[0] \in Int BY <1>0, <1>4
    <2> QED BY <1>0, <2>1
<1>6. ASSUME NEW i \in 1..n, i - 1 \in S PROVE i \in S
    <2>1. CASE i >= first
        <3>1. b[i - 1] \in Int BY <1>0, <1>6, <2>1
        <3>2. i \in first - 1..n /\ t[i] \in Nat BY <1>0, <2>1
        <3>3. b[i] = 10 * b[i - 1] + t[i] - Zero BY <1>0, <1>4, <2>1, <3>2
        <3>4. b[i] \in Int BY <1>0, <3>1, <3>2, <3>3
        <3> QED BY <3>4
    <2>2. CASE i < first
        <3>1. i >= first - 1 => b[i] = 0 BY <1>0, <1>4, <2>2
        <3> QED BY <3>1
    <2> QED BY <1>0, <2>1, <2>2
<1>7. \A i \in 0..n : i \in S
    <2> HIDE DEF S, n
    <2> QED BY <1>0, <1>5, <1>6, Induction, Zenon
<1>8. \A i \in first..n : b[i] \in Int BY <1>0, <1>7
<1> QED BY <1>2, <1>3, <1>8

LEMMA IntegerReads ==
    ASSUME NEW t \in Seq(Nat), NEW p \in Nat, p >= 1 PROVE Reads(ReadInteger(t, p), t, 0, Int)
<1> DEFINE first == IntegerFirst(t, p)
           end == IntegerEnd(t, first)
           m == Magnitude(t, first)
           v == IF m > IntMax THEN Overflowed ELSE IF first = p THEN m ELSE -m
<1>0. Len(t) \in Nat /\ first \in Nat /\ first >= 1 BY DEF IntegerFirst
<1>1. ReadInteger(t, p) = IF first > Len(t) \/ end = first THEN Throws ELSE Got(v, end) BY ReadIntegerIs
<1>2. CASE first > Len(t) \/ end = first BY <1>1, <1>2, ReadsThrows
<1>3. CASE ~(first > Len(t) \/ end = first)
    <2>1. first \in 1..Len(t) BY <1>0, <1>3
    <2>2. end \in first..Len(t) + 1 BY <2>1, EndType
    <2>3. m \in Int BY <1>3, <2>1, MagnitudeType
    <2>4. ReadInteger(t, p) = Got(v, end) BY <1>1, <1>3
    <2> HIDE DEF m, end, first
    <2>5. v \in Int BY <2>3, IntMaxAssumption DEF Overflowed
    <2>6. end \in 0 + 1..Len(t) + 1 BY <1>0, <2>2
    <2> HIDE DEF v
    <2> QED BY <2>4, <2>5, <2>6, ReadsGot
<1> QED BY <1>2, <1>3

--------------------------------------------------------------------------------
(* Reading a field                                                        *)

ValuesOf(f) == IF f \in IntFields THEN Int ELSE Seq(Nat)

LEMMA ValueReads ==
    ASSUME NEW t \in Seq(Nat), NEW p \in Nat, p >= 1, NEW f PROVE Reads(ReadValue(t, p, f), t, 0, ValuesOf(f))
<1>1. CASE f \in IntFields BY <1>1, IntegerReads DEF ReadValue, ValuesOf
<1>2. CASE f \notin IntFields /\ f = "organization_id" /\ At(t, p, Word("null"))
    <2>1. ReadValue(t, p, f) = Got(<<>>, p + 1) BY <1>2 DEF ReadValue
    <2>2. p + 1 \in 0 + 1..Len(t) + 1 BY <1>2 DEF At
    <2>3. <<>> \in ValuesOf(f) BY <1>2 DEF ValuesOf
    <2> QED BY <2>1, <2>2, <2>3, ReadsGot
<1>3. CASE f \notin IntFields /\ ~(f = "organization_id" /\ At(t, p, Word("null")))
    <2>1. ReadValue(t, p, f) = ReadString(t, p) BY <1>3 DEF ReadValue
    <2>2. Reads(ReadString(t, p), t, 0, Seq(Nat)) BY StringTyped, StringReadsIs
    <2>3. ValuesOf(f) = Seq(Nat) BY <1>3 DEF ValuesOf
    <2> QED BY <2>1, <2>2, <2>3
<1> QED BY <1>1, <1>2, <1>3

\* A field's value v and what follows it.
Separated(t, v, separator) ==
    IF v.ok THEN (IF At(t, v.pos, separator) THEN Got(v.value, v.pos + 1) ELSE Throws) ELSE Throws

\* A field from its name s on.
Named(t, s, field, separator) ==
    IF s.ok
    THEN IF s.value # <<Word(field)>> \/ ~At(t, s.pos, Colon) THEN Throws
         ELSE Separated(t, ReadValue(t, s.pos + 1, field), separator)
    ELSE Throws

LEMMA ReadFieldIs ==
    ASSUME NEW t, NEW before, NEW field, NEW separator
    PROVE  ReadField(t, before, field, separator)
           = IF before.ok THEN Named(t, ReadString(t, before.pos), field, separator) ELSE Throws
BY SMT DEF ReadField, Then, Named, Separated

LEMMA SeparatedReads ==
    ASSUME NEW t \in Seq(Nat), NEW v, NEW V, Reads(v, t, 0, V), NEW separator
    PROVE  Reads(Separated(t, v, separator), t, 0, V)
<1>1. CASE v = Throws BY <1>1, GotFacts, ReadsThrows DEF Separated
<1>2. CASE v.ok /\ v.value \in V /\ v.pos \in 0 + 1..Len(t) + 1
    <2>1. CASE At(t, v.pos, separator)
        <3>1. Separated(t, v, separator) = Got(v.value, v.pos + 1) BY <1>2, <2>1 DEF Separated
        <3>2. v.pos + 1 \in 0 + 1..Len(t) + 1 BY <1>2, <2>1 DEF At
        <3> QED BY <1>2, <3>1, <3>2, ReadsGot
    <2>2. CASE ~At(t, v.pos, separator) BY <2>2, ReadsThrows DEF Separated
    <2> QED BY <2>1, <2>2
<1> QED BY <1>1, <1>2, ReadsSplit

LEMMA NamedReads ==
    ASSUME NEW t \in Seq(Nat), NEW s, NEW V, Reads(s, t, 0, V), NEW field, NEW separator
    PROVE  Reads(Named(t, s, field, separator), t, 0, ValuesOf(field))
<1>1. CASE s = Throws BY <1>1, GotFacts, ReadsThrows DEF Named
<1>2. CASE s.ok /\ s.pos \in 0 + 1..Len(t) + 1
    <2>1. CASE s.value # <<Word(field)>> \/ ~At(t, s.pos, Colon)
        <3>1. Named(t, s, field, separator) = Throws BY <1>2, <2>1 DEF Named
        <3> QED BY <3>1, ReadsThrows
    <2>2. CASE ~(s.value # <<Word(field)>> \/ ~At(t, s.pos, Colon))
        <3>1. Named(t, s, field, separator) = Separated(t, ReadValue(t, s.pos + 1, field), separator)
            BY <1>2, <2>2 DEF Named
        <3>2. s.pos + 1 \in Nat /\ s.pos + 1 >= 1 BY <1>2
        <3>3. Reads(ReadValue(t, s.pos + 1, field), t, 0, ValuesOf(field)) BY <3>2, ValueReads
        <3> QED BY <3>1, <3>3, SeparatedReads
    <2> QED BY <2>1, <2>2
<1> QED BY <1>1, <1>2, ReadsSplit

\* Something was read before a field, or threw.
Before(t, r) == r = Throws \/ (r.ok /\ r.pos \in 1..Len(t) + 1)

LEMMA FieldReads ==
    ASSUME NEW t \in Seq(Nat), NEW before, Before(t, before), NEW field, NEW separator
    PROVE  /\ Reads(ReadField(t, before, field, separator), t, 0, ValuesOf(field))
           /\ Before(t, ReadField(t, before, field, separator))
           /\ ReadField(t, before, field, separator).ok => before.ok
<1> DEFINE r == ReadField(t, before, field, separator)
<1>1. CASE before = Throws
    <2>1. r = Throws BY <1>1, ReadFieldIs, GotFacts
    <2> QED BY <2>1, ReadsThrows, GotFacts DEF Before
<1>2. CASE before.ok /\ before.pos \in 1..Len(t) + 1
    <2>1. r = Named(t, ReadString(t, before.pos), field, separator) BY <1>2, ReadFieldIs
    <2>2. before.pos \in Nat /\ before.pos >= 1 BY <1>2
    <2>3. Reads(ReadString(t, before.pos), t, 0, Seq(Nat)) BY <2>2, StringTyped, StringReadsIs
    <2>4. Reads(r, t, 0, ValuesOf(field)) BY <2>1, <2>3, NamedReads
    <2> HIDE DEF r
    <2>5. Before(t, r)
        <3>1. 0 + 1 = 1 OBVIOUS
        <3> QED BY <2>4, <3>1, ReadsSplit DEF Before
    <2> QED BY <1>2, <2>4, <2>5 DEF r
<1> QED BY <1>1, <1>2 DEF Before

--------------------------------------------------------------------------------
(* Reading an object                                                      *)

MemberReads(t) == {Throws} \cup [ok : {TRUE}, value : Int \cup Seq(Nat), pos : 1..Len(t) + 1]

LEMMA MemberReadsBefore == ASSUME NEW t, NEW r \in MemberReads(t) PROVE Before(t, r)
BY DEF MemberReads, Before

LEMMA ReadsMember ==
    ASSUME NEW t, NEW r, NEW f, Reads(r, t, 0, ValuesOf(f)) PROVE r \in MemberReads(t)
<1>1. CASE r = Throws BY <1>1 DEF MemberReads
<1>2. ASSUME NEW v \in ValuesOf(f), NEW q \in 0 + 1..Len(t) + 1, r = Got(v, q) PROVE r \in MemberReads(t)
    <2>1. v \in Int \cup Seq(Nat) /\ q \in 1..Len(t) + 1 BY DEF ValuesOf
    <2> QED BY <1>2, <2>1 DEF MemberReads, Got
<1> QED BY <1>1, <1>2 DEF Reads

Opened(t) == IF At(t, 1, LBrace) THEN Got(<<>>, 2) ELSE Throws
SeparatorAt(fields, i) == IF i = Len(fields) THEN RBrace ELSE Comma

\* ReadObject's recursion over the fields as one equation.
ObjectIs(f, t, fields) ==
    f = [i \in 0..Len(fields) |->
            IF i = 0 THEN Opened(t) ELSE ReadField(t, f[i - 1], fields[i], SeparatorAt(fields, i))]

ObjectOf(f, fields) == [g \in ToSet(fields) |-> f[CHOOSE i \in 1..Len(fields) : fields[i] = g].value]

Closed(t, fields, f) ==
    IF f[Len(fields)].ok
    THEN IF f[Len(fields)].pos = Len(t) + 1 THEN Got(ObjectOf(f, fields), f[Len(fields)].pos) ELSE Throws
    ELSE Throws

LEMMA ReadObjectIs ==
    ASSUME NEW t, NEW fields PROVE ReadObject(t, fields) = Closed(t, fields, CHOOSE f : ObjectIs(f, t, fields))
BY Zenon DEF ReadObject, Closed, ObjectIs, ObjectOf, Opened, SeparatorAt, Then

LEMMA OpenedType == ASSUME NEW t \in Seq(Nat) PROVE Opened(t) \in MemberReads(t)
<1>1. CASE At(t, 1, LBrace)
    <2>1. 2 \in 1..Len(t) + 1 /\ <<>> \in Int \cup Seq(Nat) BY <1>1 DEF At
    <2> QED BY <1>1, <2>1 DEF Opened, MemberReads, Got
<1>2. CASE ~At(t, 1, LBrace) BY <1>2 DEF Opened, MemberReads
<1> QED BY <1>1, <1>2

LEMMA FieldMember ==
    ASSUME NEW t \in Seq(Nat), NEW r \in MemberReads(t), NEW f, NEW separator
    PROVE  ReadField(t, r, f, separator) \in MemberReads(t)
BY MemberReadsBefore, FieldReads, ReadsMember

LEMMA ObjectExists ==
    ASSUME NEW t \in Seq(Nat), NEW S, NEW fields \in Seq(S) PROVE \E f : ObjectIs(f, t, fields)
<1> DEFINE n == Len(fields)
           D == 0..n
           V == MemberReads(t)
           rank == [i \in D |-> i]
           B == {0}
           prev == [i \in D |-> IF i = 0 THEN 0 ELSE i - 1]
           base == [i \in D |-> Opened(t)]
           step == [z \in V \X D |-> ReadField(t, z[1], fields[z[2]], SeparatorAt(fields, z[2]))]
<1>0. n \in Nat OBVIOUS
<1>1. Descends(D, n, rank, B, prev, V, base, step)
    <2>1. rank \in [D -> 0..n] BY <1>0
    <2>2. prev \in [D -> D] BY <1>0
    <2>3. \A i \in D : i \notin B => rank[prev[i]] < rank[i] BY <1>0
    <2>4. base \in [D -> V] BY OpenedType
    <2>5. step \in [V \X D -> V]
        <3>1. ASSUME NEW z \in V \X D PROVE ReadField(t, z[1], fields[z[2]], SeparatorAt(fields, z[2])) \in V
            <4>1. z[1] \in V OBVIOUS
            <4> QED BY <4>1, FieldMember
        <3> QED BY <3>1
    <2> QED BY <1>0, <2>1, <2>2, <2>3, <2>4, <2>5 DEF Descends
<1>2. PICK f \in [D -> V] : \A i \in D : At1(f, i, B, prev, base, step)
    <2> HIDE DEF n, D, V, rank, B, prev, base, step
    <2>1. Solvable(D, B, prev, V, base, step) BY <1>1, Recursion, Zenon
    <2> QED BY <2>1 DEF Solvable
<1>3. ASSUME NEW i \in D
      PROVE  f[i] = IF i = 0 THEN Opened(t) ELSE ReadField(t, f[i - 1], fields[i], SeparatorAt(fields, i))
    <2>1. f[i] = IF i \in B THEN base[i] ELSE step[<<f[prev[i]], i>>] BY <1>2 DEF At1
    <2>2. CASE i = 0 BY <2>1, <2>2
    <2>3. CASE i # 0
        <3>1. i \notin B /\ prev[i] = i - 1 /\ i - 1 \in D BY <1>0, <2>3
        <3>2. f[i - 1] \in V BY <3>1
        <3>3. step[<<f[i - 1], i>>] = ReadField(t, f[i - 1], fields[i], SeparatorAt(fields, i)) BY <3>2
        <3> QED BY <2>1, <2>3, <3>1, <3>3
    <2> QED BY <2>2, <2>3
<1> QED BY <1>3 DEF ObjectIs

\* What ReadObject found of each field.
LEMMA MembersRead ==
    ASSUME NEW t \in Seq(Nat), NEW S, NEW fields \in Seq(S), NEW b, ObjectIs(b, t, fields)
    PROVE  \A i \in 1..Len(fields) : Reads(b[i], t, 0, ValuesOf(fields[i])) /\ (b[i].ok => b[i - 1].ok)
<1> DEFINE n == Len(fields)
           R == {i \in 0..n : Before(t, b[i])}
<1>0. n \in Nat OBVIOUS
<1>1. b[0] = Opened(t) /\ \A i \in 1..n : b[i] = ReadField(t, b[i - 1], fields[i], SeparatorAt(fields, i))
    BY <1>0 DEF ObjectIs
<1>2. 0 \in R BY <1>0, <1>1, OpenedType, MemberReadsBefore
<1>3. ASSUME NEW i \in 1..n, i - 1 \in R PROVE i \in R
    <2>1. Before(t, b[i - 1]) BY <1>3
    <2>2. Before(t, b[i]) BY <1>1, <2>1, FieldReads
    <2> QED BY <1>0, <2>2
<1>4. \A i \in 0..n : i \in R
    <2> HIDE DEF R, n
    <2> QED BY <1>0, <1>2, <1>3, Induction, Zenon
<1>5. ASSUME NEW i \in 1..n PROVE Reads(b[i], t, 0, ValuesOf(fields[i])) /\ (b[i].ok => b[i - 1].ok)
    <2>1. Before(t, b[i - 1]) BY <1>0, <1>4
    <2> QED BY <1>1, <2>1, FieldReads
<1> QED BY <1>5

\* If the last field was read, so were they all.
LEMMA AllRead ==
    ASSUME NEW n \in Nat, NEW b, b[n].ok, \A i \in 1..n : b[i].ok => b[i - 1].ok PROVE \A i \in 0..n : b[i].ok
<1> DEFINE R == {k \in 0..n : b[n - k].ok}
<1>1. 0 \in R
    <2>1. n - 0 = n OBVIOUS
    <2> QED BY <2>1
<1>2. ASSUME NEW k \in 1..n, k - 1 \in R PROVE k \in R
    <2>1. n - (k - 1) \in 1..n /\ n - (k - 1) - 1 = n - k OBVIOUS
    <2>2. b[n - (k - 1)].ok BY <1>2
    <2>3. b[n - (k - 1) - 1].ok BY <2>1, <2>2
    <2> QED BY <2>1, <2>3
<1>3. \A k \in 0..n : k \in R
    <2> HIDE DEF R
    <2> QED BY <1>1, <1>2, Induction, Zenon
<1>4. ASSUME NEW i \in 0..n PROVE b[i].ok
    <2>1. n - i \in 0..n /\ n - (n - i) = i OBVIOUS
    <2> QED BY <1>3, <2>1
<1> QED BY <1>4

ObjectOk(fields, m) == m = [f \in ToSet(fields) |-> m[f]] /\ \A f \in ToSet(fields) : ValueOk(f, m[f])

\* A parsed object has exactly the fields asked for, each with a value of its kind.
LEMMA ObjectRead ==
    ASSUME NEW t \in Seq(Nat), NEW S, NEW fields \in Seq(S), ReadObject(t, fields).ok
    PROVE  ObjectOk(fields, ReadObject(t, fields).value)
<1> DEFINE n == Len(fields)
           b == CHOOSE f : ObjectIs(f, t, fields)
<1>0. n \in Nat /\ ReadObject(t, fields) = Closed(t, fields, b) BY ReadObjectIs
<1>1. ObjectIs(b, t, fields) BY ObjectExists, Zenon
<1> HIDE DEF b
<1>2. b[n].ok /\ ReadObject(t, fields).value = ObjectOf(b, fields) BY <1>0, GotFacts DEF Closed
<1>3. \A i \in 1..n : Reads(b[i], t, 0, ValuesOf(fields[i])) /\ (b[i].ok => b[i - 1].ok) BY <1>1, MembersRead
<1>4. \A i \in 0..n : b[i].ok BY <1>0, <1>2, <1>3, AllRead
<1>5. ASSUME NEW f \in ToSet(fields) PROVE ValueOk(f, ObjectOf(b, fields)[f])
    <2> DEFINE i == CHOOSE i \in 1..n : fields[i] = f
    <2>1. \E j \in 1..n : fields[j] = f BY DEF ToSet
    <2>2. i \in 1..n /\ fields[i] = f BY <2>1, Zenon
    <2>3. ObjectOf(b, fields)[f] = b[i].value BY DEF ObjectOf
    <2> HIDE DEF i
    <2>4. b[i].ok /\ Reads(b[i], t, 0, ValuesOf(f)) BY <1>0, <1>3, <1>4, <2>2
    <2>5. b[i].value \in ValuesOf(f) BY <2>4, ReadsSplit, GotFacts
    <2> QED BY <2>3, <2>5 DEF ValueOk, ValuesOf
<1>6. ObjectOf(b, fields) = [f \in ToSet(fields) |-> ObjectOf(b, fields)[f]] BY DEF ObjectOf
<1> QED BY <1>2, <1>5, <1>6 DEF ObjectOk

--------------------------------------------------------------------------------
(* bytes.decode                                                           *)

LEMMA LengthFacts == ASSUME NEW ch PROVE SequenceLength(ch) \in 1..4
BY DEF SequenceLength

LEMMA CodePointType == ASSUME NEW s \in Seq(Nat), NEW p \in 1..Len(s) PROVE CodePointAt(s, p) \in Nat
<1> DEFINE low(i) == IF i <= Len(s) THEN s[i] % 64 ELSE 0
<1>0. Len(s) \in Nat /\ s[p] \in Nat OBVIOUS
<1>1. ASSUME NEW i \in Nat, i >= 1 PROVE low(i) \in Nat
    <2>1. CASE i <= Len(s)
        <3>1. i \in 1..Len(s) BY <1>0, <1>1, <2>1
        <3>2. PICK a \in Nat : a = s[i] BY <3>1
        <3>3. a % 64 \in Nat BY SMT
        <3> QED BY <2>1, <3>2, <3>3
    <2>2. CASE ~(i <= Len(s)) BY <2>2
    <2> QED BY <2>1, <2>2
<1>2. CodePointAt(s, p) =
        IF s[p] \notin 192..247 THEN s[p]
        ELSE IF s[p] <= 223 THEN (s[p] - 192) * 64 + low(p + 1)
        ELSE IF s[p] <= 239 THEN (s[p] - 224) * 4096 + low(p + 1) * 64 + low(p + 2)
        ELSE (s[p] - 240) * 262144 + low(p + 1) * 4096 + low(p + 2) * 64 + low(p + 3)
    BY SMT DEF CodePointAt
<1> HIDE DEF low
<1>3. p + 1 \in Nat /\ p + 2 \in Nat /\ p + 3 \in Nat /\ p + 1 >= 1 /\ p + 2 >= 1 /\ p + 3 >= 1 OBVIOUS
<1>4. low(p + 1) \in Nat /\ low(p + 2) \in Nat /\ low(p + 3) \in Nat BY <1>1, <1>3
<1>5. PICK a \in Nat, b \in Nat, c \in Nat, d \in Nat : a = s[p] /\ b = low(p + 1) /\ c = low(p + 2) /\ d = low(p + 3)
    BY <1>0, <1>4, SMT
<1>10. CodePointAt(s, p) =
        IF a \notin 192..247 THEN a
        ELSE IF a <= 223 THEN (a - 192) * 64 + b
        ELSE IF a <= 239 THEN (a - 224) * 4096 + b * 64 + c
        ELSE (a - 240) * 262144 + b * 4096 + c * 64 + d
    BY <1>2, <1>5, SMT
<1>6. CASE a \notin 192..247 BY <1>10, <1>6, SMT
<1>7. CASE a \in 192..247 /\ a <= 223
    <2>1. (a - 192) * 64 + b \in Nat BY <1>7, SMT
    <2> QED BY <1>10, <1>7, <2>1, SMT
<1>8. CASE a \in 192..247 /\ a > 223 /\ a <= 239
    <2>1. (a - 224) * 4096 + b * 64 + c \in Nat BY <1>8, SMT
    <2> QED BY <1>10, <1>8, <2>1, SMT
<1>9. CASE a \in 192..247 /\ a > 239
    <2>1. (a - 240) * 262144 + b * 4096 + c * 64 + d \in Nat BY <1>9, SMT
    <2> QED BY <1>10, <1>9, <2>1, SMT
<1> QED BY <1>6, <1>7, <1>8, <1>9, SMT

\* CodePoints' recursion as one equation.
FromIs(f, s) ==
    f = [p \in 1..Len(s) + 4 |->
            IF p > Len(s) THEN <<>> ELSE <<CodePointAt(s, p)>> \o f[p + SequenceLength(s[p])]]

LEMMA CodePointsIs == ASSUME NEW s PROVE CodePoints(s) = (CHOOSE f : FromIs(f, s))[1]
BY Zenon DEF CodePoints, FromIs

LEMMA FromNext ==
    ASSUME NEW s \in Seq(Nat), NEW p \in 1..Len(s) + 4, ~(p > Len(s))
    PROVE  /\ <<CodePointAt(s, p)>> \in Seq(Nat)
           /\ p + SequenceLength(s[p]) \in 1..Len(s) + 4 /\ p < p + SequenceLength(s[p])
<1>1. p \in 1..Len(s) OBVIOUS
<1>2. CodePointAt(s, p) \in Nat BY <1>1, CodePointType
<1>3. SequenceLength(s[p]) \in 1..4 BY LengthFacts
<1> QED BY <1>1, <1>2, <1>3

LEMMA FromExists == ASSUME NEW s \in Seq(Nat) PROVE \E f : FromIs(f, s)
<1> DEFINE n == Len(s) + 4
           D == 1..n
           V == Seq(Nat)
           rank == [p \in D |-> n - p]
           B == {p \in D : p > Len(s)}
           prev == [p \in D |-> IF p > Len(s) THEN p ELSE p + SequenceLength(s[p])]
           base == [p \in D |-> <<>>]
           step == [z \in V \X D |-> IF z[2] > Len(s) THEN <<>> ELSE <<CodePointAt(s, z[2])>> \o z[1]]
<1>0. n \in Nat /\ Len(s) \in Nat OBVIOUS
<1>1. \A p \in D : ~(p > Len(s)) =>
          /\ <<CodePointAt(s, p)>> \in Seq(Nat)
          /\ p + SequenceLength(s[p]) \in D /\ p < p + SequenceLength(s[p])
    BY FromNext
<1>2. Descends(D, n, rank, B, prev, V, base, step)
    <2>1. rank \in [D -> 0..n] BY <1>0
    <2>2. prev \in [D -> D]
        <3>1. \A p \in D : (IF p > Len(s) THEN p ELSE p + SequenceLength(s[p])) \in D BY <1>0, <1>1
        <3> QED BY <3>1
    <2>3. ASSUME NEW p \in D, p \notin B PROVE rank[prev[p]] < rank[p]
        <3>1. ~(p > Len(s)) /\ prev[p] = p + SequenceLength(s[p]) BY <2>3
        <3>2. PICK q \in D : q = p + SequenceLength(s[p]) /\ p < q BY <1>1, <3>1
        <3>3. rank[q] = n - q /\ rank[p] = n - p BY <1>0
        <3> QED BY <1>0, <3>1, <3>2, <3>3
    <2>4. base \in [D -> V] OBVIOUS
    <2>5. step \in [V \X D -> V]
        <3>1. ASSUME NEW z \in V \X D
              PROVE (IF z[2] > Len(s) THEN <<>> ELSE <<CodePointAt(s, z[2])>> \o z[1]) \in V
            <4>1. PICK x \in Seq(Nat), p \in D : x = z[1] /\ p = z[2] OBVIOUS
            <4>2. CASE p > Len(s) BY <4>1, <4>2
            <4>3. CASE ~(p > Len(s))
                <5>1. <<CodePointAt(s, p)>> \o x \in Seq(Nat) BY <1>1, <4>3
                <5> QED BY <4>1, <4>3, <5>1
            <4> QED BY <4>2, <4>3
        <3> QED BY <3>1
    <2> QED BY <1>0, <2>1, <2>2, <2>3, <2>4, <2>5 DEF Descends
<1>3. PICK f \in [D -> V] : \A p \in D : At1(f, p, B, prev, base, step)
    <2> HIDE DEF n, D, V, rank, B, prev, base, step
    <2>1. Solvable(D, B, prev, V, base, step) BY <1>2, Recursion, Zenon
    <2> QED BY <2>1 DEF Solvable
<1>4. ASSUME NEW p \in D
      PROVE  f[p] = IF p > Len(s) THEN <<>> ELSE <<CodePointAt(s, p)>> \o f[p + SequenceLength(s[p])]
    <2>1. f[p] = IF p \in B THEN base[p] ELSE step[<<f[prev[p]], p>>] BY <1>3 DEF At1
    <2>2. CASE p > Len(s) BY <2>1, <2>2
    <2>3. CASE ~(p > Len(s))
        <3>1. p \notin B /\ prev[p] = p + SequenceLength(s[p]) BY <2>3
        <3>2. PICK q \in D : q = p + SequenceLength(s[p]) BY <1>1, <2>3
        <3>3. f[q] \in V OBVIOUS
        <3>4. step[<<f[q], p>>] = <<CodePointAt(s, p)>> \o f[q] BY <2>3, <3>3
        <3> QED BY <2>1, <2>3, <3>1, <3>2, <3>4
    <2> QED BY <2>2, <2>3
<1> QED BY <1>4 DEF FromIs

LEMMA CodePointsType == ASSUME NEW s \in Seq(Nat) PROVE CodePoints(s) \in Seq(Nat)
<1> DEFINE D == 1..Len(s) + 4
           b == CHOOSE f : FromIs(f, s)
           rank == [p \in D |-> Len(s) + 4 - p]
           S == {p \in D : b[p] \in Seq(Nat)}
<1>0. Len(s) \in Nat OBVIOUS
<1>1. FromIs(b, s) BY FromExists, Zenon
<1>2. CodePoints(s) = b[1] BY CodePointsIs
<1> HIDE DEF b
<1>3. \A p \in D : b[p] = IF p > Len(s) THEN <<>> ELSE <<CodePointAt(s, p)>> \o b[p + SequenceLength(s[p])]
    BY <1>1 DEF FromIs
<1>4. rank \in [D -> Nat] BY <1>0
<1>5. ASSUME NEW p \in D, \A q \in D : rank[q] < rank[p] => q \in S PROVE p \in S
    <2>1. CASE p > Len(s)
        <3>1. b[p] = <<>> BY <1>3, <2>1
        <3>2. b[p] \in Seq(Nat) BY <3>1
        <3> QED BY <3>2
    <2>2. CASE ~(p > Len(s))
        <3>1. <<CodePointAt(s, p)>> \in Seq(Nat) BY <2>2, FromNext
        <3>2. PICK q \in D : q = p + SequenceLength(s[p]) /\ p < q BY <2>2, FromNext
        <3>3. rank[q] < rank[p] BY <1>0, <3>2
        <3>4. b[q] \in Seq(Nat) BY <1>5, <3>3
        <3>5. b[p] = <<CodePointAt(s, p)>> \o b[q] BY <1>3, <2>2, <3>2
        <3>6. b[p] \in Seq(Nat) BY <3>1, <3>4, <3>5
        <3> QED BY <3>6
    <2> QED BY <2>1, <2>2
<1>6. \A p \in D : p \in S
    <2> HIDE DEF S, D, rank
    <2> QED BY <1>4, <1>5, RankInduction, Zenon
<1>7. 1 \in D BY <1>0
<1> QED BY <1>2, <1>6, <1>7

--------------------------------------------------------------------------------
(* Splitting the envelope                                                 *)

LEMMA ScanStepType == ASSUME NEW s \in ScanStates, NEW ch PROVE ScanStep(s, ch) \in ScanStates
<1>1. /\ s.in_string \in BOOLEAN /\ s.escaped \in BOOLEAN /\ s.depth \in Int
      /\ \A b \in BOOLEAN : [s EXCEPT !.escaped = b] \in ScanStates /\ [s EXCEPT !.in_string = b] \in ScanStates
      /\ \A d \in Int : [s EXCEPT !.depth = d] \in ScanStates
    BY DEF ScanStates
<1>2. s.depth + 1 \in Int /\ s.depth - 1 \in Int BY <1>1
<1>3. [s EXCEPT !.depth = @ + 1] \in ScanStates /\ [s EXCEPT !.depth = @ - 1] \in ScanStates BY <1>1, <1>2
<1>4. /\ [s EXCEPT !.escaped = TRUE] \in ScanStates /\ [s EXCEPT !.escaped = FALSE] \in ScanStates
      /\ [s EXCEPT !.in_string = TRUE] \in ScanStates /\ [s EXCEPT !.in_string = FALSE] \in ScanStates
    BY <1>1
<1> HIDE DEF ScanStates
<1> QED BY <1>3, <1>4, Zenon DEF ScanStep

\* Where the scan stops from i on, given where it stops from i + 1 on.
ScanRow(t, i, g) ==
    [s \in ScanStates |->
        IF i > Len(t) THEN 0
        ELSE IF ScanStep(s, t[i]).depth = 0 /\ s.depth = 1 THEN i ELSE g[ScanStep(s, t[i])]]

ScanIs(f, t, p) == f = [i \in p..Len(t) + 1 |-> ScanRow(t, i, f[i + 1])]

LEMMA PayloadEndIs ==
    ASSUME NEW t, NEW p
    PROVE  PayloadEnd(t, p)
           = (CHOOSE f : ScanIs(f, t, p))[p][[in_string |-> FALSE, escaped |-> FALSE, depth |-> 0]]
BY Zenon DEF PayloadEnd, ScanIs, ScanRow

LEMMA ScanRowType ==
    ASSUME NEW t \in Seq(Nat), NEW i \in Nat, NEW g, i <= Len(t) => g \in [ScanStates -> 0..Len(t)]
    PROVE  ScanRow(t, i, g) \in [ScanStates -> 0..Len(t)]
<1>0. Len(t) \in Nat OBVIOUS
<1>1. ASSUME NEW s \in ScanStates
      PROVE  (IF i > Len(t) THEN 0
              ELSE IF ScanStep(s, t[i]).depth = 0 /\ s.depth = 1 THEN i ELSE g[ScanStep(s, t[i])]) \in 0..Len(t)
    <2>1. CASE i > Len(t) BY <1>0, <2>1
    <2>2. CASE ~(i > Len(t))
        <3>1. i \in 0..Len(t) /\ g \in [ScanStates -> 0..Len(t)] BY <1>0, <2>2
        <3>2. ScanStep(s, t[i]) \in ScanStates BY ScanStepType
        <3>3. g[ScanStep(s, t[i])] \in 0..Len(t) BY <3>1, <3>2
        <3> QED BY <2>2, <3>1, <3>3
    <2> QED BY <2>1, <2>2
<1> QED BY <1>1 DEF ScanRow

LEMMA ScanRowLast ==
    ASSUME NEW t, NEW i, i > Len(t), NEW g, NEW h PROVE ScanRow(t, i, g) = ScanRow(t, i, h)
BY DEF ScanRow

LEMMA ScanExists == ASSUME NEW t \in Seq(Nat), NEW p \in 1..Len(t) + 1 PROVE \E f : ScanIs(f, t, p)
<1> DEFINE n == Len(t) + 1
           D == p..n
           V == [ScanStates -> 0..Len(t)]
           rank == [i \in D |-> n - i]
           B == {n}
           prev == [i \in D |-> IF i = n THEN n ELSE i + 1]
           base == [i \in D |-> ScanRow(t, n, 0)]
           step == [z \in V \X D |-> ScanRow(t, z[2], z[1])]
<1>0. n \in Nat /\ Len(t) \in Nat /\ p \in Nat /\ p <= n /\ n > Len(t) OBVIOUS
<1>1. Descends(D, n, rank, B, prev, V, base, step)
    <2>1. rank \in [D -> 0..n] BY <1>0
    <2>2. prev \in [D -> D] BY <1>0
    <2>3. \A i \in D : i \notin B => rank[prev[i]] < rank[i] BY <1>0
    <2>4. base \in [D -> V]
        <3>1. ScanRow(t, n, 0) \in V BY <1>0, ScanRowType
        <3> HIDE DEF V
        <3> QED BY <3>1
    <2>5. step \in [V \X D -> V]
        <3>1. ASSUME NEW z \in V \X D PROVE ScanRow(t, z[2], z[1]) \in V
            <4>1. z[1] \in V /\ z[2] \in D OBVIOUS
            <4>2. z[2] \in Nat BY <1>0, <4>1
            <4> QED BY <4>1, <4>2, ScanRowType
        <3> HIDE DEF V
        <3> QED BY <3>1
    <2> HIDE DEF V
    <2> QED BY <1>0, <2>1, <2>2, <2>3, <2>4, <2>5 DEF Descends
<1>2. PICK f \in [D -> V] : \A i \in D : At1(f, i, B, prev, base, step)
    <2> HIDE DEF n, D, V, rank, B, prev, base, step
    <2>1. Solvable(D, B, prev, V, base, step) BY <1>1, Recursion, Zenon
    <2> QED BY <2>1 DEF Solvable
<1> HIDE DEF V
<1>3. ASSUME NEW i \in D PROVE f[i] = ScanRow(t, i, f[i + 1])
    <2>1. f[i] = IF i \in B THEN base[i] ELSE step[<<f[prev[i]], i>>] BY <1>2 DEF At1
    <2>2. CASE i = n
        <3>1. f[i] = ScanRow(t, n, 0) BY <2>1, <2>2
        <3>2. ScanRow(t, n, 0) = ScanRow(t, n, f[i + 1]) BY <1>0, ScanRowLast
        <3> QED BY <2>2, <3>1, <3>2
    <2>3. CASE i # n
        <3>1. i \notin B /\ prev[i] = i + 1 /\ i + 1 \in D BY <1>0, <2>3
        <3>2. f[i + 1] \in V BY <3>1
        <3>3. step[<<f[i + 1], i>>] = ScanRow(t, i, f[i + 1]) BY <3>2
        <3> QED BY <2>1, <3>1, <3>3
    <2> QED BY <2>2, <2>3
<1> QED BY <1>3 DEF ScanIs

LEMMA PayloadEndType ==
    ASSUME NEW t \in Seq(Nat), NEW p \in 1..Len(t) + 1 PROVE PayloadEnd(t, p) \in 0..Len(t)
<1> DEFINE n == Len(t) + 1
           D == p..n
           b == CHOOSE f : ScanIs(f, t, p)
           V == [ScanStates -> 0..Len(t)]
           rank == [i \in D |-> n - i]
           S == {i \in D : b[i] \in V}
           start == [in_string |-> FALSE, escaped |-> FALSE, depth |-> 0]
<1>0. n \in Nat /\ Len(t) \in Nat /\ p \in D OBVIOUS
<1>1. ScanIs(b, t, p) BY ScanExists, Zenon
<1>2. PayloadEnd(t, p) = b[p][start] BY PayloadEndIs
<1> HIDE DEF b
<1>3. \A i \in D : b[i] = ScanRow(t, i, b[i + 1]) BY <1>1 DEF ScanIs
<1>4. rank \in [D -> Nat] BY <1>0
<1>5. ASSUME NEW i \in D, \A q \in D : rank[q] < rank[i] => q \in S PROVE i \in S
    <2>1. i <= Len(t) => b[i + 1] \in V
        <3> SUFFICES ASSUME i <= Len(t) PROVE b[i + 1] \in V OBVIOUS
        <3>1. i + 1 \in D /\ rank[i + 1] < rank[i] BY <1>0
        <3> QED BY <1>5, <3>1
    <2>2. i \in Nat BY <1>0
    <2>3. b[i] \in V BY <1>3, <2>1, <2>2, ScanRowType
    <2> QED BY <2>3
<1>6. \A i \in D : i \in S
    <2> HIDE DEF S, D, rank
    <2> QED BY <1>4, <1>5, RankInduction, Zenon
<1>7. b[p] \in V BY <1>0, <1>6
<1>8. start \in ScanStates BY DEF ScanStates
<1> QED BY <1>2, <1>7, <1>8

\* What an envelope's parts are, wherever the type's closing quote is.
LEMMA PartsIs ==
    ASSUME NEW t, NEW end
    PROVE  \E quote : PartsAround(t, end)
               = IF end # 0 /\ TypeSuffix(SubSeq(t, end + 1, Len(t)), quote)
                 THEN [ok |-> TRUE, payload |-> SubSeq(t, Len(EnvelopePrefix) + 1, end),
                       type |-> SubSeq(SubSeq(t, end + 1, Len(t)), Len(TypePrefix) + 1, quote - 1)]
                 ELSE Throws
BY Zenon DEF PartsAround

LEMMA SubSeqType ==
    ASSUME NEW t \in Seq(Nat), NEW a \in Nat, NEW b \in Nat, a >= 1, b <= Len(t) PROVE SubSeq(t, a, b) \in Seq(Nat)
<1>1. Len(t) \in Nat OBVIOUS
<1>2. \A i \in a..b : i \in 1..Len(t) BY <1>1
<1> QED BY <1>2, SubSeqProperties

\* The payload of an envelope is text.
LEMMA PayloadType ==
    ASSUME NEW t \in Seq(Nat), split_envelope(t).ok PROVE split_envelope(t).payload \in Seq(Nat)
<1> DEFINE a == Len(EnvelopePrefix) + 1
           end == PayloadEnd(t, a)
<1>1. EnvelopePrefix \in Seq(Nat) /\ Len(EnvelopePrefix) = 5
    <2>1. Word("payload") \in Nat BY WordType
    <2>2. Quote \in Nat /\ LBrace \in Nat /\ Colon \in Nat BY DEF Quote, LBrace, Colon
    <2> QED BY <2>1, <2>2 DEF EnvelopePrefix
<1>2. a \in Nat /\ a = 6 BY <1>1
<1>3. IsPrefix(Append(EnvelopePrefix, LBrace), t) /\ split_envelope(t) = PartsAround(t, end)
    BY GotFacts DEF split_envelope
<1>4. Len(t) \in Nat /\ Len(t) >= a
    <2>1. LBrace \in Nat BY DEF LBrace
    <2>2. Append(EnvelopePrefix, LBrace) \in Seq(Nat) /\ Len(Append(EnvelopePrefix, LBrace)) = a
        <3>1. \A x \in Seq(Nat), e \in Nat : Append(x, e) \in Seq(Nat) /\ Len(Append(x, e)) = Len(x) + 1 OBVIOUS
        <3> QED BY <1>1, <2>1, <3>1, Zenon
    <2> DEFINE x == Append(EnvelopePrefix, LBrace)
    <2> HIDE DEF x, a
    <2>3. x \in Seq(Nat) /\ Len(x) = a /\ IsPrefix(x, t) BY <1>3, <2>2 DEF x
    <2> QED BY <2>3 DEF IsPrefix
<1>5. end \in 0..Len(t) BY <1>2, <1>4, PayloadEndType
<1> HIDE DEF end
<1>6. split_envelope(t).payload = SubSeq(t, a, end) 
    <2>1. PICK quote : PartsAround(t, end)
               = IF end # 0 /\ TypeSuffix(SubSeq(t, end + 1, Len(t)), quote)
                 THEN [ok |-> TRUE, payload |-> SubSeq(t, a, end),
                       type |-> SubSeq(SubSeq(t, end + 1, Len(t)), Len(TypePrefix) + 1, quote - 1)]
                 ELSE Throws
        BY PartsIs
    <2>2. PartsAround(t, end).ok BY <1>3
    <2>3. PartsAround(t, end) # Throws BY <2>2, GotFacts
    <2>4. \A x, y : [ok |-> TRUE, payload |-> x, type |-> y].payload = x OBVIOUS
    <2>5. PartsAround(t, end).payload = SubSeq(t, a, end)
        <3> HIDE DEF a
        <3> QED BY <2>1, <2>3, <2>4, Zenon
    <2> QED BY <1>3, <2>5
<1>7. SubSeq(t, a, end) \in Seq(Nat) BY <1>2, <1>4, <1>5, SubSeqType
<1> QED BY <1>6, <1>7

--------------------------------------------------------------------------------
(* The invariant                                                          *)

LEMMA SplicedType ==
    ASSUME NEW t \in Seq(Nat), NEW p \in 1..Len(t) + 1, NEW k \in 0..1, NEW piece \in Seq(Nat)
    PROVE  Spliced(t, p, k, piece) \in Seq(Nat)
<1> DEFINE a == SubSeq(t, 1, p - 1)
           b == SubSeq(t, p + k, Len(t))
<1>1. /\ Len(t) \in Nat /\ p - 1 \in Nat /\ p - 1 <= Len(t)
      /\ p + k \in Nat /\ p + k >= 1
    OBVIOUS
<1>2. a \in Seq(Nat) /\ b \in Seq(Nat) BY <1>1, SubSeqType
<1>3. Spliced(t, p, k, piece) = a \o piece \o b BY DEF Spliced
<1> HIDE DEF a, b
<1> QED BY <1>2, <1>3

LEMMA IntsType == ASSUME NEW n \in Ints PROVE n \in Int
BY IntMaxAssumption DEF Ints

\* What the reader holds after parsing has the fields of its type.
LEMMA UnderstoodType ==
    ASSUME NEW type, NEW m, ObjectOk(Fields(type), m), NEW x \in Understood(type, m)
    PROVE  ObjectOk(Fields(type), x)
<1> DEFINE F == ToSet(Fields(type))
<1>1. DOMAIN m = F /\ \A f \in F : ValueOk(f, m[f]) BY DEF ObjectOk
<1>2. CASE Reader(type) = "python"
    <2>1. x = [f \in F |-> IF f \in IntFields THEN m[f] ELSE CodePoints(m[f])] BY <1>1, <1>2 DEF Understood
    <2>2. ASSUME NEW f \in F PROVE ValueOk(f, x[f])
        <3>1. x[f] = IF f \in IntFields THEN m[f] ELSE CodePoints(m[f]) BY <2>1
        <3>2. CASE f \in IntFields BY <1>1, <3>1, <3>2 DEF ValueOk
        <3>3. CASE f \notin IntFields
            <4>1. m[f] \in Seq(Nat) BY <1>1, <3>3 DEF ValueOk
            <4> QED BY <3>1, <3>3, <4>1, CodePointsType DEF ValueOk
        <3> QED BY <3>2, <3>3
    <2>3. x = [f \in F |-> x[f]] BY <2>1
    <2> QED BY <2>2, <2>3 DEF ObjectOk
<1>3. CASE Reader(type) # "python"
    <2> DEFINE N == IF \E f \in DOMAIN m \cap IntFields : m[f] = Overflowed THEN Ints ELSE {0}
    <2>0. \A n \in N : n \in Int BY IntsType
    <2>1. PICK n \in N : x = [f \in DOMAIN m |-> IF f \in IntFields /\ m[f] = Overflowed THEN n ELSE m[f]]
        BY <1>3 DEF Understood
    <2>2. n \in Int BY <2>0
    <2> HIDE DEF N
    <2>3. x = [f \in F |-> IF f \in IntFields /\ m[f] = Overflowed THEN n ELSE m[f]] BY <1>1, <2>1
    <2>4. ASSUME NEW f \in F PROVE ValueOk(f, x[f])
        <3>1. x[f] = IF f \in IntFields /\ m[f] = Overflowed THEN n ELSE m[f] BY <2>3
        <3> QED BY <1>1, <2>2, <3>1 DEF ValueOk
    <2>5. x = [f \in F |-> x[f]] BY <2>3
    <2> QED BY <2>4, <2>5 DEF ObjectOk
<1> QED BY <1>2, <1>3
--------------------------------------------------------------------------------
\* The message as signed, and the text on its way.
SentOk ==
    /\ sent.lang \in {"cpp", "python"} /\ sent.type \in Types
    /\ sent.lang = "python" => sent.type = "JOB_RESULT"
    /\ sent.id \in Seq(Nat) /\ sent.content \in Seq(Nat) /\ sent.time \in Int
    /\ sent.signature \in Seq(0..255)
    /\ over = Canonical(sent.lang, sent.type, SentMessage(sent.lang))
    /\ wire \in Seq(Nat)

\* The message as parsed.
GotOk ==
    /\ got.type \in Types /\ got.type \in Responses \cup {sent.type}
    /\ ObjectOk(Fields(got.type), got.fields)

\* Its canonical text is what was signed, and its signature the one made.
AcceptedOk ==
    /\ Canonical(Reader(got.type), got.type, got.fields) = over
    /\ sent.signature = IF Reader(got.type) = "python" THEN unb64(got.fields.signature)
                        ELSE base64url_decode(got.fields.signature)

WireInv ==
    /\ pc # "idle" => SentOk
    /\ pc \in {"read", "accepted", "rejected"} => GotOk
    /\ pc = "accepted" => AcceptedOk

LEMMA InitWire == Init => WireInv
BY DEF Init, WireInv

LEMMA SendWire ==
    ASSUME NEW lang \in {"cpp", "python"}, NEW type \in Responses \cup {"JOB_REQUEST"}, NEW id \in Ids,
           NEW content \in Contents, NEW time \in Times, NEW signature \in Signatures,
           Send(lang, type, id, content, time, signature)
    PROVE  WireInv'
<1> DEFINE m == Message(lang, type, id, content, time, signature)
<1>1. type \in Types BY DEF Types, Responses
<1>2. id \in Seq(Nat) /\ content \in Seq(Nat) /\ time \in Int /\ signature \in Seq(0..255)
    BY WireAssumption, Zenon
<1>3. MessageOk(type, m) BY <1>2, MessageType
<1>4. wire' = Envelope(lang, type, m) /\ over' = Canonical(lang, type, m) /\ pc' = "sent"
    BY DEF Send
<1>5. /\ sent'.lang = lang /\ sent'.type = type /\ sent'.id = id /\ sent'.content = content
      /\ sent'.time = time /\ sent'.signature = signature
    BY DEF Send
<1>6. lang = "python" => type = "JOB_RESULT" BY DEF Send
<1>7. SentMessage(lang)' = m BY <1>5 DEF SentMessage
<1> HIDE DEF m
<1>8. wire' \in Seq(Nat) BY <1>1, <1>3, <1>4, EnvelopeType
<1>9. SentMessage(sent.lang)' = m BY <1>5, <1>7 DEF SentMessage
<1>10. SentOk' BY <1>1, <1>2, <1>4, <1>5, <1>6, <1>8, <1>9 DEF SentOk
<1> QED BY <1>4, <1>10 DEF WireInv

LEMMA RepurposeWire ==
    ASSUME WireInv, NEW type \in Responses, NEW id \in Ids, NEW content \in FaultyContents, NEW time \in Times,
           Repurpose(type, id, content, time)
    PROVE  WireInv'
<1> DEFINE m == Message("cpp", type, id, content, time, sent.signature)
<1>1. type \in Types BY DEF Types, Responses
<1>2. id \in Seq(Nat) /\ content \in Seq(Nat) /\ time \in Int BY WireAssumption, Zenon
<1>3. pc = "sent" /\ SentOk BY DEF Repurpose, WireInv
<1>4. MessageOk(type, m) BY <1>2, <1>3, MessageType DEF SentOk
<1>5. wire' = Envelope("cpp", type, m) /\ UNCHANGED <<pc, sent, over>> BY DEF Repurpose
<1> HIDE DEF m
<1>6. wire' \in Seq(Nat) BY <1>1, <1>4, <1>5, EnvelopeType
<1>7. SentOk' BY <1>3, <1>5, <1>6 DEF SentOk, SentMessage
<1> QED BY <1>3, <1>5, <1>7 DEF WireInv

LEMMA EditWire == ASSUME WireInv, NEW p \in 1..Len(wire) + 1, Edit(p) PROVE WireInv'
<1>1. pc = "sent" /\ SentOk /\ UNCHANGED <<pc, sent, over>> BY DEF Edit, WireInv
<1>2. wire \in Seq(Nat) BY <1>1 DEF SentOk
<1>3. \A piece \in EditPieces : piece \in Seq(Nat) BY WireAssumption, Zenon
<1>4. wire' \in Seq(Nat)
    <2>1. CASE \E piece \in EditPieces, k \in 0..1 : wire' = Spliced(wire, p, k, piece)
        BY <1>2, <1>3, <2>1, SplicedType
    <2>2. CASE p <= Len(wire) /\ wire' = Spliced(wire, p, 1, UnicodeEscape(wire[p]))
        <3>1. UnicodeEscape(wire[p]) \in Seq(Nat)
            <4>1. wire[p] \in Nat BY <1>2, <2>2
            <4> QED BY <4>1, UnitIsFirst
        <3>2. 1 \in 0..1 OBVIOUS
        <3> QED BY <1>2, <2>2, <3>1, <3>2, SplicedType
    <2> QED BY <2>1, <2>2 DEF Edit
<1>5. SentOk' BY <1>1, <1>4 DEF SentOk, SentMessage
<1> QED BY <1>1, <1>5 DEF WireInv

LEMMA ReceiveWire == ASSUME WireInv, Receive PROVE WireInv'
<1> DEFINE parts == split_envelope(wire)
<1>1. pc = "sent" /\ SentOk /\ Dispatch(parts) BY DEF Receive, WireInv
<1>2. wire \in Seq(Nat) BY <1>1 DEF SentOk
<1>3. parts.ok => parts.payload \in Seq(Nat) BY <1>2, PayloadType
<1> HIDE DEF parts
<1>4. CASE Malformed
    <2>1. pc' = "malformed" /\ UNCHANGED <<sent, over, wire>> BY <1>4 DEF Malformed
    <2>2. SentOk' BY <1>1, <2>1 DEF SentOk, SentMessage
    <2> QED BY <2>1, <2>2 DEF WireInv
<1>5. ASSUME parts.ok, NEW t \in Responses \cup {sent.type}, Parse(t, ReadObject(parts.payload, Fields(t)))
      PROVE  WireInv'
    <2> DEFINE r == ReadObject(parts.payload, Fields(t))
    <2>0. t \in Types BY <1>1 DEF SentOk, Types, Responses
    <2>1. CASE ~r.ok
        <3>1. Malformed BY <1>5, <2>1 DEF Parse
        <3> QED BY <1>4, <3>1
    <2>2. CASE r.ok
        <3>1. PICK m \in Understood(t, r.value) : got' = [type |-> t, fields |-> m] BY <1>5, <2>2 DEF Parse
        <3>2. pc' = "read" /\ UNCHANGED <<sent, over, wire>> BY <1>5, <2>2 DEF Parse
        <3>3. Fields(t) \in Seq(Names) BY <2>0, FieldsOf
        <3>4. ObjectOk(Fields(t), r.value) BY <1>3, <1>5, <2>2, <3>3, ObjectRead
        <3> HIDE DEF r
        <3>5. ObjectOk(Fields(t), m) BY <3>1, <3>4, UnderstoodType
        <3>6. got'.type = t /\ got'.fields = m BY <3>1
        <3>7. SentOk' BY <1>1, <3>2 DEF SentOk, SentMessage
        <3>8. t \in Responses \cup {sent'.type} BY <3>2
        <3>9. GotOk' BY <2>0, <3>5, <3>6, <3>8 DEF GotOk
        <3> QED BY <3>2, <3>7, <3>9 DEF WireInv
    <2> QED BY <2>1, <2>2
<1> QED BY <1>1, <1>4, <1>5 DEF Dispatch

LEMMA VerifyWire == ASSUME WireInv, NEW k, Verify(k) PROVE WireInv'
<1>1. pc = "read" /\ SentOk /\ GotOk /\ UNCHANGED <<sent, over, wire, got>> BY DEF Verify, WireInv
<1>2. SentOk' BY <1>1 DEF SentOk, SentMessage
<1>3. GotOk' BY <1>1 DEF GotOk
<1>4. pc' \in {"accepted", "rejected"} BY DEF Verify
<1>5. ASSUME pc' = "accepted" PROVE AcceptedOk
    <2>1. \/ got.type = "JOB_RESULT" /\ VerifyResult(got.fields, k)
          \/ got.type = "FAILURE_NOTICE" /\ VerifyNotice(got.fields, k)
          \/ got.type = "JOB_REQUEST" /\ VerifyRequest(got.fields, k)
        BY <1>5 DEF Verify
    <2>2. CASE got.type = "JOB_RESULT" /\ VerifyResult(got.fields, k)
        BY <2>2 DEF VerifyResult, Ed25519Verify, AcceptedOk, Reader
    <2>3. CASE got.type = "FAILURE_NOTICE" /\ VerifyNotice(got.fields, k)
        BY <2>3 DEF VerifyNotice, Ed25519Verify, AcceptedOk, Reader
    <2>4. CASE got.type = "JOB_REQUEST" /\ VerifyRequest(got.fields, k)
        BY <2>4 DEF VerifyRequest, Ed25519Verify, AcceptedOk, Reader
    <2> QED BY <2>1, <2>2, <2>3, <2>4
<1>6. pc' = "accepted" => AcceptedOk' BY <1>1, <1>5 DEF AcceptedOk
<1> QED BY <1>2, <1>3, <1>4, <1>6 DEF WireInv

LEMMA StepWire == WireInv /\ [Next]_vars => WireInv'
<1> SUFFICES ASSUME WireInv, [Next]_vars PROVE WireInv' OBVIOUS
<1>1. CASE \E lang \in {"cpp", "python"}, type \in Responses \cup {"JOB_REQUEST"} :
              \E id \in Ids, content \in Contents, time \in Times, signature \in Signatures :
                  Send(lang, type, id, content, time, signature)
    BY <1>1, SendWire
<1>2. CASE \E type \in Responses, id \in Ids, content \in FaultyContents, time \in Times :
              Repurpose(type, id, content, time)
    BY <1>2, RepurposeWire
<1>3. CASE \E p \in 1..Len(wire) + 1 : Edit(p) BY <1>3, EditWire
<1>4. CASE Receive BY <1>4, ReceiveWire
<1>5. CASE \E k \in {Signer, "other", NoKey} : Verify(k) BY <1>5, VerifyWire
<1>6. CASE UNCHANGED vars BY <1>6 DEF vars, WireInv, SentOk, GotOk, AcceptedOk, SentMessage
<1> QED BY <1>1, <1>2, <1>3, <1>4, <1>5, <1>6 DEF Next

\* A field of the accepted message, other than the signature, is the one signed,
\* as the reader's language holds it.
LEMMA AcceptedField ==
    ASSUME SentOk, GotOk, AcceptedOk
    PROVE  /\ got.type = sent.type
           /\ \A f \in ToSet(Fields(got.type)) : f # "signature" =>
                 got.fields[f]
                     = MessageField(Reader(got.type), sent.id, sent.content, sent.time, sent.signature, f)
<1> DEFINE w == SentMessage(sent.lang)
           g == got.fields
           L == sent.lang
           R == Reader(got.type)
<1>1. MessageOk(sent.type, w) BY MessageType DEF SentOk, SentMessage
<1>2. MessageOk(got.type, g) BY DEF GotOk, ObjectOk, MessageOk
<1>3. \A f \in ToSet(Fields(sent.type)) :
          w[f] = MessageField(L, sent.id, sent.content, sent.time, sent.signature, f)
    BY MessageAt DEF SentMessage
<1>4. Canonical(R, got.type, g) = Canonical(L, sent.type, w) BY DEF SentOk, AcceptedOk
<1>5. got.type \in Types /\ sent.type \in Types /\ sent.id \in Seq(Nat) /\ sent.content \in Seq(Nat)
    BY DEF SentOk, GotOk
<1> HIDE DEF w
<1>6. CASE got.type # "JOB_REQUEST"
    <2>1. R = "cpp" BY <1>6 DEF Reader
    <2>2. CanonicalSame(L, got.type, sent.type, g, w) BY <1>1, <1>2, <1>4, <1>5, <2>1, CanonicalUnique
    <2>3. got.type = sent.type BY <2>2 DEF CanonicalSame
    <2>4. ASSUME NEW f \in ToSet(Fields(got.type)), f # "signature"
          PROVE  g[f] = MessageField(R, sent.id, sent.content, sent.time, sent.signature, f)
        <3>1. ValueSame(L, f, g[f], w[f]) BY <2>2, <2>4 DEF CanonicalSame
        <3>2. g[f] = MessageField(L, sent.id, sent.content, sent.time, sent.signature, f)
            BY <1>3, <2>3, <3>1 DEF ValueSame
        <3>3. L # R /\ f \notin IntFields => Singles(g[f])
            BY <2>1, <3>1 DEF ValueSame, Singles, SentOk
        <3> QED BY <1>5, <3>2, <3>3, MessageSame
    <2> QED BY <2>3, <2>4
<1>7. CASE got.type = "JOB_REQUEST"
    <2>1. R = "python" BY <1>7 DEF Reader
    <2>2. sent.type = "JOB_REQUEST" /\ L = "cpp" BY <1>7 DEF GotOk, SentOk, Responses
    <2>3. CanonicalSame(R, sent.type, got.type, w, g)
        <3>1. Canonical("cpp", sent.type, w) = Canonical(R, got.type, g) BY <1>4, <2>2
        <3> QED BY <1>1, <1>2, <1>5, <3>1, CanonicalUnique
    <2>4. ASSUME NEW f \in ToSet(Fields(got.type)), f # "signature"
          PROVE  g[f] = MessageField(R, sent.id, sent.content, sent.time, sent.signature, f)
        <3>0. f \in ToSet(Fields(sent.type)) BY <1>7, <2>2
        <3>1. ValueSame(R, f, w[f], g[f]) BY <2>3, <2>4, <3>0 DEF CanonicalSame
        <3>2. g[f] = MessageField(L, sent.id, sent.content, sent.time, sent.signature, f)
            BY <1>3, <3>0, <3>1 DEF ValueSame
        <3>3. f \notin IntFields => Singles(g[f]) BY <2>1, <3>1 DEF ValueSame, Singles
        <3> QED BY <1>5, <3>2, <3>3, MessageSame
    <2> QED BY <1>7, <2>2, <2>4
<1> QED BY <1>6, <1>7

LEMMA WireImplies == WireInv => AcceptedIsSigned
<1> SUFFICES ASSUME WireInv, pc = "accepted" PROVE AcceptedIsSigned BY DEF AcceptedIsSigned
<1>1. SentOk /\ GotOk /\ AcceptedOk BY DEF WireInv
<1> DEFINE R == Reader(got.type)
           F == ToSet(Fields(got.type))
           m == SentMessage(R)
<1>2. got.type = sent.type BY <1>1, AcceptedField
<1>3. ASSUME NEW f \in F, f # "signature" PROVE got.fields[f] = m[f]
    <2>1. got.fields[f] = MessageField(R, sent.id, sent.content, sent.time, sent.signature, f)
        BY <1>1, <1>3, AcceptedField
    <2>2. m[f] = MessageField(R, sent.id, sent.content, sent.time, sent.signature, f)
        BY <1>2, MessageAt DEF SentMessage
    <2> QED BY <2>1, <2>2
<1>4. DOMAIN m = F /\ m = [f \in F |-> m[f]] BY <1>2, MessageAt DEF SentMessage
<1>5. got.fields = [f \in F |-> got.fields[f]] BY <1>1 DEF GotOk, ObjectOk
<1>6. AsSpelt(R) = [m EXCEPT !.signature = got.fields.signature] BY DEF AsSpelt
<1> HIDE DEF m, F
<1>7. AsSpelt(R) = [f \in F |-> IF f = "signature" THEN got.fields.signature ELSE m[f]] BY <1>4, <1>6
<1>8. \A f \in F : got.fields[f] = IF f = "signature" THEN got.fields.signature ELSE m[f] BY <1>3
<1>9. got.fields = AsSpelt(R) BY <1>5, <1>7, <1>8
<1> QED BY <1>1, <1>2, <1>9 DEF AcceptedIsSigned, AcceptedOk

THEOREM AcceptedIsSignedHolds == Spec => []AcceptedIsSigned
<1>1. Spec => []WireInv BY InitWire, StepWire, PTL DEF Spec
<1> QED BY <1>1, WireImplies, PTL
================================================================================
