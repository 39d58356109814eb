------------------------- MODULE FramedStream_proofs -------------------------
(***************************************************************************)
(* Proofs about FramedStream, for every radix, header length, frame limit, *)
(* set of payloads and set of raw writes.                                  *)
(*                                                                         *)
(* The digits of a header, the number it declares and the bytes of a list  *)
(* of frames are recursive functions.  Induction over them is done with a  *)
(* set of naturals in place of a predicate (Induction below), which rests  *)
(* on the well-foundedness of < alone.                                     *)
(***************************************************************************)
EXTENDS FramedStream, WellFoundedInduction, SequenceTheorems, TLAPS

LEMMA LeastNatural ==
    ASSUME NEW S \in SUBSET Nat, NEW e \in S
    PROVE  \E x \in S : \A y \in S : x <= y
<1>1. IsWellFoundedOn(OpToRel(<, Nat), Nat) BY NatLessThanWellFounded
<1>2. PICK x \in S : \A y \in S : ~ (<<y, x>> \in OpToRel(<, Nat)) BY <1>1, WFMin, Zenon
<1>3. \A y \in S : ~ (y < x) BY <1>2 DEF OpToRel
<1> QED BY <1>3

\* A set that holds 0, and with each number the next, holds them all.
LEMMA Induction ==
    ASSUME NEW n \in Nat, NEW S, 0 \in S, \A i \in 1..n : i - 1 \in S => i \in S
    PROVE  \A i \in 0..n : i \in S
<1> SUFFICES ASSUME NEW i \in 0..n, i \notin S PROVE FALSE OBVIOUS
<1> DEFINE out == {k \in 0..n : k \notin S}
<1>1. PICK x \in out : \A y \in out : x <= y
    <2>1. out \in SUBSET Nat /\ i \in out OBVIOUS
    <2> HIDE DEF out
    <2> QED BY <2>1, LeastNatural
<1>2. x \in 1..n /\ x - 1 \in 0..n /\ x - 1 \notin out BY <1>1
<1> QED BY <1>2

\* f starts with c and goes on with step, n times, within V.
Solves(f, V, c, n, step) ==
    /\ f \in [0..n -> V] /\ f[0] = c
    /\ \A i \in 1..n : f[i] = step[<<f[i - 1], i>>]

IsStep(step, V, n) == step \in [V \X (1..n) -> V]

\* A recursive definition whose step stays within a set has a solution in it.
LEMMA Recursion ==
    ASSUME NEW V, NEW c \in V, NEW n \in Nat, NEW step, IsStep(step, V, n)
    PROVE  \E f : Solves(f, V, c, n, step)
<1> USE DEF IsStep
<1> DEFINE S == {k \in 0..n : \E f : Solves(f, V, c, k, step)}
<1>1. 0 \in S
    <2> DEFINE f == [k \in 0..0 |-> c]
    <2>1. Solves(f, V, c, 0, step) BY DEF Solves
    <2> HIDE DEF f
    <2>2. 0 \in 0..n OBVIOUS
    <2> QED BY <2>1, <2>2
<1>2. ASSUME NEW k \in 1..n, k - 1 \in S PROVE k \in S
    <2>1. PICK f : Solves(f, V, c, k - 1, step) BY <1>2
    <2>2. /\ f \in [0..(k - 1) -> V] /\ f[0] = c
          /\ \A i \in 1..(k - 1) : f[i] = step[<<f[i - 1], i>>]
        BY <2>1 DEF Solves
    <2> DEFINE v == step[<<f[k - 1], k>>]
               g == [i \in 0..k |-> IF i = k THEN v ELSE f[i]]
    <2>3. k - 1 \in 0..(k - 1) /\ v \in V BY <1>2, <2>2
    <2> HIDE DEF v
    <2>4. g \in [0..k -> V] BY <2>2, <2>3
    <2>5. (\A i \in 0..(k - 1) : g[i] = f[i]) /\ g[k] = v OBVIOUS
    <2> HIDE DEF g
    <2>6. g[0] = c BY <2>2, <2>5
    <2>7. ASSUME NEW i \in 1..k PROVE g[i] = step[<<g[i - 1], i>>]
        <3>1. CASE i = k BY <3>1, <2>3, <2>5 DEF v
        <3>2. CASE i # k
            <4>1. i \in 1..(k - 1) /\ i \in 0..(k - 1) /\ i - 1 \in 0..(k - 1) BY <3>2
            <4> QED BY <4>1, <2>2, <2>5
        <3> QED BY <3>1, <3>2
    <2>8. Solves(g, V, c, k, step) BY <2>4, <2>6, <2>7 DEF Solves
    <2>9. k \in 0..n OBVIOUS
    <2> QED BY <2>8, <2>9
<1> HIDE DEF S
<1>3. n \in S BY <1>1, <1>2, Induction
<1> QED BY <1>3 DEF S
--------------------------------------------------------------------------------
(* The header *)

LEMMA ShiftedFacts ==
    ASSUME NEW n \in Nat
    PROVE  /\ Shifted(n) \in [0..HeaderBytes -> Nat] /\ Shifted(n)[0] = n
           /\ \A k \in 1..HeaderBytes : Shifted(n)[k] = Shifted(n)[k - 1] \div Radix
<1> DEFINE step == [x \in Nat \X (1..HeaderBytes) |-> x[1] \div Radix]
           Is(f) == f = [k \in 0..HeaderBytes |-> IF k = 0 THEN n ELSE f[k - 1] \div Radix]
<1>1. IsStep(step, Nat, HeaderBytes)
    <2>1. \A x \in Nat : x \div Radix \in Nat BY HeaderHoldsLimit
    <2> QED BY <2>1 DEF IsStep
<1>2. \A v \in Nat, i \in 1..HeaderBytes : step[<<v, i>>] = v \div Radix OBVIOUS
<1> HIDE DEF step
<1>3. PICK f : Solves(f, Nat, n, HeaderBytes, step)
    <2>1. HeaderBytes \in Nat BY HeaderHoldsLimit
    <2> QED BY <1>1, <2>1, Recursion
<1>A. /\ f \in [0..HeaderBytes -> Nat] /\ f[0] = n
      /\ \A k \in 1..HeaderBytes : f[k] = step[<<f[k - 1], k>>]
    BY <1>3 DEF Solves
<1>4. \A k \in 1..HeaderBytes : f[k] = f[k - 1] \div Radix
    <2> SUFFICES ASSUME NEW k \in 1..HeaderBytes PROVE f[k] = f[k - 1] \div Radix OBVIOUS
    <2>1. k - 1 \in 0..HeaderBytes BY HeaderHoldsLimit
    <2> QED BY <1>2, <1>A, <2>1
<1>5. Is(f) BY <1>A, <1>4, HeaderHoldsLimit
<1>6. Is(Shifted(n)) BY <1>5, Zenon DEF Shifted
<1>7. Shifted(n)[0] = n /\ \A k \in 1..HeaderBytes : Shifted(n)[k] = Shifted(n)[k - 1] \div Radix
    <2>1. 0 \in 0..HeaderBytes /\ \A k \in 1..HeaderBytes : k \in 0..HeaderBytes /\ k # 0
        BY HeaderHoldsLimit
    <2> QED BY <1>6, <2>1, Zenon
<1>8. \A k \in 0..HeaderBytes : Shifted(n)[k] = f[k]
    <2> DEFINE S == {k \in 0..HeaderBytes : Shifted(n)[k] = f[k]}
    <2>1. HeaderBytes \in Nat BY HeaderHoldsLimit
    <2>2. 0 \in S BY <1>A, <1>7, <2>1
    <2>3. \A k \in 1..HeaderBytes : k - 1 \in S => k \in S BY <1>4, <1>7, <2>1
    <2> HIDE DEF S
    <2>4. \A k \in 0..HeaderBytes : k \in S BY <2>1, <2>2, <2>3, Induction
    <2> QED BY <2>4 DEF S
<1>9. Shifted(n) \in [0..HeaderBytes -> Nat] BY <1>6, <1>8, <1>A
<1> QED BY <1>7, <1>9

\* The limit and everything below it fit the header.
LEMMA FitsHeader ==
    ASSUME NEW n \in 0..MaxFrameBytes PROVE Shifted(n)[HeaderBytes] = 0
<1> DEFINE S == {k \in 0..HeaderBytes : Shifted(n)[k] <= Shifted(MaxFrameBytes)[k]}
<1>1. HeaderBytes \in Nat /\ MaxFrameBytes \in Nat /\ n \in Nat BY HeaderHoldsLimit
<1>2. 0 \in S
    <2>1. Shifted(n)[0] = n /\ Shifted(MaxFrameBytes)[0] = MaxFrameBytes BY <1>1, ShiftedFacts
    <2> QED BY <1>1, <2>1
<1>3. ASSUME NEW k \in 1..HeaderBytes, k - 1 \in S PROVE k \in S
    <2> DEFINE x == Shifted(n)[k - 1]
               y == Shifted(MaxFrameBytes)[k - 1]
    <2>1. x \in Nat /\ y \in Nat /\ x <= y BY <1>1, <1>3, ShiftedFacts
    <2>2. Shifted(n)[k] = x \div Radix /\ Shifted(MaxFrameBytes)[k] = y \div Radix
        BY <1>1, ShiftedFacts
    <2> HIDE DEF x, y
    <2>3. x \div Radix <= y \div Radix BY <2>1, HeaderHoldsLimit
    <2> QED BY <1>1, <2>2, <2>3
<1> HIDE DEF S
<1>4. HeaderBytes \in S BY <1>1, <1>2, <1>3, Induction
<1>5. Shifted(n)[HeaderBytes] \in Nat BY <1>1, ShiftedFacts
<1> QED BY <1>4, <1>5, HeaderHoldsLimit DEF S

LEMMA HeaderFacts ==
    ASSUME NEW n \in Nat
    PROVE  Header(n) \in Seq(Bytes) /\ Len(Header(n)) = HeaderBytes
<1>1. HeaderBytes \in Nat BY HeaderHoldsLimit
<1>2. ASSUME NEW i \in 1..HeaderBytes PROVE Shifted(n)[HeaderBytes - i] % Radix \in Bytes
    <2>1. Shifted(n)[HeaderBytes - i] \in Nat BY <1>1, ShiftedFacts
    <2> QED BY <2>1, HeaderHoldsLimit DEF Bytes
<1>3. Header(n) \in [1..HeaderBytes -> Bytes] BY <1>2 DEF Header
<1> HIDE DEF Header
<1> QED BY <1>1, <1>3

\* The recursion of decode_frame_size, for any bytes.
LEMMA DeclaredFacts ==
    ASSUME NEW h, \A i \in 1..HeaderBytes : h[i] \in Bytes
    PROVE  \E v \in [0..HeaderBytes -> Nat] :
               /\ v[0] = 0 /\ \A i \in 1..HeaderBytes : v[i] = v[i - 1] * Radix + h[i]
               /\ Declared(h) = v[HeaderBytes]
<1> DEFINE step == [x \in Nat \X (1..HeaderBytes) |-> x[1] * Radix + h[x[2]]]
           Is(f) == f = [i \in 0..HeaderBytes |-> IF i = 0 THEN 0 ELSE f[i - 1] * Radix + h[i]]
           v == CHOOSE f : Is(f)
<1>0. HeaderBytes \in Nat /\ Radix \in Nat BY HeaderHoldsLimit
<1>1. IsStep(step, Nat, HeaderBytes)
    <2>1. \A x \in Nat, i \in 1..HeaderBytes : x * Radix + h[i] \in Nat BY <1>0 DEF Bytes
    <2> QED BY <2>1 DEF IsStep
<1>2. \A x \in Nat, i \in 1..HeaderBytes : step[<<x, i>>] = x * Radix + h[i] OBVIOUS
<1> HIDE DEF step
<1>3. PICK f : Solves(f, Nat, 0, HeaderBytes, step) BY <1>0, <1>1, Recursion
<1>4. /\ f \in [0..HeaderBytes -> Nat] /\ f[0] = 0
      /\ \A k \in 1..HeaderBytes : f[k] = step[<<f[k - 1], k>>]
    BY <1>3 DEF Solves
<1>5. \A i \in 1..HeaderBytes : f[i] = f[i - 1] * Radix + h[i]
    <2> SUFFICES ASSUME NEW i \in 1..HeaderBytes PROVE f[i] = f[i - 1] * Radix + h[i] OBVIOUS
    <2>1. i - 1 \in 0..HeaderBytes BY <1>0
    <2> QED BY <1>2, <1>4, <2>1
<1>6. Is(f) BY <1>0, <1>4, <1>5
<1>7. Is(v) BY <1>6, Zenon
<1>8. Declared(h) = v[HeaderBytes] BY DEF Declared
<1> HIDE DEF v
<1>9. v[0] = 0 /\ \A i \in 1..HeaderBytes : v[i] = v[i - 1] * Radix + h[i]
    <2>1. 0 \in 0..HeaderBytes /\ \A i \in 1..HeaderBytes : i \in 0..HeaderBytes /\ i # 0 BY <1>0
    <2> QED BY <1>7, <2>1, Zenon
<1>10. \A i \in 0..HeaderBytes : v[i] = f[i]
    <2> DEFINE S == {i \in 0..HeaderBytes : v[i] = f[i]}
    <2>1. 0 \in S BY <1>0, <1>4, <1>9
    <2>2. \A i \in 1..HeaderBytes : i - 1 \in S => i \in S BY <1>0, <1>5, <1>9
    <2> HIDE DEF S
    <2>3. \A i \in 0..HeaderBytes : i \in S BY <1>0, <2>1, <2>2, Induction
    <2> QED BY <2>3 DEF S
<1>11. v \in [0..HeaderBytes -> Nat] BY <1>4, <1>7, <1>10
<1> QED BY <1>8, <1>9, <1>11

\* A reader that has the digits of n, and whatever follows, gets n back.
LEMMA DeclaredHeader ==
    ASSUME NEW n \in 0..MaxFrameBytes, NEW h, \A i \in 1..HeaderBytes : h[i] = Header(n)[i]
    PROVE  Declared(h) = n
<1>0. HeaderBytes \in Nat /\ Radix \in Nat /\ Radix > 1 /\ n \in Nat BY HeaderHoldsLimit
<1>1. \A i \in 1..HeaderBytes : h[i] = Shifted(n)[HeaderBytes - i] % Radix /\ h[i] \in Bytes
    <2>1. \A i \in 1..HeaderBytes : Header(n)[i] \in Bytes BY <1>0, HeaderFacts
    <2> QED BY <2>1 DEF Header
<1>2. PICK v \in [0..HeaderBytes -> Nat] :
          /\ v[0] = 0 /\ \A i \in 1..HeaderBytes : v[i] = v[i - 1] * Radix + h[i]
          /\ Declared(h) = v[HeaderBytes]
    BY <1>1, DeclaredFacts
<1> DEFINE S == {i \in 0..HeaderBytes : v[i] = Shifted(n)[HeaderBytes - i]}
<1>3. 0 \in S BY <1>0, <1>2, FitsHeader
<1>4. ASSUME NEW i \in 1..HeaderBytes, i - 1 \in S PROVE i \in S
    <2> DEFINE x == Shifted(n)[HeaderBytes - i]
               d == x \div Radix
               m == x % Radix
    <2>1. x \in Nat BY <1>0, ShiftedFacts
    <2>2. Shifted(n)[HeaderBytes - (i - 1)] = d
        <3>1. HeaderBytes - (i - 1) \in 1..HeaderBytes /\ HeaderBytes - (i - 1) - 1 = HeaderBytes - i
            BY <1>0
        <3> QED BY <1>0, <3>1, ShiftedFacts
    <2>3. v[i - 1] = d BY <1>4, <2>2
    <2>4. h[i] = m BY <1>1
    <2>5. v[i] = d * Radix + m BY <1>2, <2>3, <2>4
    <2> HIDE DEF x
    <2>6. x = d * Radix + m
        <3>1. \A q, r : q = x \div Radix /\ r = x % Radix => x = q * Radix + r BY <1>0, <2>1
        <3> QED BY <3>1
    <2> QED BY <2>5, <2>6 DEF x
<1> HIDE DEF S
<1>5. HeaderBytes \in S
    <2>1. HeaderBytes \in Nat /\ 0 \in S /\ \A i \in 1..HeaderBytes : i - 1 \in S => i \in S
        BY <1>0, <1>3, <1>4
    <2>2. \A i \in 0..HeaderBytes : i \in S BY <2>1, Induction, Zenon
    <2> QED BY <1>0, <2>2
<1>6. v[HeaderBytes] = Shifted(n)[0] BY <1>0, <1>5 DEF S
<1> QED BY <1>0, <1>2, <1>6, ShiftedFacts
--------------------------------------------------------------------------------
(* Frames, one after the other *)

Frames == Seq(Seq(Bytes))

LEMMA Assoc == \A a, b, c \in Seq(Bytes) : (a \o b) \o c = a \o (b \o c)
BY ConcatAssociative

LEMMA ConcatIn ==
    ASSUME NEW a \in Seq(Bytes), NEW b \in Seq(Bytes)
    PROVE  a \o b \in Seq(Bytes) /\ Len(a \o b) = Len(a) + Len(b)
BY ConcatProperties

LEMMA EmptyEnd == \A a \in Seq(Bytes) : a \o <<>> = a
OBVIOUS

\* Bytes that end a string may be taken out of the innermost part.
EndMoves(a, b, c, d) ==
    /\ a \o (b \o (c \o d)) = (a \o (b \o (c \o <<>>))) \o d
    /\ a \o (b \o (c \o d)) \in Seq(Bytes) /\ a \o (b \o (c \o <<>>)) \in Seq(Bytes)

LEMMA MoveEnd ==
    ASSUME NEW a \in Seq(Bytes), NEW b \in Seq(Bytes), NEW c \in Seq(Bytes), NEW d \in Seq(Bytes)
    PROVE  EndMoves(a, b, c, d)
<1> DEFINE bc == b \o c
           cd == c \o d
           bcd == b \o cd
<1>1. c \o <<>> = c BY EmptyEnd
<1>2. bc \in Seq(Bytes) /\ cd \in Seq(Bytes) OBVIOUS
<1>3. bc \o d = b \o cd BY Assoc
<1> HIDE DEF bc, cd
<1>4. bcd \in Seq(Bytes) BY <1>2
<1>5. (a \o bc) \o d = a \o (bc \o d) BY <1>2, Assoc
<1>6. a \o bcd = (a \o bc) \o d BY <1>3, <1>5
<1> HIDE DEF bcd
<1>7. a \o bcd \in Seq(Bytes) /\ a \o bc \in Seq(Bytes) BY <1>2, <1>4
<1> QED BY <1>1, <1>6, <1>7 DEF EndMoves, bc, cd, bcd

\* What two byte strings that are the same begin with is the same.
LEMMA SameStart ==
    ASSUME NEW a \in Seq(Bytes), NEW b \in Seq(Bytes), NEW c \in Seq(Bytes), NEW d \in Seq(Bytes),
           a \o b = c \o d, Len(a) = Len(c)
    PROVE  a = c /\ b = d
<1>1. \A i \in 1..Len(a) : (a \o b)[i] = a[i] /\ (c \o d)[i] = c[i] OBVIOUS
<1>2. a = c BY <1>1, SeqEqual
<1>3. b = d BY <1>2, ConcatSimplifications
<1> QED BY <1>2, <1>3

LEMMA EncodeFacts ==
    ASSUME NEW p \in Seq(Bytes)
    PROVE  /\ Len(p) \in Nat /\ Header(Len(p)) \in Seq(Bytes) /\ Len(Header(Len(p))) = HeaderBytes
           /\ EncodeFrame(p) = Header(Len(p)) \o p
           /\ EncodeFrame(p) \in Seq(Bytes) /\ Len(EncodeFrame(p)) = HeaderBytes + Len(p)
<1>1. Len(p) \in Nat OBVIOUS
<1>2. Header(Len(p)) \in Seq(Bytes) /\ Len(Header(Len(p))) = HeaderBytes BY <1>1, HeaderFacts
<1> QED BY <1>1, <1>2 DEF EncodeFrame

\* b[i] is the bytes of the first i frames.
Laid(b, frames) ==
    /\ b \in [0..Len(frames) -> Seq(Bytes)] /\ b[0] = <<>>
    /\ \A i \in 1..Len(frames) : b[i] = b[i - 1] \o EncodeFrame(frames[i])

LEMMA SentFacts ==
    ASSUME NEW frames \in Frames
    PROVE  \E b : Laid(b, frames) /\ Sent(frames) = b[Len(frames)]
<1> DEFINE n == Len(frames)
           next(x, i) == x \o EncodeFrame(frames[i])
           step == [x \in Seq(Bytes) \X (1..n) |-> next(x[1], x[2])]
           Is(f) == f = [i \in 0..n |-> IF i = 0 THEN <<>> ELSE next(f[i - 1], i)]
           b == CHOOSE f : Is(f)
<1>0. n \in Nat /\ \A i \in 1..n : frames[i] \in Seq(Bytes) BY DEF Frames
<1> HIDE DEF n
<1>1. \A x \in Seq(Bytes), i \in 1..n : next(x, i) \in Seq(Bytes)
    <2>1. \A i \in 1..n : EncodeFrame(frames[i]) \in Seq(Bytes) BY <1>0, EncodeFacts
    <2> QED BY <2>1
<1> HIDE DEF next
<1>2. IsStep(step, Seq(Bytes), n) BY <1>1 DEF IsStep
<1>3. \A x \in Seq(Bytes), i \in 1..n : step[<<x, i>>] = next(x, i) OBVIOUS
<1> HIDE DEF step
<1>4. PICK f : Solves(f, Seq(Bytes), <<>>, n, step)
    <2>1. <<>> \in Seq(Bytes) OBVIOUS
    <2> QED BY <1>0, <1>2, <2>1, Recursion
<1>5. /\ f \in [0..n -> Seq(Bytes)] /\ f[0] = <<>>
      /\ \A k \in 1..n : f[k] = step[<<f[k - 1], k>>]
    BY <1>4 DEF Solves
<1>6. \A i \in 1..n : f[i] = next(f[i - 1], i)
    <2> SUFFICES ASSUME NEW i \in 1..n PROVE f[i] = next(f[i - 1], i) OBVIOUS
    <2>1. i - 1 \in 0..n BY <1>0
    <2> QED BY <1>3, <1>5, <2>1
<1>7. Is(f) BY <1>0, <1>5, <1>6
<1>8. Is(b) BY <1>7, Zenon
<1>9. Sent(frames) = b[n] BY Zenon DEF Sent, n, next
<1> HIDE DEF b
<1>10. b[0] = <<>> /\ \A i \in 1..n : b[i] = next(b[i - 1], i)
    <2>1. 0 \in 0..n /\ \A i \in 1..n : i \in 0..n /\ i # 0 BY <1>0
    <2> QED BY <1>8, <2>1, Zenon
<1>11. \A i \in 0..n : b[i] = f[i]
    <2> DEFINE S == {i \in 0..n : b[i] = f[i]}
    <2>1. 0 \in S BY <1>0, <1>5, <1>10
    <2>2. \A i \in 1..n : i - 1 \in S => i \in S BY <1>0, <1>6, <1>10
    <2> HIDE DEF S
    <2>3. \A i \in 0..n : i \in S BY <1>0, <2>1, <2>2, Induction
    <2> QED BY <2>3 DEF S
<1>12. b \in [0..n -> Seq(Bytes)] BY <1>5, <1>8, <1>11
<1>13. Laid(b, frames) BY <1>10, <1>12 DEF Laid, n, next
<1> QED BY <1>9, <1>13 DEF n

\* r is the first frames of s.
IsStart(r, s) == Len(r) <= Len(s) /\ \A i \in 1..Len(r) : r[i] = s[i]

\* The bytes of the first frames are the first of the bytes.
LEMMA SentStart ==
    ASSUME NEW r \in Frames, NEW s \in Frames, IsStart(r, s), NEW b, Laid(b, s)
    PROVE  Sent(r) = b[Len(r)]
<1>1. PICK a : Laid(a, r) /\ Sent(r) = a[Len(r)] BY SentFacts
<1> DEFINE S == {i \in 0..Len(r) : a[i] = b[i]}
<1>2. Len(r) \in Nat /\ Len(s) \in Nat /\ Len(r) <= Len(s) BY DEF Frames, IsStart
<1>3. 0 \in S BY <1>1, <1>2 DEF Laid
<1>4. ASSUME NEW i \in 1..Len(r), i - 1 \in S PROVE i \in S
    <2>1. i \in 1..Len(s) /\ r[i] = s[i] BY <1>2 DEF IsStart
    <2>2. a[i] = a[i - 1] \o EncodeFrame(r[i]) BY <1>1 DEF Laid
    <2>3. b[i] = b[i - 1] \o EncodeFrame(s[i]) BY <2>1 DEF Laid
    <2>4. a[i - 1] = b[i - 1] BY <1>4
    <2>5. a[i] = b[i] BY <2>1, <2>2, <2>3, <2>4
    <2> QED BY <1>2, <2>5
<1> HIDE DEF S
<1>5. Len(r) \in S
    <2>1. Len(r) \in Nat /\ 0 \in S /\ \A i \in 1..Len(r) : i - 1 \in S => i \in S BY <1>2, <1>3, <1>4
    <2>2. \A i \in 0..Len(r) : i \in S BY <2>1, Induction, Zenon
    <2> QED BY <1>2, <2>2
<1> QED BY <1>1, <1>5 DEF S

LEMMA SentType == ASSUME NEW s \in Frames PROVE Sent(s) \in Seq(Bytes)
<1>1. PICK b : Laid(b, s) /\ Sent(s) = b[Len(s)] BY SentFacts
<1>2. Len(s) \in 0..Len(s) BY DEF Frames
<1> QED BY <1>1, <1>2 DEF Laid

LEMMA SentAppend ==
    ASSUME NEW s \in Frames, NEW p \in Seq(Bytes)
    PROVE  Sent(Append(s, p)) = Sent(s) \o EncodeFrame(p)
<1> DEFINE t == Append(s, p)
<1>1. /\ t \in Frames /\ Len(s) \in Nat /\ Len(t) = Len(s) + 1
      /\ \A i \in 1..Len(s) : t[i] = s[i]
      /\ t[Len(t)] = p
    BY DEF Frames
<1> HIDE DEF t
<1>2. PICK b : Laid(b, t) /\ Sent(t) = b[Len(t)] BY <1>1, SentFacts
<1>3. Sent(s) = b[Len(s)]
    <2>1. IsStart(s, t) BY <1>1 DEF IsStart
    <2> QED BY <1>1, <1>2, <2>1, SentStart
<1>4. b[Len(t)] = b[Len(t) - 1] \o EncodeFrame(p)
    <2>1. Len(t) \in 1..Len(t) BY <1>1
    <2> QED BY <1>1, <1>2, <2>1 DEF Laid
<1>5. Len(t) - 1 = Len(s) BY <1>1
<1> QED BY <1>2, <1>3, <1>4, <1>5 DEF t

\* After the first frames comes the next one, whole, and then the others.
LEMMA SentSplit ==
    ASSUME NEW r \in Frames, NEW s \in Frames, IsStart(r, s), Len(r) < Len(s)
    PROVE  \E more \in Seq(Bytes) : Sent(s) = (Sent(r) \o EncodeFrame(s[Len(r) + 1])) \o more
<1> DEFINE k == Len(r) + 1
           n == Len(s)
<1>1. PICK b : Laid(b, s) /\ Sent(s) = b[n] BY SentFacts
<1>2. k \in Nat /\ n \in Nat /\ k \in 1..n /\ k - 1 = Len(r) BY DEF Frames
<1>3. Sent(r) = b[k - 1] BY <1>1, <1>2, SentStart
<1>4. b[k] = Sent(r) \o EncodeFrame(s[k]) BY <1>1, <1>2, <1>3 DEF Laid
<1> HIDE DEF k, n
<1> DEFINE Longer(i) == \E more \in Seq(Bytes) : b[i] = b[k] \o more
           S == {i \in 0..n : i < k \/ Longer(i)}
<1> HIDE DEF Longer
<1>5. \A i \in 0..n : b[i] \in Seq(Bytes) BY <1>1 DEF Laid, n
<1>6. 0 \in S BY <1>2
<1>7. ASSUME NEW i \in 1..n, i - 1 \in S PROVE i \in S
    <2>1. CASE i < k BY <1>2, <2>1
    <2>2. CASE i = k
        <3>1. b[k] \in Seq(Bytes) BY <1>2, <1>5
        <3>2. b[k] = b[k] \o <<>> BY <3>1
        <3>3. <<>> \in Seq(Bytes) OBVIOUS
        <3>4. Longer(i) BY <2>2, <3>2, <3>3 DEF Longer
        <3> QED BY <1>2, <3>4
    <2>3. CASE i > k
        <3>1. ~(i - 1 < k) BY <1>2, <2>3
        <3>2. PICK more \in Seq(Bytes) : b[i - 1] = b[k] \o more BY <1>7, <3>1 DEF Longer
        <3> DEFINE e == EncodeFrame(s[i])
        <3>3. b[i] = b[i - 1] \o e BY <1>1 DEF Laid, n
        <3>4. e \in Seq(Bytes)
            <4>1. s[i] \in Seq(Bytes) BY DEF Frames, n
            <4> QED BY <4>1, EncodeFacts
        <3> HIDE DEF e
        <3>5. b[k] \in Seq(Bytes) BY <1>2, <1>5
        <3>6. (b[k] \o more) \o e = b[k] \o (more \o e) BY <3>4, <3>5, Assoc
        <3>7. more \o e \in Seq(Bytes) BY <3>4
        <3>8. b[i] = b[k] \o (more \o e) BY <3>2, <3>3, <3>6
        <3>9. Longer(i) BY <3>7, <3>8 DEF Longer
        <3> QED BY <1>2, <3>9
    <2> QED BY <1>2, <2>1, <2>2, <2>3
<1> HIDE DEF S
<1>8. n \in S
    <2>1. n \in Nat /\ 0 \in S /\ \A i \in 1..n : i - 1 \in S => i \in S BY <1>2, <1>6, <1>7
    <2>2. \A i \in 0..n : i \in S BY <2>1, Induction, Zenon
    <2> QED BY <1>2, <2>2
<1>9. PICK more \in Seq(Bytes) : b[n] = b[k] \o more BY <1>2, <1>8 DEF S, Longer
<1> QED BY <1>1, <1>4, <1>9 DEF k, n
--------------------------------------------------------------------------------
(* The invariant *)

Types ==
    /\ outgoing \in Seq(Bytes) /\ channel \in Seq(Bytes) /\ buffer \in Seq(Bytes)
    /\ open \in BOOLEAN /\ foreign \in BOOLEAN
    /\ framed \in Frames /\ received \in Frames
    /\ stage \in {"header", "body", "failed"} /\ size \in Nat

Admissible(frames) == \A i \in 1..Len(frames) : Len(frames[i]) \in 1..MaxFrameBytes

\* recv_exact asks for a header or for a body of an admissible length.
ReaderSound ==
    /\ stage = "header" => size = HeaderBytes
    /\ stage = "body" => size \in 1..MaxFrameBytes
    /\ Len(buffer) <= size /\ (stage # "failed" => Len(buffer) < size)
    /\ Admissible(received)

HeaderRead == IF stage = "body" THEN Header(size) ELSE <<>>

\* From the start of the frame being read to the last byte not written yet.
Pending == HeaderRead \o (buffer \o (channel \o outgoing))

\* What the reader has returned and what is pending make up what was sent, but
\* for what was lost when the writer gave up.
Aligned ==
    ~foreign /\ stage # "failed" =>
        \E lost \in Seq(Bytes) :
            /\ open => lost = <<>>
            /\ Sent(received) \o (Pending \o lost) = Sent(framed)

StreamInv ==
    /\ Types /\ ReaderSound
    /\ ~foreign => Admissible(framed)
    /\ Aligned
    /\ FramesIntact

LEMMA HeaderReadType == ASSUME Types PROVE HeaderRead \in Seq(Bytes)
BY HeaderFacts DEF Types, HeaderRead

LEMMA StreamInit == Init => StreamInv
<1> SUFFICES ASSUME Init PROVE StreamInv OBVIOUS
<1>1. HeaderBytes \in Nat /\ HeaderBytes > 0 BY HeaderHoldsLimit
<1>2. Types
    <2>1. open \in BOOLEAN /\ foreign \in BOOLEAN BY DEF Init
    <2>2. <<>> \in Seq(Bytes) /\ <<>> \in Frames BY DEF Frames
    <2> QED BY <1>1, <2>1, <2>2 DEF Init, Types
<1>3. ReaderSound BY <1>1 DEF Init, ReaderSound, Admissible
<1>4. Admissible(framed) BY DEF Init, Admissible
<1>5. Aligned
    <2>1. Pending = <<>> BY DEF Init, Pending, HeaderRead
    <2>2. Sent(framed) \in Seq(Bytes) /\ received = framed BY <1>2, SentType DEF Types, Init
    <2> DEFINE all == Sent(framed)
    <2> HIDE DEF all
    <2>3. all \in Seq(Bytes) BY <2>2 DEF all
    <2>4. all \o (<<>> \o <<>>) = all BY <2>3
    <2>5. Sent(received) \o (Pending \o <<>>) = Sent(framed) BY <2>1, <2>2, <2>4 DEF all
    <2>6. <<>> \in Seq(Bytes) OBVIOUS
    <2> QED BY <2>5, <2>6 DEF Aligned
<1>6. FramesIntact BY DEF Init, FramesIntact
<1> QED BY <1>2, <1>3, <1>4, <1>5, <1>6 DEF StreamInv

LEMMA SendFramedKeeps ==
    ASSUME StreamInv, NEW payload \in Payloads, SendFramed(payload) PROVE StreamInv'
<1> USE DEF StreamInv
<1> DEFINE enc == EncodeFrame(payload)
<1>1. /\ open /\ outgoing = <<>> /\ outgoing' = enc /\ framed' = Append(framed, payload)
      /\ UNCHANGED <<channel, open, foreign, stage, size, buffer, received>>
    BY DEF SendFramed, readerVars
<1>2. payload \in Seq(Bytes) /\ Len(payload) \in 1..MaxFrameBytes
    <2>1. payload \in Seq(Bytes) BY BytesAreBytes
    <2>2. payload # <<>> /\ ~(Len(payload) > MaxFrameBytes) BY DEF SendFramed, EncodeThrows
    <2> QED BY <2>1, <2>2, HeaderHoldsLimit
<1>3. enc \in Seq(Bytes) BY <1>2, EncodeFacts
<1>4. /\ framed \in Frames /\ framed' \in Frames /\ Len(framed) \in Nat
      /\ Len(framed') = Len(framed) + 1 /\ framed'[Len(framed) + 1] = payload
      /\ \A i \in 1..Len(framed) : framed'[i] = framed[i]
    BY <1>1, <1>2 DEF Types, Frames
<1> HIDE DEF enc
<1>5. Types' BY <1>1, <1>3, <1>4 DEF Types
<1>6. ReaderSound' BY <1>1 DEF ReaderSound, Admissible
<1>7. (~foreign => Admissible(framed))' BY <1>1, <1>2, <1>4 DEF Admissible
<1>8. Aligned'
    <2> SUFFICES ASSUME ~foreign, stage # "failed"
                 PROVE  \E lost \in Seq(Bytes) :
                            /\ open' => lost = <<>>
                            /\ Sent(received') \o (Pending' \o lost) = Sent(framed')
        BY <1>1 DEF Aligned
    <2>1. Sent(received) \o (Pending \o <<>>) = Sent(framed) BY <1>1 DEF Aligned
    <2>2. Sent(framed') = Sent(framed) \o enc BY <1>1, <1>2, <1>4, SentAppend DEF enc
    <2>3. HeaderRead \in Seq(Bytes) /\ HeaderRead' = HeaderRead
        BY <1>1, HeaderReadType DEF HeaderRead
    <2> DEFINE h == HeaderRead
               d == Sent(received)
    <2> HIDE DEF h, d
    <2>4. /\ h \in Seq(Bytes) /\ d \in Seq(Bytes) /\ buffer \in Seq(Bytes) /\ channel \in Seq(Bytes)
          /\ enc \in Seq(Bytes)
        BY <1>3, <2>3, SentType DEF h, d, Types
    <2>5. d \o ((h \o (buffer \o (channel \o enc))) \o <<>>)
            = (d \o ((h \o (buffer \o (channel \o <<>>))) \o <<>>)) \o enc
        <3> DEFINE x == h \o (buffer \o (channel \o <<>>))
                   y == h \o (buffer \o (channel \o enc))
        <3>1. EndMoves(h, buffer, channel, enc) BY <2>4, MoveEnd
        <3>2. y = x \o enc /\ x \in Seq(Bytes) /\ y \in Seq(Bytes) BY <3>1 DEF EndMoves
        <3> HIDE DEF x, y
        <3>3. x \o <<>> = x /\ y \o <<>> = y BY <3>2, EmptyEnd
        <3>4. (d \o x) \o enc = d \o (x \o enc)
            <4>1. d \in Seq(Bytes) /\ x \in Seq(Bytes) /\ enc \in Seq(Bytes) BY <2>4, <3>2
            <4> QED BY <4>1, Assoc
        <3>5. d \o (y \o <<>>) = (d \o (x \o <<>>)) \o enc BY <3>2, <3>3, <3>4
        <3> QED BY <3>5 DEF x, y
    <2>6. Pending = h \o (buffer \o (channel \o <<>>)) /\ Pending' = h \o (buffer \o (channel \o enc))
        BY <1>1, <2>3 DEF Pending, h
    <2>7. Sent(received') \o (Pending' \o <<>>) = Sent(framed')
        BY <1>1, <2>1, <2>2, <2>5, <2>6 DEF d
    <2>8. <<>> \in Seq(Bytes) OBVIOUS
    <2> QED BY <2>7, <2>8
<1>9. FramesIntact'
    <2>1. received \in Frames /\ Len(received) \in Nat BY DEF Types, Frames
    <2> QED BY <1>1, <1>4, <2>1 DEF FramesIntact
<1> QED BY <1>5, <1>6, <1>7, <1>8, <1>9

LEMMA SendRawKeeps ==
    ASSUME StreamInv, NEW bytes \in RawWrites, SendRaw(bytes) PROVE StreamInv'
<1> USE DEF StreamInv
<1>1. /\ outgoing' = bytes /\ framed' = Append(framed, <<>>) /\ foreign' = TRUE
      /\ UNCHANGED <<channel, open, stage, size, buffer, received>>
    BY DEF SendRaw, readerVars
<1>2. bytes \in Seq(Bytes) /\ framed' \in Frames BY <1>1, BytesAreBytes DEF Types, Frames
<1>3. Types' BY <1>1, <1>2 DEF Types
<1>4. ReaderSound' BY <1>1 DEF ReaderSound, Admissible
<1>5. Aligned' /\ FramesIntact' /\ foreign' BY <1>1 DEF Aligned, FramesIntact
<1> QED BY <1>3, <1>4, <1>5

\* The two parts of a byte string cut after n bytes.
LEMMA Cut ==
    ASSUME NEW s \in Seq(Bytes), NEW n \in 1..Len(s)
    PROVE  /\ SubSeq(s, 1, n) \in Seq(Bytes) /\ Len(SubSeq(s, 1, n)) = n
           /\ SubSeq(s, n + 1, Len(s)) \in Seq(Bytes)
           /\ SubSeq(s, 1, n) \o SubSeq(s, n + 1, Len(s)) = s
<1>1. Len(s) \in Nat OBVIOUS
<1>2. SubSeq(s, 1, n) \in Seq(Bytes) /\ Len(SubSeq(s, 1, n)) = n BY <1>1
<1>3. SubSeq(s, n + 1, Len(s)) \in Seq(Bytes) BY <1>1
<1>4. SubSeq(s, 1, n) \o SubSeq(s, n + 1, Len(s)) = SubSeq(s, 1, Len(s))
    BY <1>1, ConcatAdjacentSubSeq
<1>5. SubSeq(s, 1, Len(s)) = s BY SubSeqFull
<1> QED BY <1>2, <1>3, <1>4, <1>5

\* A step that leaves the frames and the pending bytes as they are.
LEMMA AlignedKept ==
    ASSUME Aligned, UNCHANGED <<framed, foreign, open, received>>, stage # "failed",
           Pending' = Pending
    PROVE  Aligned'
BY DEF Aligned

LEMMA WriteSomeKeeps ==
    ASSUME StreamInv, NEW n \in 1..Len(outgoing), WriteSome(n) PROVE StreamInv'
<1> USE DEF StreamInv
<1> DEFINE taken == SubSeq(outgoing, 1, n)
           left == SubSeq(outgoing, n + 1, Len(outgoing))
<1>1. /\ channel' = channel \o taken /\ outgoing' = left
      /\ UNCHANGED <<open, framed, foreign, stage, size, buffer, received>>
    BY DEF WriteSome, readerVars
<1>2. taken \in Seq(Bytes) /\ left \in Seq(Bytes) /\ taken \o left = outgoing BY Cut DEF Types
<1> HIDE DEF taken, left
<1>3. Types' BY <1>1, <1>2 DEF Types
<1>4. ReaderSound' BY <1>1 DEF ReaderSound, Admissible
<1>5. Aligned'
    <2>1. channel' \o outgoing' = channel \o outgoing
        <3>1. (channel \o taken) \o left = channel \o (taken \o left) BY <1>2, Assoc DEF Types
        <3> QED BY <1>1, <1>2, <3>1
    <2>2. Pending' = Pending BY <1>1, <2>1 DEF Pending, HeaderRead
    <2> QED BY <1>1, <2>2, AlignedKept DEF Aligned
<1>6. FramesIntact' /\ (~foreign => Admissible(framed))' BY <1>1 DEF FramesIntact, Admissible
<1> QED BY <1>3, <1>4, <1>5, <1>6

LEMMA WriterClosesKeeps == ASSUME StreamInv, WriterCloses PROVE StreamInv'
<1> USE DEF StreamInv
<1>1. /\ open' = FALSE /\ outgoing' = <<>> /\ open
      /\ UNCHANGED <<channel, framed, foreign, stage, size, buffer, received>>
    BY DEF WriterCloses, readerVars
<1>2. Types'
    <2>1. open' \in BOOLEAN BY <1>1
    <2>2. outgoing' \in Seq(Bytes) BY <1>1
    <2> QED BY <1>1, <2>1, <2>2 DEF Types
<1>3. ReaderSound' BY <1>1 DEF ReaderSound, Admissible
<1>4. Aligned'
    <2> SUFFICES ASSUME ~foreign, stage # "failed"
                 PROVE  \E lost \in Seq(Bytes) :
                            /\ open' => lost = <<>>
                            /\ Sent(received') \o (Pending' \o lost) = Sent(framed')
        BY <1>1 DEF Aligned
    <2>1. Sent(received) \o (Pending \o <<>>) = Sent(framed) BY <1>1 DEF Aligned
    <2> DEFINE h == HeaderRead
    <2>2. h \in Seq(Bytes) /\ h' = h BY <1>1, HeaderReadType DEF HeaderRead
    <2> HIDE DEF h
    <2>3. /\ h \in Seq(Bytes) /\ buffer \in Seq(Bytes) /\ channel \in Seq(Bytes)
          /\ outgoing \in Seq(Bytes)
        BY <2>2 DEF Types
    <2>4. (h \o (buffer \o (channel \o outgoing))) \o <<>>
            = (h \o (buffer \o (channel \o <<>>))) \o outgoing
        <3> DEFINE x == h \o (buffer \o (channel \o <<>>))
                   y == h \o (buffer \o (channel \o outgoing))
        <3>1. EndMoves(h, buffer, channel, outgoing) BY <2>3, MoveEnd
        <3>2. y = x \o outgoing /\ y \in Seq(Bytes) BY <3>1 DEF EndMoves
        <3> HIDE DEF x, y
        <3>3. y \o <<>> = y BY <3>2, EmptyEnd
        <3>4. y \o <<>> = x \o outgoing BY <3>2, <3>3
        <3> QED BY <3>4 DEF x, y
    <2>5. Pending \o <<>> = Pending' \o outgoing BY <1>1, <2>2, <2>4 DEF Pending, h
    <2>6. Sent(received') \o (Pending' \o outgoing) = Sent(framed') BY <1>1, <2>1, <2>5
    <2> QED BY <1>1, <2>3, <2>6
<1>5. FramesIntact' /\ (~foreign => Admissible(framed))' BY <1>1 DEF FramesIntact, Admissible
<1> QED BY <1>2, <1>3, <1>4, <1>5

\* What is pending begins with the next frame that was sent, whole.
LEMMA NextFrame ==
    ASSUME Types, FramesIntact, Admissible(framed), ~foreign,
           NEW x \in Seq(Bytes), x # <<>>, Sent(received) \o x = Sent(framed)
    PROVE  LET f == framed[Len(received) + 1]
           IN  /\ f \in Seq(Bytes) /\ Len(f) \in 1..MaxFrameBytes
               /\ Len(received) < Len(framed)
               /\ \E more \in Seq(Bytes) :
                     /\ x = Header(Len(f)) \o (f \o more)
                     /\ Sent(framed) = (Sent(received) \o EncodeFrame(f)) \o more
<1> DEFINE f == framed[Len(received) + 1]
           done == Sent(received)
           all == Sent(framed)
           enc == EncodeFrame(f)
<1>1. /\ received \in Frames /\ framed \in Frames /\ IsStart(received, framed)
      /\ Len(received) \in Nat /\ Len(framed) \in Nat
    BY DEF Types, FramesIntact, IsStart, Frames
<1>2. done \in Seq(Bytes) /\ all \in Seq(Bytes) BY <1>1, SentType
<1>3. Len(received) < Len(framed)
    <2> SUFFICES ASSUME Len(received) = Len(framed) PROVE FALSE BY <1>1 DEF IsStart
    <2>1. received = framed BY <1>1, SeqEqual DEF Frames, IsStart
    <2>2. done = all BY <2>1
    <2> HIDE DEF done, all
    <2>3. done \o x = done BY <2>2 DEF done, all
    <2> QED BY <1>2, <2>3, ConcatSimplifications
<1>4. f \in Seq(Bytes) /\ Len(f) \in 1..MaxFrameBytes
    <2>1. Len(received) + 1 \in 1..Len(framed) BY <1>1, <1>3
    <2> QED BY <1>1, <2>1 DEF Frames, Admissible
<1>5. PICK more \in Seq(Bytes) : all = (done \o enc) \o more BY <1>1, <1>3, SentSplit
<1>6. /\ enc \in Seq(Bytes) /\ enc = Header(Len(f)) \o f /\ Header(Len(f)) \in Seq(Bytes)
    BY <1>4, EncodeFacts
<1>7. x = enc \o more
    <2> HIDE DEF done, all, enc
    <2>1. (done \o enc) \o more = done \o (enc \o more)
        <3>1. done \in Seq(Bytes) /\ enc \in Seq(Bytes) BY <1>2, <1>6
        <3> QED BY <3>1, Assoc
    <2>2. enc \o more \in Seq(Bytes) BY <1>6
    <2> DEFINE y == enc \o more
    <2>3. done \o x = done \o y BY <1>5, <2>1 DEF done, all
    <2> HIDE DEF y
    <2>4. x = y BY <1>2, <2>2, <2>3, ConcatSimplifications DEF y
    <2> QED BY <2>4 DEF y
<1>8. enc \o more = Header(Len(f)) \o (f \o more)
    <2> DEFINE h == Header(Len(f))
    <2> HIDE DEF f, h
    <2>1. h \in Seq(Bytes) /\ f \in Seq(Bytes) BY <1>4, <1>6 DEF h
    <2>2. (h \o f) \o more = h \o (f \o more) BY <2>1, Assoc
    <2> QED BY <1>6, <2>2 DEF h
<1> QED BY <1>3, <1>4, <1>5, <1>7, <1>8

\* What one ::recv leaves: the bytes it took are behind those already received.
LEMMA ReadFacts ==
    ASSUME StreamInv, NEW n \in 1..Len(channel), ReadSome(n)
    PROVE  \E got, w \in Seq(Bytes) :
               /\ Len(got) <= size /\ stage # "failed"
               /\ channel' \in Seq(Bytes) /\ w = channel' \o outgoing
               /\ Pending = HeaderRead \o (got \o w)
               /\ \/ Len(got) < size /\ buffer' = got /\ UNCHANGED <<stage, size, received>>
                  \/ Len(got) = size /\ stage = "header" /\ HeaderComplete(got)
                  \/ Len(got) = size /\ stage = "body" /\ BodyComplete(got)
<1> DEFINE taken == SubSeq(channel, 1, n)
           left == SubSeq(channel, n + 1, Len(channel))
           got == buffer \o taken
           w == left \o outgoing
<1>1. channel \in Seq(Bytes) /\ outgoing \in Seq(Bytes) /\ buffer \in Seq(Bytes)
    BY DEF StreamInv, Types
<1>2. taken \in Seq(Bytes) /\ left \in Seq(Bytes) /\ taken \o left = channel /\ Len(taken) = n
    BY <1>1, Cut
<1>3. /\ stage # "failed" /\ n <= size - Len(buffer) /\ channel' = left
      /\ \/ Len(got) < size /\ buffer' = got /\ UNCHANGED <<stage, size, received>>
         \/ Len(got) = size /\ stage = "header" /\ HeaderComplete(got)
         \/ Len(got) = size /\ stage = "body" /\ BodyComplete(got)
    BY DEF ReadSome
<1> HIDE DEF taken, left
<1>4. got \in Seq(Bytes) /\ w \in Seq(Bytes) /\ Len(got) = Len(buffer) + n
    <2>1. taken \in Seq(Bytes) /\ left \in Seq(Bytes) /\ Len(taken) = n BY <1>2
    <2>2. buffer \o taken \in Seq(Bytes) /\ Len(buffer \o taken) = Len(buffer) + Len(taken)
        BY <1>1, <2>1, ConcatIn
    <2>3. left \o outgoing \in Seq(Bytes) BY <1>1, <2>1, ConcatIn
    <2> QED BY <2>1, <2>2, <2>3
<1>5. Len(got) <= size BY <1>1, <1>3, <1>4 DEF StreamInv, Types
<1>6. buffer \o (channel \o outgoing) = got \o w
    <2>1. (taken \o left) \o outgoing = taken \o (left \o outgoing)
        <3>1. taken \in Seq(Bytes) /\ left \in Seq(Bytes) BY <1>2
        <3> QED BY <1>1, <3>1, Assoc
    <2>2. channel \o outgoing = taken \o w BY <1>2, <2>1
    <2>3. (buffer \o taken) \o w = buffer \o (taken \o w)
        <3>1. taken \in Seq(Bytes) /\ w \in Seq(Bytes) BY <1>2, <1>4
        <3> HIDE DEF w
        <3> QED BY <1>1, <3>1, Assoc
    <2> QED BY <2>2, <2>3
<1> HIDE DEF got, w
<1>7. Pending = HeaderRead \o (got \o w) BY <1>6 DEF Pending
<1>8. w = channel' \o outgoing /\ channel' \in Seq(Bytes) BY <1>2, <1>3 DEF w
<1> QED BY <1>3, <1>4, <1>5, <1>7, <1>8

LEMMA ReadSomeKeeps ==
    ASSUME StreamInv, NEW n \in 1..Len(channel), ReadSome(n) PROVE StreamInv'
<1> USE DEF StreamInv
<1>1. PICK got \in Seq(Bytes), w \in Seq(Bytes) :
          /\ Len(got) <= size /\ stage # "failed"
          /\ channel' \in Seq(Bytes) /\ w = channel' \o outgoing
          /\ Pending = HeaderRead \o (got \o w)
          /\ \/ Len(got) < size /\ buffer' = got /\ UNCHANGED <<stage, size, received>>
             \/ Len(got) = size /\ stage = "header" /\ HeaderComplete(got)
             \/ Len(got) = size /\ stage = "body" /\ BodyComplete(got)
    BY ReadFacts
<1>2. UNCHANGED <<outgoing, open, framed, foreign>> BY DEF ReadSome, writerVars
<1>3. got \o w \in Seq(Bytes) /\ Len(got) \in Nat BY <1>1
<1>4. (~foreign => Admissible(framed))' BY <1>2 DEF Admissible
<1>5. CASE Len(got) < size /\ buffer' = got /\ UNCHANGED <<stage, size, received>>
    <2>1. Types' BY <1>1, <1>2, <1>5 DEF Types
    <2>2. ReaderSound'
        <3>1. received' = received /\ Admissible(received) BY <1>5 DEF ReaderSound
        <3>2. Admissible(received)' BY <3>1 DEF Admissible
        <3>3. /\ (stage = "header" => size = HeaderBytes)'
              /\ (stage = "body" => size \in 1..MaxFrameBytes)'
            BY <1>5 DEF ReaderSound
        <3>4. (Len(buffer) <= size)' /\ (Len(buffer) < size)' BY <1>1, <1>3, <1>5
        <3> QED BY <3>2, <3>3, <3>4 DEF ReaderSound
    <2>3. Aligned'
        <3>1. Pending' = Pending BY <1>1, <1>2, <1>5 DEF Pending, HeaderRead
        <3> QED BY <1>1, <1>2, <1>5, <3>1, AlignedKept
    <2>4. FramesIntact' BY <1>2, <1>5 DEF FramesIntact
    <2> QED BY <1>4, <2>1, <2>2, <2>3, <2>4
<1>6. CASE Len(got) = size /\ stage = "header" /\ HeaderComplete(got)
    <2>1. Len(got) = HeaderBytes BY <1>6 DEF ReaderSound
    <2>2. UNCHANGED received BY <1>6 DEF HeaderComplete
    <2>3. FramesIntact' BY <1>2, <2>2 DEF FramesIntact
    <2>4. CASE DecodeSizeThrows(got)
        <3>1. stage' = "failed" /\ UNCHANGED <<size, buffer, received>>
            BY <1>6, <2>4 DEF HeaderComplete
        <3>2. Types' BY <1>1, <1>2, <3>1 DEF Types
        <3>3. ReaderSound' BY <3>1 DEF ReaderSound, Admissible
        <3>4. Aligned' BY <3>1 DEF Aligned
        <3> QED BY <1>4, <2>3, <3>2, <3>3, <3>4
    <2>5. CASE ~DecodeSizeThrows(got)
        <3>1. stage' = "body" /\ size' = Declared(got) /\ buffer' = <<>>
            BY <1>6, <2>5 DEF HeaderComplete
        <3>2. Declared(got) \in 1..MaxFrameBytes
            <4>1. \A i \in 1..HeaderBytes : got[i] \in Bytes BY <1>1, <2>1
            <4>2. Declared(got) \in Nat
                <5>1. PICK v \in [0..HeaderBytes -> Nat] : Declared(got) = v[HeaderBytes]
                    BY <4>1, DeclaredFacts
                <5>2. HeaderBytes \in 0..HeaderBytes BY HeaderHoldsLimit
                <5> QED BY <5>1, <5>2
            <4> QED BY <2>5, <4>2, HeaderHoldsLimit DEF DecodeSizeThrows
        <3>3. Types' BY <1>1, <1>2, <2>2, <3>1, <3>2 DEF Types
        <3>4. ReaderSound' BY <2>2, <3>1, <3>2 DEF ReaderSound, Admissible
        <3>5. Aligned'
            <4> SUFFICES ASSUME ~foreign PROVE Aligned' BY <1>2 DEF Aligned
            <4>1. PICK lost \in Seq(Bytes) :
                      Sent(received) \o (Pending \o lost) = Sent(framed)
                BY <1>1 DEF Aligned
            <4> DEFINE v == w \o lost
                       x == got \o v
            <4>2. v \in Seq(Bytes) BY <1>1
            <4>3. Pending \o lost = x
                <5>1. HeaderRead = <<>> BY <1>6 DEF HeaderRead
                <5>2. <<>> \o (got \o w) = got \o w BY <1>3, ConcatEmptySeq
                <5>3. (got \o w) \o lost = got \o (w \o lost) BY Assoc
                <5> QED BY <1>1, <5>1, <5>2, <5>3
            <4> HIDE DEF v
            <4>4. x \in Seq(Bytes) /\ x # <<>> BY <2>1, <4>2, HeaderHoldsLimit
            <4> HIDE DEF x
            <4>5. Sent(received) \o x = Sent(framed) BY <4>1, <4>3
            <4> DEFINE f == framed[Len(received) + 1]
            <4>6. PICK more \in Seq(Bytes) :
                      /\ f \in Seq(Bytes) /\ Len(f) \in 1..MaxFrameBytes
                      /\ x = Header(Len(f)) \o (f \o more)
                BY <4>4, <4>5, NextFrame
            <4> HIDE DEF f
            <4>7. Header(Len(f)) \in Seq(Bytes) /\ Len(Header(Len(f))) = HeaderBytes
                BY <4>6, EncodeFacts
            <4>8. got = Header(Len(f))
                <5> DEFINE h == Header(Len(f))
                           y == f \o more
                <5>1. y \in Seq(Bytes) BY <4>6
                <5>2. h \in Seq(Bytes) /\ Len(got) = Len(h) BY <2>1, <4>7
                <5>3. got \o v = h \o y BY <4>6 DEF x
                <5> HIDE DEF h, y
                <5>4. got = h BY <4>2, <5>1, <5>2, <5>3, SameStart
                <5> QED BY <5>4 DEF h
            <4>9. Declared(got) = Len(f)
                <5>1. Len(f) \in 0..MaxFrameBytes BY <4>6
                <5> QED BY <4>8, <5>1, DeclaredHeader
            <4>10. HeaderRead' = got BY <3>1, <4>8, <4>9 DEF HeaderRead
            <4>11. Pending' = Pending
                <5>1. <<>> \o w = w BY ConcatEmptySeq
                <5>2. Pending' = got \o (<<>> \o w) BY <1>1, <1>2, <3>1, <4>10 DEF Pending
                <5>3. HeaderRead = <<>> BY <1>6 DEF HeaderRead
                <5>4. <<>> \o (got \o w) = got \o w BY <1>3, ConcatEmptySeq
                <5> QED BY <1>1, <5>1, <5>2, <5>3, <5>4
            <4> QED BY <1>1, <1>2, <2>2, <4>11, AlignedKept
        <3> QED BY <1>4, <2>3, <3>3, <3>4, <3>5
    <2> QED BY <2>4, <2>5
<1>7. CASE Len(got) = size /\ stage = "body" /\ BodyComplete(got)
    <2>1. /\ received' = Append(received, got) /\ stage' = "header"
          /\ size' = HeaderBytes /\ buffer' = <<>>
        BY <1>7 DEF BodyComplete
    <2>2. size \in 1..MaxFrameBytes BY <1>7 DEF ReaderSound
    <2>3. /\ received \in Frames /\ received' \in Frames /\ Len(received) \in Nat
          /\ Len(received') = Len(received) + 1 /\ received'[Len(received) + 1] = got
          /\ \A i \in 1..Len(received) : received'[i] = received[i]
        BY <1>1, <2>1 DEF Types, Frames
    <2>4. Types'
        <3>1. HeaderBytes \in Nat /\ <<>> \in Seq(Bytes) BY HeaderHoldsLimit
        <3> QED BY <1>1, <1>2, <2>1, <2>3, <3>1 DEF Types
    <2>5. ReaderSound'
        <3>1. HeaderBytes \in Nat /\ HeaderBytes > 0 BY HeaderHoldsLimit
        <3>2. Admissible(received)' BY <1>7, <2>2, <2>3 DEF ReaderSound, Admissible
        <3> QED BY <2>1, <3>1, <3>2 DEF ReaderSound
    <2>6. Aligned' /\ FramesIntact'
        <3> SUFFICES ASSUME ~foreign PROVE Aligned' /\ FramesIntact'
            BY <1>2 DEF Aligned, FramesIntact
        <3>1. PICK lost \in Seq(Bytes) :
                  (open => lost = <<>>) /\ Sent(received) \o (Pending \o lost) = Sent(framed)
            BY <1>1 DEF Aligned
        <3> DEFINE v == w \o lost
                   h == Header(size)
                   x == h \o (got \o v)
        <3>2. v \in Seq(Bytes) /\ h \in Seq(Bytes) /\ Len(h) = HeaderBytes
            BY <1>1, <2>2, HeaderFacts
        <3>3. Pending \o lost = x
            <4> DEFINE gw == got \o w
            <4>1. HeaderRead = h BY <1>7 DEF HeaderRead
            <4>2. gw \o lost = got \o v BY Assoc
            <4> HIDE DEF h, v
            <4>3. gw \in Seq(Bytes) BY <1>3
            <4>4. Pending = h \o gw BY <1>1, <4>1
            <4>5. h \in Seq(Bytes) BY <3>2
            <4> HIDE DEF gw, x
            <4>6. (h \o gw) \o lost = h \o (gw \o lost) BY <4>3, <4>5, Assoc
            <4> QED BY <4>2, <4>4, <4>6 DEF x
        <3> HIDE DEF v, h
        <3>4. x \in Seq(Bytes) /\ x # <<>>
            <4>1. got \o v \in Seq(Bytes) BY <3>2
            <4> QED BY <3>2, <4>1, HeaderHoldsLimit
        <3> HIDE DEF x
        <3>5. Sent(received) \o x = Sent(framed) BY <3>1, <3>3
        <3> DEFINE f == framed[Len(received) + 1]
        <3>6. PICK more \in Seq(Bytes) :
                  /\ f \in Seq(Bytes) /\ Len(f) \in 1..MaxFrameBytes /\ Len(received) < Len(framed)
                  /\ x = Header(Len(f)) \o (f \o more)
                  /\ Sent(framed) = (Sent(received) \o EncodeFrame(f)) \o more
            BY <3>4, <3>5, NextFrame
        <3> HIDE DEF f
        <3>7. Header(Len(f)) \in Seq(Bytes) /\ Len(Header(Len(f))) = HeaderBytes BY <3>6, EncodeFacts
        <3>8. h = Header(Len(f)) /\ got \o v = f \o more
            <4> DEFINE k == Header(Len(f))
                       y == f \o more
                       z == got \o v
            <4>1. y \in Seq(Bytes) BY <3>6
            <4>2. z \in Seq(Bytes) BY <3>2
            <4>3. k \in Seq(Bytes) /\ Len(h) = Len(k) BY <3>2, <3>7
            <4>4. h \o z = k \o y BY <3>6 DEF x
            <4> HIDE DEF k, y, z
            <4>5. h = k /\ z = y BY <3>2, <4>1, <4>2, <4>3, <4>4, SameStart
            <4> QED BY <4>5 DEF k, y, z
        <3>9. size = Len(f)
            <4>1. size \in 0..MaxFrameBytes /\ Len(f) \in 0..MaxFrameBytes BY <2>2, <3>6
            <4>2. Declared(h) = size BY <4>1, DeclaredHeader DEF h
            <4>3. Declared(h) = Len(f) BY <3>8, <4>1, DeclaredHeader
            <4> QED BY <4>2, <4>3
        <3>10. got = f /\ v = more
            <4>1. Len(got) = Len(f) BY <1>7, <3>9
            <4> QED BY <3>2, <3>6, <3>8, <4>1, SameStart
        <3>11. Aligned'
            <4>1. Sent(received') = Sent(received) \o EncodeFrame(f)
                BY <2>1, <2>3, <3>6, <3>10, SentAppend
            <4>2. Pending' = w
                <5>1. <<>> \o w = w BY ConcatEmptySeq
                <5>2. HeaderRead' = <<>> BY <2>1 DEF HeaderRead
                <5>3. Pending' = <<>> \o (<<>> \o w) BY <1>1, <1>2, <2>1, <5>2 DEF Pending
                <5> QED BY <5>1, <5>3
            <4>3. Sent(received') \o (Pending' \o lost) = Sent(framed')
                BY <1>2, <3>6, <3>10, <4>1, <4>2 DEF v
            <4> QED BY <1>2, <3>1, <4>3 DEF Aligned
        <3>12. FramesIntact'
            <4>1. /\ Len(received) + 1 <= Len(framed)
                  /\ \A i \in 1..Len(received) : received[i] = framed[i]
                BY <2>3, <3>6 DEF FramesIntact, Types, Frames
            <4>2. received'[Len(received) + 1] = framed[Len(received) + 1] BY <2>3, <3>10 DEF f
            <4>3. \A i \in 1..(Len(received) + 1) : i \in 1..Len(received) \/ i = Len(received) + 1
                BY <2>3
            <4> QED BY <1>2, <2>3, <4>1, <4>2, <4>3 DEF FramesIntact
        <3> QED BY <3>11, <3>12
    <2> QED BY <1>4, <2>4, <2>5, <2>6
<1> QED BY <1>1, <1>5, <1>6, <1>7

LEMMA ReadFailsKeeps == ASSUME StreamInv, ReadFails PROVE StreamInv'
<1> USE DEF StreamInv
<1>1. stage' = "failed" /\ UNCHANGED <<size, buffer, received, channel, outgoing, open, framed, foreign>>
    BY DEF ReadFails, writerVars
<1>2. Types' BY <1>1 DEF Types
<1>3. ReaderSound' BY <1>1 DEF ReaderSound, Admissible
<1>4. Aligned' BY <1>1 DEF Aligned
<1>5. FramesIntact' /\ (~foreign => Admissible(framed))' BY <1>1 DEF FramesIntact, Admissible
<1> QED BY <1>2, <1>3, <1>4, <1>5
--------------------------------------------------------------------------------
(* What the invariant says of every reachable state *)

\* The invariant holds of every state, however reads and writes are split and
\* wherever the stream ends.
THEOREM StreamInvariant == Spec => []StreamInv
<1>1. Init => StreamInv BY StreamInit
<1>2. StreamInv /\ [Next]_vars => StreamInv'
    <2> SUFFICES ASSUME StreamInv, [Next]_vars PROVE StreamInv' OBVIOUS
    <2>1. CASE \E payload \in Payloads : SendFramed(payload) BY <2>1, SendFramedKeeps
    <2>2. CASE \E bytes \in RawWrites : SendRaw(bytes) BY <2>2, SendRawKeeps
    <2>3. CASE \E n \in 1..Len(outgoing) : WriteSome(n) BY <2>3, WriteSomeKeeps
    <2>4. CASE WriterCloses BY <2>4, WriterClosesKeeps
    <2>5. CASE \E n \in 1..Len(channel) : ReadSome(n) BY <2>5, ReadSomeKeeps
    <2>6. CASE ReadFails BY <2>6, ReadFailsKeeps
    <2>7. CASE UNCHANGED vars
        BY <2>7 DEF vars, writerVars, readerVars, StreamInv, Types, ReaderSound, Admissible,
                    Aligned, Pending, HeaderRead, FramesIntact
    <2> QED BY <2>1, <2>2, <2>3, <2>4, <2>5, <2>6, <2>7 DEF Next, Read
<1> QED BY <1>1, <1>2, PTL DEF Spec

\* The frames returned are the frames sent, whole, in order and each once.
THEOREM FramesIntactHolds == Spec => []FramesIntact
<1>1. StreamInv => FramesIntact BY DEF StreamInv
<1> QED BY <1>1, StreamInvariant, PTL

\* As long as the writer holds its end and speaks in frames, the reader's place
\* in the stream is the writer's.
THEOREM StreamAlignedHolds == Spec => []StreamAligned
<1>1. StreamInv => StreamAligned
    <2> SUFFICES ASSUME StreamInv, open, ~foreign, stage # "failed"
                 PROVE  Sent(received) \o HeaderRead \o buffer \o channel \o outgoing = Sent(framed)
        BY DEF StreamAligned, HeaderRead
    <2> DEFINE d == Sent(received)
               h == HeaderRead
               co == channel \o outgoing
               bco == buffer \o co
               hbco == h \o bco
               dh == d \o h
               dhb == dh \o buffer
    <2>1. d \o (hbco \o <<>>) = Sent(framed) BY DEF StreamInv, Aligned, Pending
    <2>2. /\ d \in Seq(Bytes) /\ h \in Seq(Bytes) /\ buffer \in Seq(Bytes)
          /\ channel \in Seq(Bytes) /\ outgoing \in Seq(Bytes)
        BY SentType, HeaderReadType DEF StreamInv, Types
    <2> HIDE DEF d, h
    <2>3. co \in Seq(Bytes) /\ dh \in Seq(Bytes) BY <2>2
    <2>4. (dhb \o channel) \o outgoing = dhb \o co
        <3>1. dhb \in Seq(Bytes) BY <2>2, <2>3
        <3> HIDE DEF dhb
        <3> QED BY <2>2, <3>1, Assoc
    <2>5. dhb \o co = dh \o bco
        <3>1. buffer \in Seq(Bytes) BY <2>2
        <3> HIDE DEF dh, co
        <3>2. (dh \o buffer) \o co = dh \o (buffer \o co) BY <2>3, <3>1, Assoc
        <3> QED BY <3>2
    <2>6. bco \in Seq(Bytes)
        <3> HIDE DEF co
        <3> QED BY <2>2, <2>3
    <2>7. dh \o bco = d \o hbco
        <3> HIDE DEF bco
        <3> QED BY <2>2, <2>6, Assoc
    <2>8. hbco \o <<>> = hbco
        <3> HIDE DEF bco
        <3>1. hbco \in Seq(Bytes) BY <2>2, <2>6
        <3> HIDE DEF hbco
        <3> QED BY <3>1, EmptyEnd
    <2>9. (dhb \o channel) \o outgoing = Sent(framed)
        <3> HIDE DEF dhb, co, dh, bco, hbco
        <3> QED BY <2>1, <2>4, <2>5, <2>7, <2>8
    <2> QED BY <2>9 DEF d, h
<1> QED BY <1>1, StreamInvariant, PTL

\* A frame the encoder accepts is one the decoder takes apart again.
LEMMA FrameRoundTrip ==
    ASSUME NEW p \in Seq(Bytes), Len(p) \in 1..MaxFrameBytes
    PROVE  /\ ~EncodeThrows(p) /\ ~DecodeCompleteThrows(EncodeFrame(p))
           /\ DecodeComplete(EncodeFrame(p)) = p
<1> DEFINE e == EncodeFrame(p)
           h == Header(Len(p))
<1>0. HeaderBytes \in Nat /\ MaxFrameBytes \in Nat BY HeaderHoldsLimit
<1>1. /\ e = h \o p /\ e \in Seq(Bytes) /\ h \in Seq(Bytes)
      /\ Len(h) = HeaderBytes /\ Len(e) = HeaderBytes + Len(p)
    BY EncodeFacts
<1>2. ~EncodeThrows(p) BY <1>0 DEF EncodeThrows
<1>3. Declared(e) = Len(p)
    <2>1. \A i \in 1..HeaderBytes : e[i] = h[i] BY <1>0, <1>1
    <2>2. Len(p) \in 0..MaxFrameBytes OBVIOUS
    <2> HIDE DEF e
    <2> QED BY <2>1, <2>2, DeclaredHeader
<1> HIDE DEF e, h
<1>4. ~DecodeCompleteThrows(e)
    BY <1>0, <1>1, <1>3 DEF DecodeCompleteThrows, DecodeSizeThrows
<1>5. DecodeComplete(e) = p
    <2> DEFINE q == SubSeq(e, HeaderBytes + 1, Len(e))
    <2>1. q \in Seq(Bytes) /\ Len(q) = Len(p) BY <1>0, <1>1
    <2>2. \A i \in 1..Len(p) : q[i] = p[i]
        <3> SUFFICES ASSUME NEW i \in 1..Len(p) PROVE q[i] = p[i] OBVIOUS
        <3>1. q[i] = e[HeaderBytes + i]
            <4>1. Len(p) \in Nat /\ HeaderBytes + 1 \in Int /\ Len(e) \in Int BY <1>0, <1>1
            <4>2. \A j \in (HeaderBytes + 1)..Len(e) : e[j] \in Bytes
                <5>1. \A j \in 1..Len(e) : e[j] \in Bytes BY <1>1
                <5> QED BY <1>0, <4>1, <5>1
            <4>3. \A j \in 1..(Len(e) - (HeaderBytes + 1) + 1) : q[j] = e[HeaderBytes + 1 + j - 1]
                BY <4>1, <4>2, SubSeqProperties
            <4>4. Len(e) - (HeaderBytes + 1) + 1 = Len(p) BY <1>0, <1>1, <4>1
            <4>5. HeaderBytes + 1 + i - 1 = HeaderBytes + i BY <1>0, <4>1
            <4> HIDE DEF q
            <4> QED BY <4>3, <4>4, <4>5
        <3>2. (h \o p)[HeaderBytes + i] = p[i] BY <1>0, <1>1
        <3> QED BY <1>1, <3>1, <3>2
    <2> HIDE DEF q
    <2>3. q = p BY <2>1, <2>2, SeqEqual
    <2> QED BY <2>3 DEF DecodeComplete, q
<1> QED BY <1>2, <1>4, <1>5 DEF e

\* Whatever a peer writes, no frame outside the limits is waited for or returned,
\* and the frames returned are those the complete-frame decoder would return.
THEOREM FramesAdmissibleHolds == Spec => []FramesAdmissible
<1>1. StreamInv => FramesAdmissible
    <2> SUFFICES ASSUME StreamInv PROVE FramesAdmissible OBVIOUS
    <2>1. ASSUME NEW i \in 1..Len(received)
          PROVE  /\ ~EncodeThrows(received[i]) /\ ~DecodeCompleteThrows(EncodeFrame(received[i]))
                 /\ DecodeComplete(EncodeFrame(received[i])) = received[i]
        <3>1. received[i] \in Seq(Bytes) /\ Len(received[i]) \in 1..MaxFrameBytes
            BY DEF StreamInv, Types, Frames, ReaderSound, Admissible
        <3> QED BY <3>1, FrameRoundTrip
    <2> QED BY <2>1 DEF FramesAdmissible, StreamInv, ReaderSound
<1> QED BY <1>1, StreamInvariant, PTL
================================================================================
