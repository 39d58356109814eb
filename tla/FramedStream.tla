---------------------------- MODULE FramedStream ----------------------------
(***************************************************************************)
(* One direction of a connection: send_framed_json and recv_framed_json    *)
(* (tcp.hpp) over a TCP byte stream, with the frame format of framing.hpp. *)
(*                                                                         *)
(* send and recv move any positive number of bytes at a time, so a frame   *)
(* can be split and two frames can arrive together; the stream can end, or *)
(* fall silent until a deadline, between any two bytes.  A peer that does  *)
(* not use encode_frame writes raw bytes.                                  *)
(*                                                                         *)
(* The header has HeaderBytes digits of base Radix (4 and 256 in the code) *)
(* and declares at most MaxFrameBytes (kMaxFrameBytes).                    *)
(***************************************************************************)
EXTENDS Naturals, Sequences

CONSTANTS
    Radix, HeaderBytes, MaxFrameBytes,
    Payloads,       \* what callers may pass to send_framed_json
    RawWrites,      \* byte strings a peer may write without encode_frame
    MaxFrames       \* bound on the number of writes

Bytes == 0..(Radix - 1)

\* n shifted right by 0, 1, ..., HeaderBytes digits.
Shifted(n) ==
    LET rest[k \in 0..HeaderBytes] == IF k = 0 THEN n ELSE rest[k - 1] \div Radix
    IN  rest

\* A size_t that encode_frame accepts fits the header.
ASSUME HeaderHoldsLimit ==
    /\ Radix \in Nat \ {0, 1} /\ HeaderBytes \in Nat \ {0} /\ MaxFrameBytes \in Nat \ {0}
    /\ Shifted(MaxFrameBytes)[HeaderBytes] = 0
ASSUME BytesAreBytes ==
    Payloads \subseteq Seq(Bytes) /\ RawWrites \subseteq Seq(Bytes)

VARIABLES
    outgoing,   \* bytes send_all still has to write
    channel,    \* bytes in the stream, oldest first
    open,       \* the writer still holds its end
    framed,     \* history: payloads handed to send_framed_json and accepted
    foreign,    \* history: some raw write happened
    stage,      \* the reader: "header", "body" or "failed"
    size,       \* the argument of the reader's current recv_exact
    buffer,     \* what that recv_exact has received
    received    \* history: payloads returned by recv_framed_json

writerVars == <<outgoing, open, framed, foreign>>
readerVars == <<stage, size, buffer, received>>
vars == <<writerVars, channel, readerVars>>

Header(n) == [i \in 1..HeaderBytes |-> Shifted(n)[HeaderBytes - i] % Radix]

EncodeThrows(payload) == payload = <<>> \/ Len(payload) > MaxFrameBytes
EncodeFrame(payload) == Header(Len(payload)) \o payload

\* The number a header declares.
Declared(header) ==
    LET value[i \in 0..HeaderBytes] ==
            IF i = 0 THEN 0 ELSE value[i - 1] * Radix + header[i]
    IN  value[HeaderBytes]

\* Mutant: the limit is off by one.
DecodeSizeThrows_OffByOne(header) == Declared(header) = 0 \/ Declared(header) > MaxFrameBytes + 1

DecodeSizeThrows(header) == Declared(header) = 0 \/ Declared(header) > MaxFrameBytes

\* decode_complete_frame: the conditions it throws on, and what it returns.
DecodeCompleteThrows(frame) ==
    \/ Len(frame) < HeaderBytes
    \/ DecodeSizeThrows(frame)
    \/ Len(frame) # HeaderBytes + Declared(frame)
DecodeComplete(frame) == SubSeq(frame, HeaderBytes + 1, Len(frame))
-------------------------------------------------------------------------------
Init ==
    /\ outgoing = <<>> /\ channel = <<>>
    /\ open = TRUE
    /\ framed = <<>> /\ foreign = FALSE
    /\ stage = "header" /\ size = HeaderBytes /\ buffer = <<>>
    /\ received = <<>>

\* send_framed_json is called: encode_frame throws before a byte is written, or
\* send_all starts.
SendFramed(payload) ==
    /\ open /\ outgoing = <<>> /\ Len(framed) < MaxFrames
    /\ ~EncodeThrows(payload)
    /\ outgoing' = EncodeFrame(payload)
    /\ framed' = Append(framed, payload)
    /\ UNCHANGED <<channel, open, foreign, readerVars>>

SendRaw(bytes) ==
    /\ open /\ outgoing = <<>> /\ Len(framed) < MaxFrames
    /\ outgoing' = bytes
    /\ framed' = Append(framed, <<>>)
    /\ foreign' = TRUE
    /\ UNCHANGED <<channel, open, readerVars>>

\* Mutant: a short write is taken for a complete one.
WriteSome_NoRetry(n) ==
    /\ open
    /\ channel' = channel \o SubSeq(outgoing, 1, n)
    /\ outgoing' = <<>>
    /\ UNCHANGED <<open, framed, foreign, readerVars>>

\* One ::send inside send_all takes n bytes.
WriteSome(n) ==
    /\ open
    /\ channel' = channel \o SubSeq(outgoing, 1, n)
    /\ outgoing' = SubSeq(outgoing, n + 1, Len(outgoing))
    /\ UNCHANGED <<open, framed, foreign, readerVars>>

\* The writer's handle goes out of scope: after the last frame, or because
\* send_all threw on a deadline or an error and left a frame unfinished.
WriterCloses ==
    /\ open
    /\ open' = FALSE
    /\ outgoing' = <<>>
    /\ UNCHANGED <<channel, framed, foreign, readerVars>>

\* The header is complete: decode_frame_size throws, or the body is read next.
HeaderComplete(header) ==
    IF DecodeSizeThrows(header)
    THEN stage' = "failed" /\ UNCHANGED <<size, buffer, received>>
    ELSE /\ stage' = "body"
         /\ size' = Declared(header)
         /\ buffer' = <<>>
         /\ UNCHANGED received

\* The body is complete: recv_framed_json returns it and is called again.
BodyComplete(body) ==
    /\ received' = Append(received, body)
    /\ stage' = "header"
    /\ size' = HeaderBytes
    /\ buffer' = <<>>

\* Mutant: ::recv is asked for all there is instead of what is missing.
ReadSome_Greedy(n) ==
    /\ stage # "failed"
    /\ channel' = <<>>
    /\ LET got == buffer \o SubSeq(channel, 1, n)
       IN  \/ Len(got) < size /\ buffer' = got /\ UNCHANGED <<stage, size, received>>
           \/ Len(got) >= size /\ stage = "header" /\ HeaderComplete(got)
           \/ Len(got) >= size /\ stage = "body" /\ BodyComplete(got)
    /\ UNCHANGED writerVars

\* One ::recv inside recv_exact returns n bytes, at most what is missing.
ReadSome(n) ==
    /\ stage # "failed"
    /\ n <= size - Len(buffer)
    /\ channel' = SubSeq(channel, n + 1, Len(channel))
    /\ LET got == buffer \o SubSeq(channel, 1, n)
       IN  \/ Len(got) < size /\ buffer' = got /\ UNCHANGED <<stage, size, received>>
           \/ Len(got) = size /\ stage = "header" /\ HeaderComplete(got)
           \/ Len(got) = size /\ stage = "body" /\ BodyComplete(got)
    /\ UNCHANGED writerVars

\* Mutant: the socket has no receive deadline.
ReadFails_NoDeadline ==
    /\ stage # "failed"
    /\ channel = <<>> /\ ~open
    /\ stage' = "failed"
    /\ UNCHANGED <<size, buffer, received, channel, writerVars>>

\* recv_exact throws: ::recv returns 0 at the end of the stream, its deadline
\* passes, or the connection is reset with data still unread.
ReadFails ==
    /\ stage # "failed"
    /\ stage' = "failed"
    /\ UNCHANGED <<size, buffer, received, channel, writerVars>>

Read == (\E n \in 1..Len(channel) : ReadSome(n)) \/ ReadFails

Next ==
    \/ \E payload \in Payloads : SendFramed(payload)
    \/ \E bytes \in RawWrites : SendRaw(bytes)
    \/ \E n \in 1..Len(outgoing) : WriteSome(n)
    \/ WriterCloses
    \/ Read

Spec == Init /\ [][Next]_vars

\* The reader's thread runs, and every ::recv has a deadline.
FairSpec == Spec /\ WF_vars(Read)
-------------------------------------------------------------------------------
\* What was sent so far, as bytes.
Sent(payloads) ==
    LET bytes[i \in 0..Len(payloads)] ==
            IF i = 0 THEN <<>> ELSE bytes[i - 1] \o EncodeFrame(payloads[i])
    IN  bytes[Len(payloads)]

\* However reads and writes are split, the reader's place in the stream is the
\* writer's: frames already returned, the part now read, the bytes in the stream
\* and the bytes not written yet make up exactly the frames that were sent.
StreamAligned ==
    open /\ ~foreign /\ stage # "failed" =>
        Sent(received) \o (IF stage = "body" THEN Header(size) ELSE <<>>)
            \o buffer \o channel \o outgoing
        = Sent(framed)

\* The payloads returned are the payloads sent, whole, in order and each once,
\* whether or not the connection broke meanwhile.
FramesIntact ==
    ~foreign =>
        /\ Len(received) <= Len(framed)
        /\ \A i \in 1..Len(received) : received[i] = framed[i]

\* Whatever a peer writes, recv_exact is never asked for more than kMaxFrameBytes
\* and never has more than it asked for, recv_framed_json returns no empty and no
\* oversized frame, and what it returns is what decode_complete_frame makes of
\* the frame.
FramesAdmissible ==
    /\ stage = "body" => size \in 1..MaxFrameBytes
    /\ Len(buffer) <= size
    /\ \A i \in 1..Len(received) :
          /\ ~EncodeThrows(received[i])
          /\ ~DecodeCompleteThrows(EncodeFrame(received[i]))
          /\ DecodeComplete(EncodeFrame(received[i])) = received[i]

\* A frame that has begun to arrive is finished or given up: recv_exact never
\* waits for ever, even for a peer that stops in the middle of a frame.
FrameEnds == (buffer # <<>> \/ stage = "body") ~> (stage = "failed" \/ (stage = "header" /\ buffer = <<>>))
===============================================================================
