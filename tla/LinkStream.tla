----------------------------- MODULE LinkStream -----------------------------
(***************************************************************************)
(* Frames in a byte stream, link/link_frame.c: how link_stream_push finds  *)
(* them again behind noise.  A header is the two bytes of the magic and    *)
(* the length; the checksum is one cell of 16 bits, another polynomial     *)
(* than the code's.  Every cell carries the number of the frame it was     *)
(* sent in, 0 for noise, which the code does not see.                      *)
(***************************************************************************)
EXTENDS Integers, Sequences, SequencesExt

CONSTANTS PayloadBytes,   \* what a payload can hold
          NoiseBytes,     \* what the line can add between two frames
          MaxPayload,     \* LINK_MAX_PAYLOAD
          MaxChunk,       \* bytes of one read of the port
          MaxFrames, MaxNoise   \* bounds on what is sent

VARIABLES wire,       \* sent and not yet read
          stream,     \* stream->buf
          line_sent,  \* frames sent so far
          line_noise, \* noise so far
          delivered,  \* frames handed to on_frame
          dropped     \* history: a push was longer than the room in the buffer

streamVars == <<wire, stream, line_sent, line_noise, delivered, dropped>>

M1 == 7
M2 == 8
HeaderLen == 3
MaxFrame == HeaderLen + MaxPayload + 1

Cells(bytes, f) == [i \in DOMAIN bytes |-> [b |-> bytes[i], f |-> f]]
Bytes(cells) == [i \in DOMAIN cells |-> cells[i].b]

-----------------------------------------------------------------------------
link_crc16(bytes) == FoldSeq(LAMBDA b, acc : (257 * acc + b + 1) % 65521, 65535, bytes)

link_frame_encode(payload) ==
    LET head == <<M1, M2, Len(payload)>> \o payload
    IN  Append(head, link_crc16(head))

magic_at(buf, i) == i + 1 <= Len(buf) /\ buf[i].b = M1 /\ buf[i + 1].b = M2

\* Whether a byte read as a length is one a frame can have.
IsLength(b) == b \in 0..MaxPayload

link_frame_decode(buf, total) ==
    buf[total].b = link_crc16(Bytes(SubSeq(buf, 1, total - 1)))

\* Bytes before the first magic go; the last byte may be its first half.
Aligned(buf) ==
    LET at == {i \in 1..(Len(buf) - 1) : magic_at(buf, i)}
    IN  IF at # {} THEN SubSeq(buf, CHOOSE i \in at : \A j \in at : i <= j, Len(buf))
        ELSE SubSeq(buf, IF Len(buf) = 0 THEN 1 ELSE Len(buf), Len(buf))

\* One round of the loop: whether it goes on, the buffer, and the frame found.
Round_skips(buf) ==  \* mutant: a frame that does not check is skipped whole
    LET b     == Aligned(buf)
        total == HeaderLen + b[3].b + 1
    IN  CASE Len(b) < HeaderLen -> [again |-> FALSE, buf |-> b, frame |-> 0]
          [] Len(b) >= HeaderLen /\ ~IsLength(b[3].b) ->
               [again |-> TRUE, buf |-> Tail(b), frame |-> 0]
          [] OTHER ->
               IF Len(b) < total THEN [again |-> FALSE, buf |-> b, frame |-> 0]
               ELSE [again |-> TRUE, buf |-> SubSeq(b, total + 1, Len(b)),
                     frame |-> IF link_frame_decode(b, total) THEN b[1].f ELSE 0]

Round(buf) ==
    LET b     == Aligned(buf)
        total == HeaderLen + b[3].b + 1
    IN  CASE Len(b) < HeaderLen -> [again |-> FALSE, buf |-> b, frame |-> 0]
          [] Len(b) >= HeaderLen /\ ~IsLength(b[3].b) ->
               [again |-> TRUE, buf |-> Tail(b), frame |-> 0]
          [] OTHER ->
               IF Len(b) < total THEN [again |-> FALSE, buf |-> b, frame |-> 0]
               ELSE IF ~link_frame_decode(b, total)
               THEN [again |-> TRUE, buf |-> Tail(b), frame |-> 0]
               ELSE [again |-> TRUE, buf |-> SubSeq(b, total + 1, Len(b)), frame |-> b[1].f]

\* A frame on_frame refuses stays where it is, and the push ends there.
RECURSIVE Parsed(_, _, _)
Parsed(buf, out, refused) ==
    LET r == Round(buf)
    IN  CASE r.frame # 0 /\ r.frame = refused -> [buf |-> Aligned(buf), out |-> out]
          [] r.frame # 0 /\ r.frame # refused -> Parsed(r.buf, Append(out, r.frame), refused)
          [] r.frame = 0 /\ r.again -> Parsed(r.buf, out, refused)
          [] r.frame = 0 /\ ~r.again -> [buf |-> r.buf, out |-> out]

\* The bytes go in first, all of them; when the buffer is full the oldest goes.
Pushed(buf, data) ==
    LET all == buf \o data
    IN  IF Len(all) > MaxFrame THEN SubSeq(all, Len(all) - MaxFrame + 1, Len(all)) ELSE all

\* A read of the port takes a chunk and pushes it.
link_stream_push(n, refused) ==
    LET r == Parsed(Pushed(stream, SubSeq(wire, 1, n)), delivered, refused)
    IN  /\ n <= Len(wire)
        /\ wire' = SubSeq(wire, n + 1, Len(wire))
        /\ stream' = r.buf /\ delivered' = r.out
        /\ dropped' = (dropped \/ Len(stream) + n > MaxFrame)
        /\ UNCHANGED <<line_sent, line_noise>>

SendFrame(payload) ==
    /\ line_sent < MaxFrames
    /\ line_sent' = line_sent + 1
    /\ wire' = wire \o Cells(link_frame_encode(payload), line_sent + 1)
    /\ UNCHANGED <<stream, line_noise, delivered, dropped>>

Noise(b) ==
    /\ line_noise < MaxNoise
    /\ line_noise' = line_noise + 1
    /\ wire' = Append(wire, [b |-> b, f |-> 0])
    /\ UNCHANGED <<stream, line_sent, delivered, dropped>>

StreamInit ==
    /\ wire = <<>> /\ stream = <<>> /\ line_sent = 0 /\ line_noise = 0
    /\ delivered = <<>> /\ dropped = FALSE

StreamNext ==
    \/ \E n \in 1..MaxChunk, refused \in 0..MaxFrames : link_stream_push(n, refused)
    \/ \E k \in 0..MaxPayload : \E p \in [1..k -> PayloadBytes] : SendFrame(p)
    \/ \E b \in NoiseBytes : Noise(b)
    \/ line_sent = MaxFrames /\ wire = <<>> /\ UNCHANGED streamVars

StreamSpec == StreamInit /\ [][StreamNext]_streamVars

-----------------------------------------------------------------------------
\* What on_frame gets is the frames that were sent, in order and each once; and
\* none is missing behind whatever noise while no push was longer than the room
\* in the buffer: it has been delivered, or lies whole in the buffer, or is still
\* on the wire (link_stream_push).
FramesFoundAgain ==
    /\ \A i, j \in DOMAIN delivered : i < j => delivered[i] < delivered[j]
    /\ Len(stream) <= MaxFrame
    /\ dropped \/ \A f \in 1..line_sent :
         \/ f \in ToSet(delivered)
         \/ LET left == SelectSeq(stream \o wire, LAMBDA c : c.f = f)
            IN  Len(left) >= HeaderLen + 1 /\ Len(left) = HeaderLen + left[3].b + 1

=============================================================================
