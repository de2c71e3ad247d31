------------------------------- MODULE Frames -------------------------------
(***************************************************************************)
(* The protocol as a byte stream: a frame is a msg_header followed by its  *)
(* payload, and a message is the payloads of frames up to the first one    *)
(* with msg_done.                                                          *)
(*                                                                         *)
(* A byte is a number below Base.  msg_len has two bytes, the high one     *)
(* first, msg_done has one; msg_type is left out, since no receiver looks  *)
(* at it.                                                                  *)
(***************************************************************************)
EXTENDS Integers, Sequences

CONSTANTS Base, BUF_SIZE

ASSUME FramesAssumption == Base \in Nat \ {0, 1}

Bytes == 0..(Base - 1)
HeaderLen == 3

\* A faulty variant of MsgLen, not part of the specification: the length is
\* taken for a signed number.
MsgLen_Signed(header) ==
  LET len == header[1] * Base + header[2]
  IN IF 2 * header[1] >= Base THEN len - Base * Base ELSE len

\* What htonl and ntohl do, and the flag msg_done.
create_header(len, done) == <<len \div Base, len % Base, IF done THEN 1 ELSE 0>>
MsgLen(header) == header[1] * Base + header[2]
MsgDone(header) == header[3] # 0

\* The frame that begins after the first p bytes of the stream s.
HeaderAt(s, p) == SubSeq(s, p + 1, p + HeaderLen)
EndAt(s, p) == p + HeaderLen + MsgLen(HeaderAt(s, p))
PayloadAt(s, p) == SubSeq(s, p + HeaderLen + 1, EndAt(s, p))

\* All of it is there, and it announces no more than BUF_SIZE bytes.
WholeAt(s, p) ==
  /\ p + HeaderLen <= Len(s)
  /\ MsgLen(HeaderAt(s, p)) <= BUF_SIZE
  /\ EndAt(s, p) <= Len(s)

\* The messages, of which the first one begins with part.
Prepend(part, messages) ==
  IF messages = << >> THEN << >> ELSE <<part \o Head(messages)>> \o Tail(messages)

\* The messages once the frame at p comes before them.
AfterFrame(s, p, messages) ==
  IF MsgDone(HeaderAt(s, p)) THEN <<PayloadAt(s, p)>> \o messages
                             ELSE Prepend(PayloadAt(s, p), messages)

\* The reference decoder: the complete messages in the stream s, up to its
\* end or to a header that announces more than BUF_SIZE bytes.
DecodeFrom(s) ==
  LET From[p \in 0..Len(s)] ==
        IF WholeAt(s, p) THEN AfterFrame(s, p, From[EndAt(s, p)]) ELSE << >>
  IN From

Decode(s) == DecodeFrom(s)[0]
=============================================================================
