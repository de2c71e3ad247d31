------------------------------- MODULE Decoder ------------------------------
(***************************************************************************)
(* What the server promises of a client's input: the stream is a sequence  *)
(* of frames, taken one after the other from where the last one ended, and *)
(* a message is the payloads of the frames up to one with msg_done.  How   *)
(* the bytes were cut into reads does not matter.                          *)
(***************************************************************************)
EXTENDS Frames

VARIABLES
  consumed,     \* the bytes read so far
  start,        \* how many of them belong to frames already taken
  part,         \* the payloads of an unfinished message
  delivered,    \* the messages processed
  broken        \* memory ran out: nothing is promised any more

vars == <<consumed, start, part, delivered, broken>>

Init ==
  /\ consumed = << >> /\ start = 0 /\ part = << >> /\ delivered = << >>
  /\ broken = FALSE

\* A whole frame of a legal length has been read and not yet taken.
FrameThere == WholeAt(consumed, start)

Arrive ==
  /\ \E n \in 0..Len(consumed') : consumed = SubSeq(consumed', 1, n)
  /\ UNCHANGED <<start, part, delivered, broken>>

TakeFrame ==
  /\ FrameThere
  /\ start' = EndAt(consumed, start)
  /\ LET message == part \o PayloadAt(consumed, start)
     IN IF MsgDone(HeaderAt(consumed, start))
        THEN part' = << >> /\ delivered' = Append(delivered, message)
        ELSE part' = message /\ UNCHANGED delivered
  /\ UNCHANGED <<consumed, broken>>

Next == Arrive \/ TakeFrame \/ broken'

Spec == Init /\ [][Next]_vars
=============================================================================
