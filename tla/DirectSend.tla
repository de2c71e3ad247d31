----------------------------- MODULE DirectSend -----------------------------
(***************************************************************************)
(* What one client receives when messages reach it in two ways: broadcasts *)
(* through its queue (module MsgQueue), and the answers to /list and       *)
(* whispers, which server_send_message and client_send_direct_message      *)
(* write to the socket at once, past the queue.                            *)
(*                                                                         *)
(* The socket does not block, so write_all stops at the first write() that *)
(* would, with a part of the message sent.                                 *)
(***************************************************************************)
EXTENDS MsgQueue

CONSTANTS
  MaxDirect,        \* bound: messages sent past the queue
  WriteMayBlock     \* whether write() can find the socket's buffer full

ASSUME DirectAssumption == MaxDirect \in Nat /\ WriteMayBlock \in BOOLEAN

VARIABLES
  out,       \* history: the bytes the client receives
  size,      \* history: the size of each message, header included
  directs,   \* messages sent past the queue
  harmed     \* history: one of them was cut, or sent inside a packet

outVars == <<out, size, directs, harmed>>

\* The number of the next message that goes past the queue.
NextDirect == MaxMsgs + directs + 1

OutInit ==
  /\ Init
  /\ out = << >>
  /\ size = [m \in 1..(MaxMsgs + MaxDirect) |-> 0]
  /\ directs = 0
  /\ harmed = FALSE

-----------------------------------------------------------------------------
\* The queue goes on as in MsgQueue; what send() took is received.
QueueStep ==
  /\ Next
  /\ out' = out \o SubSeq(wire', Len(wire) + 1, Len(wire'))
  /\ size' = IF offered' = offered THEN size
             ELSE [size EXCEPT ![offered'] = Len(accepted') - Len(accepted)]
  /\ UNCHANGED <<directs, harmed>>

\* A packet of the queue has been sent in part.
MidPacket == head # NULL /\ offset[head] > 0

\* write_all(total bytes) stops after k of them: at the end, or at a write()
\* that would block, when it returns -1.
write_all(total, k) == k = total \/ (WriteMayBlock /\ k < total)

\* server_send_message or client_send_direct_message with n payload bytes:
\* write_header and write_payload, of which the socket takes k bytes in all.
\* Neither comes back for the rest.
SendDirect(n, k) ==
  /\ pc = "loop" /\ directs < MaxDirect
  /\ write_all(HeaderLen + n, k)
  /\ out' = out \o Chunk(NextDirect, 0, k)
  /\ size' = [size EXCEPT ![NextDirect] = HeaderLen + n]
  /\ directs' = directs + 1
  /\ harmed' = (harmed \/ MidPacket \/ (0 < k /\ k < HeaderLen + n))
  /\ UNCHANGED vars

OutNext ==
  \/ QueueStep
  \/ \E n \in PayloadLens : \E k \in 0..(HeaderLen + n) : SendDirect(n, k)

OutSpec == OutInit /\ [][OutNext]_<<vars, outVars>>

-----------------------------------------------------------------------------
(* Properties                                                              *)

\* Every message begins where another has ended, and goes on without a gap.
\* A receiver, which has only the lengths in the headers to go by, finds the
\* next header in such a stream and in no other.
Framed(s) ==
  \A i \in 1..Len(s) :
    IF s[i].k = 1
    THEN i = 1 \/ s[i - 1].k = size[s[i - 1].msg]
    ELSE i > 1 /\ s[i - 1] = [s[i] EXCEPT !.k = @ - 1]

\* As long as nothing is written past the queue while a queued packet is half
\* sent, and no such write is cut short, the client can tell the messages
\* apart, however broadcasts, short sends and direct messages alternate.
FramedUnlessHarmed == ~harmed => Framed(out)

-----------------------------------------------------------------------------
(* What the documentation says and the code does not do.                   *)

\* README.md: "Partial read/write handling with per-client state".  The state
\* of a partial write is the packet's offset, which a direct message ignores.
PartialWritesHandled == Framed(out)

\* io.h on write_all: "Ensures we write count bytes from buffer into fd": a
\* message past the queue would be received as a whole or not at all.
WriteAllWritesAll ==
  pc = "loop" =>
    \A d \in (MaxMsgs + 1)..(MaxMsgs + directs) :
      LET received == Len(SelectSeq(out, LAMBDA b : b.msg = d))
      IN received \in {0, size[d]}
=============================================================================
