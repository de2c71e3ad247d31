----------------------------- MODULE ClientRead -----------------------------
(***************************************************************************)
(* The incoming side of one client, byte by byte: handle_client_read with  *)
(* its two states, the fixed buffers for header and payload, the growing   *)
(* buffer partial_msg that collects the chunks of a message, and the name. *)
(*                                                                         *)
(* The peer may send any bytes at all and end the stream anywhere.  A      *)
(* buffer is the sequence of the bytes in use, so header_bytes_read,       *)
(* payload_bytes_read, partial_len and name_len are lengths; partial_cap   *)
(* is what the code believes of partial_msg and block what malloc gave.    *)
(***************************************************************************)
EXTENDS Frames

CONSTANTS
  NAME_MAX,
  Slash,            \* the byte '/'
  MaxBytes          \* bound: bytes the peer sends

ASSUME ReadAssumption ==
  /\ BUF_SIZE \in Nat \ {0}
  /\ NAME_MAX \in Nat \ {0}
  /\ Slash \in Bytes
  /\ MaxBytes \in Nat

VARIABLES
  inq, peer,                               \* bytes not yet read; the other end
  pc,
  state, header_buffer, expected_payload_len, msg_done, payload_buffer,
  partial_msg, partial_cap,
  block,                                   \* size of partial_msg's heap block, 0: NULL
  has_name, name, closed,
  consumed, delivered,                     \* history: bytes read, messages processed
  failed                                   \* history: a realloc has failed

netVars == <<inq, peer, consumed>>
headVars == <<state, header_buffer, expected_payload_len, msg_done>>
partVars == <<partial_msg, partial_cap, block, failed>>
nameVars == <<has_name, name, closed, delivered>>
vars == <<netVars, pc, headVars, payload_buffer, partVars, nameVars>>

PCs == {"loop",      \* elsewhere in the event loop
        "read",      \* at the head of handle_client_read's for(;;)
        "append", "grow", "copy",          \* in append_to_client_buffer
        "process",   \* before the test of msg_done
        "crashed"}   \* the server went through a NULL partial_msg

Init ==
  /\ inq = << >> /\ peer = "open" /\ consumed = << >>
  /\ pc = "loop"
  /\ state = "READ_HEADER" /\ header_buffer = << >>
  /\ expected_payload_len = 0 /\ msg_done = FALSE
  /\ payload_buffer = << >>
  /\ partial_msg = << >> /\ partial_cap = BUF_SIZE /\ block = BUF_SIZE
  /\ failed = FALSE
  /\ has_name = FALSE /\ name = << >> /\ closed = FALSE
  /\ delivered = << >>

-----------------------------------------------------------------------------
(* Faulty variants of definitions below, not part of the specification:    *)
(* substituting one for its original shows that a property can fail.       *)

\* A complete payload is taken for a short one.
PayloadShort_OrEqual == Len(payload_buffer') <= expected_payload_len

\* append_to_client_buffer compares the capacity with the payload alone.
Needed_PayloadOnly == Len(payload_buffer)

\* partial_len keeps its value after a message.
Cleared_KeepsMessage == partial_msg' = partial_msg

\* epoll waits for a whole header (a low-water mark on the socket).
EpollIn_WholeHeader ==
  /\ pc = "loop" /\ ~closed
  /\ Len(inq) >= HeaderLen \/ peer # "open"
  /\ pc' = "read"
  /\ UNCHANGED <<netVars, headVars, payload_buffer, partVars, nameVars>>

-----------------------------------------------------------------------------
(* The peer and the event loop                                             *)

PeerSend(b) ==
  /\ peer = "open" /\ Len(consumed) + Len(inq) < MaxBytes
  /\ inq' = Append(inq, b)
  /\ UNCHANGED <<peer, consumed, pc, headVars, payload_buffer, partVars, nameVars>>

PeerEnds(how) ==
  /\ peer = "open"
  /\ peer' = how
  /\ UNCHANGED <<inq, consumed, pc, headVars, payload_buffer, partVars, nameVars>>

\* EPOLLIN: input, or the end of the stream.
EpollIn ==
  /\ pc = "loop" /\ ~closed
  /\ inq # << >> \/ peer # "open"
  /\ pc' = "read"
  /\ UNCHANGED <<netVars, headVars, payload_buffer, partVars, nameVars>>

\* EPOLLHUP, EPOLLERR or a requested EPOLLRDHUP: what has arrived is not read.
Hangup ==
  /\ pc = "loop" /\ ~closed /\ peer # "open"
  /\ closed' = TRUE
  /\ UNCHANGED <<netVars, pc, headVars, payload_buffer, partVars, has_name, name,
                 delivered>>

-----------------------------------------------------------------------------
(* handle_client_read                                                      *)

\* The bytes a read() of at most n gets.
Available(n) == IF Len(inq) < n THEN Len(inq) ELSE n
Got(n) == SubSeq(inq, 1, Available(n))

\* read() of n bytes into the buffer.
Read(n) ==
  /\ inq' = SubSeq(inq, Available(n) + 1, Len(inq))
  /\ consumed' = consumed \o Got(n)
  /\ UNCHANGED peer

HeaderWanted == HeaderLen - Len(header_buffer)
NewHeader == header_buffer \o Got(HeaderWanted)

\* Too few bytes for a header: return 0.
ReadHeaderPart ==
  /\ pc = "read" /\ state = "READ_HEADER" /\ inq # << >>
  /\ Len(NewHeader) < HeaderLen
  /\ Read(HeaderWanted)
  /\ header_buffer' = NewHeader
  /\ pc' = "loop"
  /\ UNCHANGED <<state, expected_payload_len, msg_done, payload_buffer, partVars,
                 nameVars>>

\* The header is complete, and too large a payload ends the connection.
ReadHeader ==
  /\ pc = "read" /\ state = "READ_HEADER" /\ inq # << >>
  /\ Len(NewHeader) = HeaderLen
  /\ Read(HeaderWanted)
  /\ expected_payload_len' = MsgLen(NewHeader)
  /\ msg_done' = MsgDone(NewHeader)
  /\ IF MsgLen(NewHeader) > BUF_SIZE
     THEN /\ closed' = TRUE /\ pc' = "loop"
          /\ header_buffer' = NewHeader
          /\ UNCHANGED <<state, payload_buffer>>
     ELSE /\ state' = "READ_PAYLOAD"
          /\ header_buffer' = << >> /\ payload_buffer' = << >>
          /\ UNCHANGED <<pc, closed>>
  /\ UNCHANGED <<partVars, has_name, name, delivered>>

Remaining == expected_payload_len - Len(payload_buffer)

\* The payload is still incomplete after a read.
PayloadShort == Len(payload_buffer') < expected_payload_len

\* Bytes of the payload; none are needed for an empty one.
ReadPayload ==
  /\ pc = "read" /\ state = "READ_PAYLOAD"
  /\ Remaining = 0 \/ inq # << >>
  /\ Read(Remaining)
  /\ payload_buffer' = payload_buffer \o Got(Remaining)
  /\ pc' = IF PayloadShort THEN "loop" ELSE "append"
  /\ UNCHANGED <<headVars, partVars, nameVars>>

\* No input: would block, or the end of the stream.  Inside a payload the
\* latter is taken for a short read.
ReadNothing ==
  /\ pc = "read" /\ inq = << >>
  /\ state = "READ_HEADER" \/ Remaining > 0
  /\ pc' = "loop"
  /\ closed' = (peer = "reset" \/ (peer = "fin" /\ state = "READ_HEADER"))
  /\ UNCHANGED <<netVars, headVars, payload_buffer, partVars, has_name, name,
                 delivered>>

-----------------------------------------------------------------------------
(* append_to_client_buffer                                                 *)

Needed == Len(partial_msg) + Len(payload_buffer)

\* One round of the doubling loop.
Double ==
  /\ pc \in {"append", "grow"} /\ partial_cap < Needed
  /\ partial_cap' = 2 * partial_cap
  /\ pc' = "grow"
  /\ UNCHANGED <<netVars, headVars, payload_buffer, partial_msg, block, failed, nameVars>>

\* A byte of which nothing is known.
LOST == -1

\* realloc: a new block, or NULL, with which the collected bytes are lost.
\* The caller only warns.
Realloc ==
  /\ pc = "grow" /\ partial_cap >= Needed
  /\ \/ /\ block' = partial_cap /\ pc' = "copy"
        /\ UNCHANGED <<partial_msg, failed>>
     \/ /\ block' = 0 /\ pc' = "process"
        /\ failed' = TRUE
        /\ partial_msg' = [j \in 1..Len(partial_msg) |-> LOST]
  /\ UNCHANGED <<netVars, headVars, payload_buffer, partial_cap, nameVars>>

\* memcpy to partial_msg + partial_len.
Copy ==
  /\ pc = "copy" \/ (pc = "append" /\ partial_cap >= Needed)
  /\ IF block = 0 /\ payload_buffer # << >>
     THEN pc' = "crashed" /\ UNCHANGED partial_msg
     ELSE pc' = "process" /\ partial_msg' = partial_msg \o payload_buffer
  /\ UNCHANGED <<netVars, headVars, payload_buffer, partial_cap, block, failed,
                 nameVars>>

-----------------------------------------------------------------------------
(* The end of a frame, and process_payload with what it means for input    *)

\* Back to reading a header.
NextFrame ==
  /\ state' = "READ_HEADER" /\ header_buffer' = << >>
  /\ expected_payload_len' = 0
  /\ pc' = "read"
  /\ UNCHANGED msg_done

FrameEnd ==
  /\ pc = "process" /\ ~msg_done
  /\ NextFrame
  /\ UNCHANGED <<netVars, payload_buffer, partVars, nameVars>>

Cleared == partial_msg' = << >>

\* The capacity is forgotten, the block is not; nothing is cleared at NULL.
clear_client_buffer ==
  /\ Cleared
  /\ partial_cap' = IF block = 0 THEN partial_cap ELSE BUF_SIZE
  /\ UNCHANGED <<block, failed>>

\* copy_buffer and process_payload can read the message.
Readable == block # 0 \/ partial_msg = << >>

\* store_client_name caps the length at NAME_MAX - 1.
store_client_name ==
  name' = IF Len(partial_msg) >= NAME_MAX THEN SubSeq(partial_msg, 1, NAME_MAX - 1)
                                          ELSE partial_msg

\* The first message is the name, another is a chat message or a command.
Process ==
  /\ pc = "process" /\ msg_done /\ Readable
  /\ delivered' = Append(delivered, partial_msg)
  /\ has_name' = TRUE
  /\ IF has_name THEN UNCHANGED name ELSE store_client_name
  /\ clear_client_buffer
  /\ NextFrame
  /\ UNCHANGED <<netVars, payload_buffer, closed>>

\* A command that disconnects (or fails): -1, and nothing is cleared.
ProcessDisconnects ==
  /\ pc = "process" /\ msg_done /\ Readable
  /\ has_name /\ partial_msg # << >> /\ partial_msg[1] = Slash
  /\ delivered' = Append(delivered, partial_msg)
  /\ closed' = TRUE /\ pc' = "loop"
  /\ UNCHANGED <<netVars, headVars, payload_buffer, partVars, has_name, name>>

ProcessCrashes ==
  /\ pc = "process" /\ msg_done /\ ~Readable
  /\ pc' = "crashed"
  /\ UNCHANGED <<netVars, headVars, payload_buffer, partVars, nameVars>>

-----------------------------------------------------------------------------
Peer == (\E b \in Bytes : PeerSend(b)) \/ (\E how \in {"fin", "reset"} : PeerEnds(how))

handle_client_read ==
  \/ ReadHeaderPart \/ ReadHeader \/ ReadPayload \/ ReadNothing
  \/ Double \/ Realloc \/ Copy
  \/ FrameEnd \/ Process \/ ProcessDisconnects \/ ProcessCrashes

Next == Peer \/ EpollIn \/ Hangup \/ handle_client_read

Spec == Init /\ [][Next]_vars

\* The server thread runs on, and epoll_wait, which is level-triggered,
\* reports input that has not been read.
FairSpec == Spec /\ WF_vars(EpollIn \/ handle_client_read)

-----------------------------------------------------------------------------
(* Properties                                                              *)

\* Type correctness.
TypeOK ==
  /\ inq \in Seq(Bytes) /\ consumed \in Seq(Bytes)
  /\ peer \in {"open", "fin", "reset"}
  /\ pc \in PCs
  /\ state \in {"READ_HEADER", "READ_PAYLOAD"}
  /\ header_buffer \in Seq(Bytes) /\ payload_buffer \in Seq(Bytes)
  /\ expected_payload_len \in Nat /\ msg_done \in BOOLEAN
  /\ partial_msg \in Seq(Bytes \cup {LOST})
  /\ partial_cap \in Nat /\ block \in Nat
  /\ has_name \in BOOLEAN /\ name \in Seq(Bytes \cup {LOST})
  /\ closed \in BOOLEAN /\ failed \in BOOLEAN
  /\ delivered \in Seq(Seq(Bytes \cup {LOST}))

\* No buffer of client_info overflows, whatever the peer sends and however it
\* arrives: the header and payload arrays, the heap block that partial_msg
\* points to (which may be larger than partial_cap says after
\* clear_client_buffer, and never smaller), and the name with its NUL.  Only
\* a failed realloc can leave partial_msg NULL, and so crash the server.
BuffersFit ==
  /\ Len(header_buffer) <= HeaderLen
  /\ Len(payload_buffer) <= BUF_SIZE
  /\ block # 0 => /\ pc # "grow" => partial_cap <= block
                  /\ Len(partial_msg) <= block
  /\ pc = "copy" => Needed <= block
  /\ Len(name) < NAME_MAX
  /\ (block = 0 \/ pc = "crashed") => failed

\* Between two events the server has processed exactly the messages that the
\* bytes read so far contain, however they were cut into reads and chunks.
\* (Provided no realloc has failed.)
DecodesStream == (pc = "loop" /\ ~failed) => delivered = Decode(consumed)

\* Where the frame in progress begins, and what the frames before it hold of
\* an unfinished message.  At "process" the payload has been appended, and a
\* command that disconnects leaves its frame in the buffers.
Disconnected == closed /\ state = "READ_PAYLOAD" /\ Remaining = 0
InProgress ==
  IF state = "READ_HEADER" THEN Len(header_buffer)
  ELSE IF Disconnected THEN 0 ELSE HeaderLen + Len(payload_buffer)
Earlier ==
  IF Disconnected THEN << >>
  ELSE IF pc = "process"
       THEN SubSeq(partial_msg, 1, Len(partial_msg) - Len(payload_buffer))
       ELSE partial_msg

Frame == INSTANCE Decoder WITH start <- Len(consumed) - InProgress,
                               part <- Earlier, broken <- failed

\* handle_client_read, with its buffers and its two states, implements the
\* decoder: it takes the frames of the stream, all of them, in their order,
\* whatever the reads they come in.
ImplementsDecoder == Frame!Spec

\* The server does not go back to epoll_wait with a whole frame in its buffers.
NothingLeft == (pc = "loop" /\ ~failed) => ~Frame!FrameThere

\* A complete message that has arrived is processed in the end, unless the
\* connection is given up, whatever the reads it takes.
MessageIsProcessed ==
  \A n \in 1..(MaxBytes \div HeaderLen) :
     (Len(Decode(consumed \o inq)) >= n) ~> (Len(delivered) >= n \/ closed \/ failed)

-----------------------------------------------------------------------------
(* What the code's documentation says and the code does not do.            *)

\* client_utils.h on store_client_name: "If length of name > NAME_MAX, name is
\* truncated to the first NAME_MAX bytes".
NameKeepsMax ==
  has_name => name = IF Len(delivered[1]) > NAME_MAX
                     THEN SubSeq(delivered[1], 1, NAME_MAX) ELSE delivered[1]

\* handle_client_read.c reports a failed append as a "[WARNING]" and goes on:
\* the server would survive it.
AppendFailureIsSurvived == pc # "crashed"
=============================================================================
