----------------------------- MODULE ClientInput ----------------------------
(***************************************************************************)
(* How the chat client turns standard input into frames: the loop of       *)
(* client.c with its buffer buf, which keeps the bytes of earlier reads,   *)
(* and its flag last_chunk_filled.                                         *)
(*                                                                         *)
(* A command is the byte '/' and one more byte that stands for its name;   *)
(* arguments and case are left out.                                        *)
(***************************************************************************)
EXTENDS Frames, SequencesExt

CONSTANTS
  Newline, Slash,
  QuitName, ShutdownName,    \* what follows '/' in /quit and /shutdown
  MaxTyped                   \* bound: bytes typed

NUL == 0

ASSUME InputAssumption ==
  /\ BUF_SIZE \in Nat \ {0, 1} /\ BUF_SIZE < Base * Base
  /\ {Newline, Slash, QuitName, ShutdownName} \subseteq Bytes \ {NUL}
  /\ Newline \notin {Slash, QuitName, ShutdownName}
  /\ QuitName # ShutdownName
  /\ MaxTyped \in Nat

VARIABLES
  terminal,                  \* input comes from a terminal, by lines
  typed,                     \* all the user types
  input,                     \* what of it has not been read
  buf, last_chunk_filled,
  stream,                    \* the bytes written to the socket
  cuts,                      \* history: how long stream was after each frame
  status                     \* "running", or how it ended

vars == <<terminal, typed, input, buf, last_chunk_filled, stream, cuts, status>>

\* A terminal hands on complete lines.
Inputs ==
  {s \in SeqOf(Bytes \ {NUL}, MaxTyped) : terminal => s = << >> \/ Last(s) = Newline}

\* Nothing is known of the first content of buf.
Init ==
  /\ terminal \in BOOLEAN
  /\ typed \in Inputs /\ input = typed
  /\ buf \in {[j \in 1..BUF_SIZE |-> b] : b \in {NUL, Newline}}
  /\ last_chunk_filled = FALSE
  /\ stream = << >> /\ cuts = {0}
  /\ status = "running"

-----------------------------------------------------------------------------
(* Faulty variants of definitions below, not part of the specification:    *)
(* substituting one for its original shows that a property can fail.       *)

\* A chunk of one byte is skipped even if it ends a longer line.
Skipped_Always(chunk) == Len(chunk) = 1

\* The header keeps the length that counts the newline.
EndHeader_CountsNewline(chunk) == create_header(Len(chunk), TRUE)

-----------------------------------------------------------------------------
\* What read() may return: of a terminal's current line as much as fits, of
\* a pipe whatever is there.
Readable(chunk) ==
  /\ chunk # << >> /\ Len(chunk) <= BUF_SIZE
  /\ IsPrefix(chunk, input)
  /\ terminal => /\ \A j \in 1..(Len(chunk) - 1) : chunk[j] # Newline
                 /\ Len(chunk) = BUF_SIZE \/ Last(chunk) = Newline

\* buf once the chunk is read into it.
Filled(chunk) ==
  [j \in 1..BUF_SIZE |-> IF j <= Len(chunk) THEN chunk[j] ELSE buf[j]]

\* The command in a chunk that begins with '/': the chunk without its last
\* byte, in whose place buf_copy has its NUL.
Command(chunk) == Front(chunk)
Quits(chunk) == Command(chunk) = <<Slash, QuitName>>
ShutsDown(chunk) == Command(chunk) = <<Slash, ShutdownName>>

Skipped(chunk) == Len(chunk) = 1 /\ ~last_chunk_filled

\* A newline anywhere in buf ends the message, and the last byte of the chunk
\* is not sent.
EndsMessage(chunk) == \E j \in 1..BUF_SIZE : Filled(chunk)[j] = Newline

EndHeader(chunk) == create_header(Len(chunk) - 1, TRUE)

SendEnd(chunk) ==
  /\ stream' = stream \o EndHeader(chunk) \o Front(chunk)
  /\ buf' = [Filled(chunk) EXCEPT ![Len(chunk)] = NUL]
  /\ last_chunk_filled' = FALSE

SendPart(chunk) ==
  /\ stream' = stream \o create_header(Len(chunk), FALSE) \o chunk
  /\ buf' = Filled(chunk)
  /\ last_chunk_filled' = TRUE

Send(chunk) == IF EndsMessage(chunk) THEN SendEnd(chunk) ELSE SendPart(chunk)

-----------------------------------------------------------------------------
\* A chunk is read and sent; after /shutdown the loop ends.
ReadAndSend(chunk) ==
  /\ status = "running" /\ Readable(chunk)
  /\ chunk # <<Slash>> /\ ~Skipped(chunk) /\ ~Quits(chunk)
  /\ input' = SubSeq(input, Len(chunk) + 1, Len(input))
  /\ Send(chunk)
  /\ cuts' = cuts \cup {Len(stream')}
  /\ status' = IF ShutsDown(chunk) THEN "left" ELSE "running"
  /\ UNCHANGED <<terminal, typed>>

\* continue: nothing is sent.
ReadAndSkip(chunk) ==
  /\ status = "running" /\ Readable(chunk)
  /\ chunk # <<Slash>> /\ Skipped(chunk)
  /\ input' = SubSeq(input, Len(chunk) + 1, Len(input))
  /\ buf' = Filled(chunk)
  /\ UNCHANGED <<terminal, typed, last_chunk_filled, stream, cuts, status>>

\* handle_quit closes the socket, and the write fails.
ReadQuit(chunk) ==
  /\ status = "running" /\ Readable(chunk) /\ Quits(chunk)
  /\ input' = SubSeq(input, Len(chunk) + 1, Len(input))
  /\ buf' = Filled(chunk)
  /\ status' = "left"
  /\ UNCHANGED <<terminal, typed, last_chunk_filled, stream, cuts>>

\* Of a lone '/' buf_copy holds the empty string, strtok_r finds no token,
\* and strlen is given NULL.
ReadLoneSlash(chunk) ==
  /\ status = "running" /\ Readable(chunk) /\ chunk = <<Slash>>
  /\ input' = Tail(input)
  /\ buf' = Filled(chunk)
  /\ status' = "crashed"
  /\ UNCHANGED <<terminal, typed, last_chunk_filled, stream, cuts>>

ReadEnd ==
  /\ status = "running" /\ input = << >>
  /\ status' = "end of input"
  /\ UNCHANGED <<terminal, typed, input, buf, last_chunk_filled, stream, cuts>>

ReadChunk(chunk) ==
  \/ ReadAndSend(chunk) \/ ReadAndSkip(chunk) \/ ReadQuit(chunk) \/ ReadLoneSlash(chunk)

Next == (\E chunk \in Prefixes(input) : ReadChunk(chunk)) \/ ReadEnd

Spec == Init /\ [][Next]_vars

-----------------------------------------------------------------------------
(* Properties                                                              *)

\* The line after the first p bytes of s, if it is complete.
LineEnds(s, p) == {j \in (p + 1)..Len(s) : s[j] = Newline}
LineEnd(s, p) == Min(LineEnds(s, p))
Line(s, p) == SubSeq(s, p + 1, LineEnd(s, p) - 1)

\* The messages in what was typed: the lines that are not empty.
MessagesFrom(s) ==
  LET From[p \in 0..Len(s)] ==      \* p bytes of s have been dealt with
        IF LineEnds(s, p) = {} THEN << >>
        ELSE (IF Line(s, p) = << >> THEN << >> ELSE <<Line(s, p)>>) \o From[LineEnd(s, p)]
  IN From

MessagesIn(s) == MessagesFrom(s)[0]

\* The frames that a user of a terminal sends decode to the lines typed, each
\* a message of its own: lines of any length around BUF_SIZE, cut into chunks
\* or not, with the newline in a chunk of its own, and empty ones.  A user
\* who leaves has sent the first of them.
LinesSent ==
  /\ IsPrefix(Decode(stream), MessagesIn(typed))
  /\ status \in {"end of input", "crashed"} => Decode(stream) = MessagesIn(typed)

SentIsTyped == terminal => LinesSent

\* At p the stream ends, or a frame begins whose header announces no more than
\* BUF_SIZE bytes and leads to the next cut.
Legal(p) ==
  \/ p = Len(stream)
  \/ /\ p + HeaderLen <= Len(stream)
     /\ LET len == MsgLen(SubSeq(stream, p + 1, p + HeaderLen))
        IN len <= BUF_SIZE /\ p + HeaderLen + len \in cuts

\* Whatever the input and the parts it is read in, a receiver that goes by the
\* lengths in the headers finds exactly the frames that were written: the
\* server never loses its place in the stream, nor closes the connection for a
\* length.
StreamParses ==
  /\ 0 \in cuts /\ Len(stream) \in cuts
  /\ \A p \in cuts : p \in 0..Len(stream) /\ Legal(p)

-----------------------------------------------------------------------------
(* What the code's documentation says and the code does not do.            *)

\* client.c: "We read in the message + the \n character, but we only want to
\* send message", of whatever standard input there is.
PipedIsSent == LinesSent

\* client.c: "Check if msg is command".  A user leaves by a message that is a
\* command, not by a part of one.
LeavesByMessage ==
  status = "left" =>
    \E j \in 1..Len(MessagesIn(typed)) :
       MessagesIn(typed)[j] \in {<<Slash, QuitName>>, <<Slash, ShutdownName>>}
=============================================================================
