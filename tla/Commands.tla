------------------------------ MODULE Commands ------------------------------
(***************************************************************************)
(* What the server makes of one complete message of a client that has a    *)
(* name: process_payload, the tokens that strtok_r finds, the command      *)
(* table, the search for the target of a whisper, and the text that is     *)
(* sent.  (The first message, the name, is in module ClientRead.)          *)
(*                                                                         *)
(* Characters are numbers: NUL, the space, '/', and one letter in both     *)
(* cases.  The names in the command table are shortened to one, two and    *)
(* three letters, the fixed parts of a formatted text to sequences of the  *)
(* character Other, of lengths that are parameters.                        *)
(***************************************************************************)
EXTENDS Integers, Sequences, SequencesExt

CONSTANTS
  TimestampLen, WhisperThingLen,     \* lengths of fixed parts of a text
  Names,                             \* what the clients' name fields may hold
  MaxPayload                         \* bound: length of a message

NUL == 0
Space == 1
Slash == 2
a == 3
A == 4        \* upper-case a
Other == 5
Newline == 6
Input == {NUL, Space, Slash, a, A}

\* The clients by their place in client_list; user is the sender.
Clients == 1..3
user == 1

ASSUME CommandAssumption ==
  /\ TimestampLen \in Nat /\ WhisperThingLen \in Nat
  /\ Names \subseteq [Clients -> Seq(Input)]
  /\ MaxPayload \in Nat

VARIABLES
  payload,                     \* the message, partial_msg
  has_name, name, name_len,    \* struct client_info of each
  server_shutdown,
  sent,                        \* the texts sent, in order, each with its receiver
  result                       \* "none" before, then what process_payload returns

vars == <<payload, has_name, name, name_len, server_shutdown, sent, result>>

\* Of a client without a name, name holds what was in the memory before.
Init ==
  /\ payload \in SeqOf(Input, MaxPayload)
  /\ has_name \in [Clients -> BOOLEAN] /\ has_name[user] /\ has_name[2]
  /\ name \in Names
  /\ name_len = [c \in Clients |-> IF has_name[c] THEN Len(name[c]) ELSE 0]
  /\ server_shutdown = FALSE
  /\ sent = << >>
  /\ result = "none"

-----------------------------------------------------------------------------
(* C strings                                                               *)

\* The bytes before the first NUL.
CString(s) ==
  LET ends == {j \in 1..Len(s) : s[j] = NUL}
  IN IF ends = {} THEN s ELSE SubSeq(s, 1, (CHOOSE j \in ends : \A k \in ends : j <= k) - 1)

\* How many characters at the start of s satisfy P.
Span(s, P(_)) ==
  CHOOSE n \in 0..Len(s) :
    /\ \A j \in 1..n : P(s[j])
    /\ n = Len(s) \/ ~P(s[n + 1])

IsSpace(c) == c = Space
IsNoSpace(c) == c # Space
From(s, n) == SubSeq(s, n + 1, Len(s))

-----------------------------------------------------------------------------
(* Faulty variants of definitions below, not part of the specification:    *)
(* substituting one for its original shows that a property can fail.       *)

\* The token begins with the spaces before it.
SkipSpaces_Not(s) == s

\* The text's newline is forgotten in the length of its buffer.
ChatBuffer_NoNewline(msg) == TimestampLen + 1 + name_len[user] + 2 + Len(msg) + 1

-----------------------------------------------------------------------------
(* strtok_r(s, " ", &saveptr): a token and what is left for the next call  *)

SkipSpaces(s) == From(s, Span(s, IsSpace))
Token(s) == LET t == SkipSpaces(s) IN SubSeq(t, 1, Span(t, IsNoSpace))
Saveptr(s) == LET t == SkipSpaces(s) IN From(t, Span(t, IsNoSpace) + 1)

make_lowercase(s) == [j \in 1..Len(s) |-> IF s[j] = A THEN a ELSE s[j]]

\* The command table.
find_command(cmd) ==
  CASE cmd = <<Slash, a>> -> "CMD_WHISPER"
    [] cmd = <<Slash, a, a>> -> "CMD_LIST"
    [] cmd = <<Slash, a, a, a>> -> "CMD_SHUTDOWN"
    [] OTHER -> "CMD_UNKNOWN"

-----------------------------------------------------------------------------
(* Texts                                                                   *)

Others(n) == [j \in 1..n |-> Other]
Timestamp == Others(TimestampLen)
NameOf(c) == SubSeq(name[c], 1, name_len[c])

\* format_chat_message: timestamp, space, name, colon and space, message.
format_chat_message(msg) ==
  Timestamp \o <<Space>> \o NameOf(user) \o <<Other, Space>> \o msg \o <<Newline>>
ChatBuffer(msg) == TimestampLen + 1 + name_len[user] + 2 + Len(msg) + 2

\* format_whisper_message.
format_whisper_message(msg) ==
  Timestamp \o Others(WhisperThingLen) \o NameOf(user) \o <<Other, Other, Space>>
    \o msg \o <<Newline>>
WhisperBuffer(msg) ==
  TimestampLen + 2 + WhisperThingLen + name_len[user] + 3 + Len(msg) + 2

\* The lines of the answer to /list.
ListLine(c) ==
  <<[to |-> user, text |-> NameOf(c)],
    [to |-> user, text |-> IF c = user THEN <<Other, Newline>> ELSE <<Newline>>]>>

-----------------------------------------------------------------------------
(* process_payload                                                         *)

Cmd == find_command(make_lowercase(Token(CString(payload))))
IsCommand == payload # << >> /\ payload[1] = Slash
Arguments == Saveptr(CString(payload))

\* A chat message goes to all the others, up to its first NUL.
Chat ==
  /\ result = "none" /\ ~IsCommand
  /\ sent' = LET text == CString(format_chat_message(payload))
             IN <<[to |-> 2, text |-> text], [to |-> 3, text |-> text]>>
  /\ result' = "CMD_OK"
  /\ UNCHANGED <<payload, has_name, name, name_len, server_shutdown>>

handle_list ==
  /\ result = "none" /\ IsCommand /\ Cmd = "CMD_LIST"
  /\ sent' = ListLine(1) \o ListLine(2) \o ListLine(3)
  /\ result' = "CMD_OK"
  /\ UNCHANGED <<payload, has_name, name, name_len, server_shutdown>>

whisper_target == Token(Arguments)
whisper_msg == Saveptr(Arguments)

\* The clients whose name strcmp finds equal.
Matches == {c \in Clients : CString(name[c]) = whisper_target}
target == CHOOSE c \in Matches : \A d \in Matches : c <= d

\* No message, or no such client.
WhisperWarning ==
  /\ result = "none" /\ IsCommand /\ Cmd = "CMD_WHISPER"
  /\ whisper_msg = << >> \/ Matches = {}
  /\ result' = "CMD_WARNING"
  /\ UNCHANGED <<payload, has_name, name, name_len, server_shutdown, sent>>

\* The whisper is written to the target's socket; if that fails the sender is
\* disconnected.
Whisper ==
  /\ result = "none" /\ IsCommand /\ Cmd = "CMD_WHISPER"
  /\ whisper_msg # << >> /\ Matches # {}
  /\ \/ /\ sent' = <<[to |-> target, text |-> CString(format_whisper_message(whisper_msg))]>>
        /\ result' = "CMD_OK"
     \/ result' = "CMD_ERROR" /\ UNCHANGED sent
  /\ UNCHANGED <<payload, has_name, name, name_len, server_shutdown>>

handle_shutdown ==
  /\ result = "none" /\ IsCommand /\ Cmd = "CMD_SHUTDOWN"
  /\ server_shutdown' = TRUE
  /\ result' = "CMD_DISCONNECT"
  /\ UNCHANGED <<payload, has_name, name, name_len, sent>>

server_handle_unknown ==
  /\ result = "none" /\ IsCommand /\ Cmd = "CMD_UNKNOWN"
  /\ result' = "CMD_OK"
  /\ UNCHANGED <<payload, has_name, name, name_len, server_shutdown, sent>>

Next ==
  \/ Chat \/ handle_list \/ WhisperWarning \/ Whisper
  \/ handle_shutdown \/ server_handle_unknown

Spec == Init /\ [][Next]_vars

-----------------------------------------------------------------------------
(* Properties                                                              *)

\* s is "/whisper", one or more spaces, the target, a space and the message,
\* in any case of the command's letters.
IsWhisper(s, t, msg) ==
  \E n \in 1..Len(s), w \in {a, A} :
    /\ s = <<Slash, w>> \o [j \in 1..n |-> Space] \o t \o <<Space>> \o msg
    /\ t # << >> /\ msg # << >> /\ \A j \in 1..Len(t) : t[j] # Space

\* One text was sent: msg, to a client whose name is t.
IsDelivered(t, msg) ==
  /\ Len(sent) = 1 /\ sent[1].to \in Clients /\ CString(name[sent[1].to]) = t
  /\ LET text == format_whisper_message(msg)
     IN sent[1].text = IF CString(NameOf(user)) = NameOf(user) THEN text ELSE CString(text)

\* What strtok_r cuts out of a command is its target and its message: a
\* whisper is sent exactly for a command of the documented form whose target
\* is somebody's name up to its first NUL, once, with the message unchanged up
\* to its end unless a NUL in the sender's name cuts the text off.
WhisperIsParsed ==
  (result # "none" /\ IsCommand /\ Cmd = "CMD_WHISPER") =>
    LET s == CString(payload)
        parses == \E n, m \in 1..Len(s) :
          LET t == SubSeq(s, n, m - 1) msg == From(s, m)
          IN /\ n < m /\ IsWhisper(s, t, msg)
             /\ \E c \in Clients : CString(name[c]) = t
             /\ sent # << >> => IsDelivered(t, msg)
    IN parses <=> result \in {"CMD_OK", "CMD_ERROR"}

\* The buffers that format_chat_message and format_whisper_message allocate
\* have room for the text with its NUL, so neither overflows nor returns the
\* NULL that process_payload hands to strlen.
TextsFit ==
  result # "none" =>
    /\ ~IsCommand => Len(format_chat_message(payload)) < ChatBuffer(payload)
    /\ whisper_msg # << >> =>
         Len(format_whisper_message(whisper_msg)) < WhisperBuffer(whisper_msg)

-----------------------------------------------------------------------------
(* What the code's documentation says and the code does not do.            *)

\* formatting.c: "Manual formatting because we want to be able to handle binary
\* data": a message is delivered as it came, NUL bytes included.
BinaryIsDelivered ==
  (sent # << >> /\ ~IsCommand) => sent[1].text = format_chat_message(payload)

\* client_info.h: "Flag for having name".  A whisper would go to a client that
\* has a name.
WhisperGoesToNamed ==
  (sent # << >> /\ Cmd = "CMD_WHISPER") => has_name[sent[1].to]
=============================================================================
