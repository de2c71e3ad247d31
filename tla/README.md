# A verification of the C chat server

TLA+ models of the epoll chat server in `src/src` and `src/include`, checked with
TLC on small instances and, for the properties that matter most, proved with
TLAPS for every size.

## 1. The system

The server is one thread around `epoll_wait`; the clients talk to it over TCP
with a 6-byte header (`msg_len`, `msg_type`, `msg_done`) and a payload. There is
a client program with two threads, and two fuzz clients under `tests/`.

| Component | State | Operations | What makes it correct |
|---|---|---|---|
| Outgoing queue (`client_utils.c`, `msg_packet.c`, `client_try_write.c`, `epoll_mod.c`) | per client: linked list `head`/`tail`, `queued_bytes`, `queued_count`, `epollout_enabled` | enqueue, the send loop, EPOLLOUT on/off, release | the list is never corrupted; the peer sees whole packets, in order; no wakeup is lost; counters never wrap |
| Broadcast (`broadcast.c`) | none of its own | a packet for every open client but the sender | closed clients get nothing; a full queue refuses a message whole |
| Event loop (`server_loop.c`, `server.c`) | the batch of events, the loop index, `server_shutdown` | reap, wait, dispatch, shut down | no event refers to a freed client; every closed client is released; a shutdown ends |
| Client list (`client_list.c`, `server_state.c`) | `client_list[MAX_CLIENTS]`, `client_count`, the mutex | add, swap-remove, remove all | no duplicate, no lost client, no overflow |
| Accepting (`accept_new_clients.c`, `client_info_init.c`) | the listen backlog | accept until EAGAIN | list, heap and epoll agree, also when a call fails |
| Reading (`handle_client_read.c`, `process_payload.c`, `client_utils.c`) | `state`, header and payload buffers, `partial_msg` | header, payload, append, process, clear | messages are decoded whatever pieces they arrive in |
| Commands (`server_handle_command.c`, `command.c`) | `server_shutdown`, `has_name`, `name` | `/list`, `/whisper`, `/shutdown` | only their own client is affected |
| Protocol and I/O (`protocol.c`, `io.c`) | none | `read_all`, `write_all`, headers | a message is written whole |
| Chat client (`src/client`) | `client_shutdown`, the socket, `info` shared by two threads | input loop, listening thread | both threads end, `info` is freed once |
| Formatting and utilities (`formatting.c`, `utils.c`) | none | lay out a message | the computed length suffices |
| Setup, logging, thread helper | none | system calls, exit on error | - |

Interaction: the loop calls `accept_new_clients`, `handle_client_read` and
`client_try_write`. Reading calls `process_payload`, which broadcasts; a
broadcast changes the queues, the EPOLLOUT registration and the `closed` flag of
*other* clients, whose events may still be in the current batch. A client is only
freed by the reaping loop, before the next `epoll_wait`. Whispers, `/list` answers
and errors are written directly to a socket, past the queue. The mutex in
`server_state` never has a second thread to exclude.

What is hard here: peers connect, send, close and reset between any two steps of
the server; a batch of events is a snapshot that earlier events of the same batch
make stale; `send()` takes any part of what it is given; the swap-remove inside
an index loop; system calls that fail half way through an operation. The hazards,
each at its line and with the properties that cover it, are in `PROJECT.json`.

## 2. The modules

    Wire         the bytes of a packet
    ByteStream   abstract: what the outgoing side of a client promises
    MsgQueue     the outgoing queue of one client, down to pointers and bytes
    DirectSend   MsgQueue together with the writes that go past the queue
    ServerLoop   the event loop with all its clients
    Frames       the protocol as a byte stream, with a reference decoder
    Decoder      abstract: what the incoming side of a client promises
    ClientRead   the incoming side of one client, byte by byte
    Commands     what the server makes of one message
    ClientInput  how the chat client cuts standard input into frames
    ChatClient   the two threads of the chat client
    MC*          instances for TLC
    *Proofs      the proofs about MsgQueue, DirectSend, ServerLoop, Frames,
                 ClientRead, Commands, ClientInput and ChatClient

`ServerLoop` is the system seen from above; `MsgQueue`, `ClientRead` and `Commands`
are what it abstracts from in one client. `DirectSend` composes the two ways in
which bytes reach a socket. `ClientInput` and `ClientRead` meet in the reference
decoder `Decode` of `Frames`: the one shows that what is typed is what the decoder
finds in the stream, the other that the server processes what the decoder finds.
Both are proved, and so is what joins them: the decoder never revises what it has
made of the bytes that have arrived (`DecodeGrows`).
`ChatClient` has the server's notice and its close as inputs, with what
`ServerLoop`'s shutdown may leave of the notice.

**MsgQueue** has the heap of `struct msg_packet` (`allocated`, `next`, `len`,
`offset`, `data`), the fields of `struct msg_queue`, and `epollout_enabled` and
`closed` of the client. A freed address may be allocated again. `pc` is where the
server thread is with respect to this client. Actions: the three outcomes of
`broadcast` for it (`BroadcastEnqueue`, `BroadcastDrop`, `BroadcastNoMemory`) and
`BroadcastArm`; `EpolloutEvent`; every iteration of `client_try_write` (`SendPart`,
`SendLast`, `SendWouldBlock`, `SendFails`, `WriteDone`); `Disconnect`; the freeing
loop (`BeginRelease`, `ReleaseOne`, `ReleaseDone`), which, as in the code, leaves
`tail` and the counters stale. `wire`, `accepted`, `order` and `at` are history
variables: they guard nothing. The data of a byte is its message and its position.

**ByteStream** says what a client may rely on: each message is accepted or refused
whole, and the wire is a growing prefix of the accepted bytes until it is shut.

**ServerLoop** has a set of addresses for `struct client_info`, each with its
socket; the list; the epoll registrations; the batch; the peers. An event is taken
from the batch in any order (the kernel's order is not specified). `Reap` is one
round of the reaping loop with its index, `Dispatch` one round of the event loop,
`Accept...` one round of the accept loop, `Read...` one round of the read loop. A
broadcast is one step: the peers influence it only through what each `send()`
returns, which is a choice per target (`Outcomes`). The queue is reduced to
empty or not; input to whole headers and payloads (an incomplete one is one that
has not arrived). Of the registrations the model keeps the flags: accepting asks
for IN and RDHUP, `epoll_mod.c` replaces them by IN and OUT, or IN. The model
begins after `init_server` and the `EPOLL_CTL_ADD` of the listening socket; `pc`
ends at `exited`, or at `aborted` if `server_state_destroy` fails.

`SyscallMayFail` switches on the failure paths: `close`, `fcntl`, `malloc` in
`client_info_init`, `EPOLL_CTL_ADD`, `EPOLL_CTL_MOD`, `accept`, `epoll_wait`.
`PeerConnect`, `PeerSend`, `PeerFin`, `PeerReset`, `CloseSocket`, `Events`,
`Registered` and `Ready` stand for the peers and the kernel.

**DirectSend** extends `MsgQueue` by `SendDirect`: `server_send_message` or
`client_send_direct_message` with `write_all`, which on these non-blocking sockets
stops at the first write that would block. `out` is what the client receives from
both; `harmed` records that a direct message was cut or fell into a half-sent packet.

**Frames** has the frame at a place of a stream (`HeaderAt`, `EndAt`, `PayloadAt`,
`WholeAt`), which `Decoder` and the reference decoder share. `DecodeFrom(s)` is the
recursive function on the places of `s`, `Decode(s)` its value at 0.

**ClientRead** has the fields of `struct client_info` that reading uses. A buffer is
the sequence of the bytes in use, so the `_read` and `_len` counters are lengths;
`partial_cap` is what the code believes of `partial_msg`, `block` what the heap
gave (`clear_client_buffer` resets the first and not the second, and a failed
`realloc` makes `block` 0 and leaves the first). Each round of `handle_client_read`
is an action, with the early returns; `append_to_client_buffer` is split at its
doubling loop, its `realloc` and its `memcpy`. A read takes all that is there, up to
what is wanted: cuts arise from what the peer has sent when the read happens.
`process_payload` is reduced to what it means for reading (`Process`,
`ProcessDisconnects`); `Commands` has the rest.

**Decoder** says what a client may rely on in the other direction: the stream is
taken frame by frame, each from where the last one ended, and a message is the
payloads up to a frame with `msg_done`. It has no reads, no states and no buffers.
`ClientRead` implements it (`ImplementsDecoder`): `start` is what was consumed
before the header in progress, `part` what `partial_msg` holds of complete frames
(at the `memcpy` of an append the frame has not been taken yet), and after
a failed `realloc` nothing is promised.

**Commands** starts in a state with one complete message and takes one step:
`strtok_r` with what it leaves for the next call, `make_lowercase`, the command
table, the search for a name, the two formatters with the lengths of the buffers
they allocate, the answers. Command names are shortened to one, two and three
letters, fixed parts of a text to a length. `Names` is what the name fields may
hold, any characters and NULs among them; of a client that has not sent its name
too, since `client_info_init` leaves the field uninitialised.

**ClientInput** is the loop of `client.c` on its data: `buf` with the bytes of earlier
reads still in it, `memchr` over all of it, `last_chunk_filled`, the command
detection. A terminal hands over lines, a pipe any piece (`terminal`). `cuts` is a
history variable, where in `stream` the frames end. What the user means is said by a
recursive function on the places of `typed`, from one line end to the next
(`MessagesFrom`, `LineEnd`, `Line`); `MessagesIn(typed)` is its value at 0.

**ChatClient** is the same loop on its control, with the thread `client_listen`:
`info`, which either thread may free, `client_shutdown`, the descriptor. The build
uses AddressSanitizer, so a use or a second free of a freed `info` is the end of the
process (`aborted`); so is a failed write (`failed`: `handle_error` or SIGPIPE). A
message is what the listener makes of it. `read_all` returns what came before the
close, so a payload that the close cuts is printed as far as it goes (`part`), unless
nothing of it came (`broken`); the rest of its buffer is what the build's allocator
fills it with, so a part is never the notice. The text of the notice comes from
the server's shutdown, or in an answer to `/list` from a client of that name.

Each module with actions has a section of faulty variants (a dropped guard, a
missing reset, ...). They are not part of the specification; substituted for
their originals they violate the property `PROJECT.json` pairs them with, which
shows that the property can fail.

## 3. What is checked

| Run | States | Shows |
|---|---|---|
| `queue_safety` | 1 420 000 | `TypeOK`, `QueueIntact`, `StreamIntact`, `Accounting`, `FramedUnlessHarmed`: three addresses, four broadcasts of 1 or 3 bytes, a limit of 5, any splitting of sends, one message past the queue, failing EPOLL_CTL_MOD |
| `queue_live` | 8 000 | `WakeupArmed`, `AcceptedIsSent`, and that the queue implements `ByteStream` |
| `loop_safety` | 2 060 000 | `NoDangling`, `ListSound`, `OnlyClosedLeave`, `PassedOverMovesUp`, `ShutdownReleases`: three connections, chats and shutdowns, a list of two, batches of two, failing calls |
| `loop_live` | 633 000 | `QueueArmed`, `ClosedIsFinal`, `ResetIsReaped`, `ShutdownCompletes`: two clients that send five pieces of input, among them broadcasts before and after a reset or a `/shutdown` |
| `loop_reap` | 447 000 | `ClosedIsReaped`: two addresses and peers that connect and hang up without end |
| `read` | 318 000 | `BuffersFit`, `NothingLeft`, `DecodesStream`, `MessageIsProcessed`, and that reading implements `Decoder`: any 11 bytes in any pieces, any end, failing `realloc` |
| `client_threads` | 376 000 | `AbortOnlyWhenLeaving`, `ShutdownEnds`, `LeavingEnds`: four lines, four messages |
| `input` | 2 360 000 | `SentIsTyped`, `StreamParses`: every input of up to 7 bytes, from a terminal or a pipe, with a buffer of 3 |
| `commands` | 4 690 000 | `WhisperIsParsed`, `TextsFit`: every message of up to 7 of 5 characters, names that begin alike, are empty or have a NUL |
| `fin_mid_message` | - | counterexample to `FinIsReaped` |
| `reap_skips` | - | counterexample to `ClosedIsDisconnected` |
| `direct_mid_packet` | - | counterexample to `PartialWritesHandled` |

*Bounds.* `MaxMsgs`, `MaxConnects` and `MaxSends` only bound the length of a
behaviour. In `loop_reap` the count of connections is renewed (`RenewSpec` of
`MCServerLoop`), so that behaviours do not end: `ClosedIsReaped` supposes that the
loop goes round for ever, which a bounded number of connections could not make it do. Three addresses and a limit of five bytes let the list be empty, have
one, and several packets, be full, and reuse a freed address. A list of two with three
connections has the list full, the swap of a last entry into an earlier place,
and a removed client whose address is used again. `MAX_EVENTS = 2` leaves events
for a later `epoll_wait`. `loop_reap`, where events never cease, uses 3, so that a batch
holds every source (the kernel rotates its ready list, which a set of events does not
express).
`ClientRead` has bytes 0 and 1, so a length is 0 to 3 with `BUF_SIZE = 2`: empty,
fitting and too large payloads; 11 bytes hold three frames, a name and a
message, and a message in chunks for which `partial_msg` grows. In `ClientInput` a
line is shorter than, as long as, or longer than the buffer, and there is room for a
second one. Seven characters hold a whisper with several spaces, its target and a
message. Deadlock is not checked: all these systems end.

*Fairness.* `ServerLoop`: weak fairness of the server thread, nothing of the
peers (nor of their renewal in `loop_reap`, where they may stop at any time). Since the peers' input is bounded the read loop ends; a peer that sends for
ever could starve the others in the code. `MsgQueue`: the thread does not stop in a
handler (weak fairness of `BroadcastArm` and `WriteDone`), EPOLLOUT is level-triggered
(weak fairness of `EpolloutEvent`), and a connected peer keeps reading, so `send()`
takes something again and again (strong fairness of `Send`). Closing,
refusing and blocking need no fairness. `ClientRead`: weak fairness of the server
thread and of the level-triggered EPOLLIN. `ChatClient`: weak fairness of the
two threads and of the server's answer to a `/shutdown` it has received
(`ShutdownCompletes` of the server); nothing of the user, who need not type, or of
the server's messages.

*Findings.*

1. **A graceful close can go unnoticed** (`FinIsReaped`). `epoll_mod.c` drops
   EPOLLRDHUP at the first change of the registration. A client that then closes
   between a header and the end of its payload makes `read()` return 0, which
   `handle_client_read` takes for a short payload. It is never released, and the
   level-triggered event keeps the loop spinning.
2. **The reaping loop skips a client** (`ClosedIsDisconnected`). The last client
   takes the removed one's place and the index moves past it; if both were
   closed, the second stays connected while `epoll_wait` blocks. What does hold: the
   loop passes over a closed client only while moving it up (`PassedOverMovesUp`), and
   it is released if the loop keeps going round (`ClosedIsReaped`), for instance because
   other peers come and go.
3. **A message past the queue tears a packet apart** (`PartialWritesHandled`). A
   whisper or a line of `/list` is written to the socket while the head of the queue
   is sent in part; the client takes the bytes for the rest of that packet and loses
   its place in the stream. `FramedUnlessHarmed` says that this, and a direct message
   that was cut, are the only ways in which it can.

*What else the comments say and the code does not do.* The modules state these at
their end; none holds, which TLC shows within seconds when one is put in place of
the properties of the module's cfg.

| Statement | What happens instead |
|---|---|
| `DestroyCleansUp` (ServerLoop) | After a failed `epoll_wait`, `server_state_destroy` destroys the mutex and leaves clients and listening socket open, against `server_state.h`. |
| `NameKeepsMax` (ClientRead) | A name of `NAME_MAX` bytes or more keeps `NAME_MAX - 1` of them, against `client_utils.h`. |
| `AppendFailureIsSurvived` (ClientRead) | A failed `realloc` is a warning; the next use goes through NULL. |
| `WriteAllWritesAll` (DirectSend) | `write_all` on a full socket gives up with a part written, against `io.h`. |
| `InfoOutlivesListener` (ChatClient) | After `/shutdown` the main thread frees `info` while `client_listen` still uses or frees it. `AbortOnlyWhenLeaving`: only then. |
| `JoinReturns` (ChatClient) | At the end of input the main thread joins a thread that waits for the server. |
| `ListenerStays` (ChatClient) | A message of length 0, such as the name of a nameless client in `/list`, ends the listening thread. |
| `LeavingIsNoError` (ChatClient) | `/quit` closes the socket and then writes to it, and exits through `handle_error`. |
| `PipedIsSent` (ClientInput) | From a pipe, several lines in one read are one message, and the last byte of a piece is dropped as a newline. |
| `LeavesByMessage` (ClientInput) | A piece of a long line that looks like `/quit` ends the client. |
| `BinaryIsDelivered` (Commands) | A message ends at its first NUL byte. |
| `WhisperGoesToNamed` (Commands) | A whisper reaches a client without a name whose uninitialised name matches. |

Nothing in the repository speaks of one more case: a `/` read alone (from a pipe, or
before an end of input at a terminal) is overwritten by the terminating NUL;
`strtok_r` then returns NULL, `client.c:85` takes its length, and the chat client
crashes (`ReadLoneSlash` in `ClientInput`).

## 4. What is proved

The proofs hold for all values of the constants that satisfy the modules'
assumptions: any sets of addresses, lengths, limits, buffer sizes and names, and any
failures. Every invariant that a passing run checks is a theorem, and so are the
refinements `ImplementsStream` and `ImplementsDecoder` and the action properties
`ClosedIsFinal`, `OnlyClosedLeave` and `PassedOverMovesUp`. The assumptions are only
what the modules' ASSUMEs say: bytes have at least two values, limits and lengths are
natural numbers (positive where they size a buffer or an array), an address is not
`NULL`, a name is a sequence of characters; and for the chat client a `BUF_SIZE` of at
least 2 that two bytes of a header can express, and a newline that is not a slash.

**FramesProofs** is about the reference decoder. Its recursion is a `CHOOSE` of a
function that satisfies an equation, so nothing is known of it before one is shown
to exist. `Backwards` is the induction that does it, from the end of the stream to its
front, by the least distance from the end at which a set of places has a gap (the
well-foundedness of `Nat`; no theorem with an operator parameter is needed);
`RecursionExists` builds the function, for any recursion that goes on to a later
place, and `DecodeStep` is then one step of the decoder. The central notion is
`Parsed(s, p, d, q)`: of the first `p` bytes of `s` the messages `d` and the beginning
`q` of another one have been made, *whatever follows* `s`. Because it quantifies over
what follows, it survives both events of a receiver, more bytes (`ParsedMore`) and a
frame that is taken (`ParsedFrame`), and at a place without a whole frame it gives
`Decode(s) = d` (`ParsedEnd`). From it follows `DecodeGrows`: more bytes only add
messages.

**MsgQueueProofs**: `TypeCorrect`, `QueueSound`, `StreamSound`, `AccountingSound`,
`WakeupSound` and `StreamRefinement` (the queue implements `ByteStream`). The
invariant `IInv` is needed because `StreamIntact` says nothing of what is still to be
sent: it adds that the list is `order` (`ListShape`, `TailShape`), what each packet in
it holds (`Content`: the bytes of `accepted` from `at` on), that the packets follow one
another without gap and the first one's offset is where the wire ends
(`Positions`), and the EPOLLOUT registration inside the handlers
(`Registration`). A send then appends exactly the next accepted bytes.

**DirectSendProofs**: `QueueUnaffected` (a step of `DirectSend` is a step of `MsgQueue`
or leaves its variables alone, so the theorems above hold there), and `DirectSound`
(`FramedUnlessHarmed`). The invariant ties the two streams together: every byte
received is of a message that was sent (`Known`), the size of a queued message is the
length of its packet (`Sized`), and the last byte received is the last one sent of
the packet in progress, or else the end of a message (`Joint`). Without `Joint` a byte
of the queue could not be shown to continue its packet in `out`.

**ServerLoopProofs**: `TypeCorrect`, `ListIsSound`, `NoUseAfterFree`, `NoLostWakeup`
(`QueueArmed`), `ClosedStaysClosed`, `NobodyGivenUp` and `SkipIsBounded` (the action
properties `ClosedIsFinal`, `OnlyClosedLeave` and `PassedOverMovesUp`) and
`ShutdownFreesAll` (`ShutdownReleases`). The
invariant adds that a connection is either in the backlog or listed
(`Connections`), that the batch holds only listed clients and is empty wherever
clients are freed (`BatchSound`: this is why the code may free in the reaping loop
and nowhere else), and where the loop indices point (`IndexSound`). Most steps
neither free nor list a client and are covered by one lemma, `FrameStep`; the swap
of `Reap` rests on `ReapRemoves`: exactly the client at the index is taken out, and
the others stay listed once. `QueueArmed` alone is not inductive: a step after
`remove_all_clients` could lead back to it. `ArmInv` adds that without failing calls
the mutex is unlocked again and the process does not abort. `ShutdownReleases` needs
`ReleaseInv`: the listening socket is open until `remove_all_clients` begins, so that
the end of the server after a failed `epoll_wait` is not taken for a shutdown. Where
it begins, `ListSound` gives that the list holds every client still allocated; each
round then frees one, and because the list has none twice, not one freed before.

**ClientReadProofs**: `TypeCorrect`, `BuffersSound`, `NothingWaits`,
`RefinesDecoder` and `DecodesSound` (`DecodesStream`), for every `BUF_SIZE`, `NAME_MAX` and `Base`. The invariant says how
full the header and payload buffers may be at each step, and that an announced
length was checked before its payload is read (`Reads`); that neither the capacity
nor a block that exists is ever below `BUF_SIZE` (`Blocks`, which is why a capacity
that is reset to `BUF_SIZE` while its block stays large does no harm); and that what
the buffers hold are the last bytes of `consumed`, with the length and the flag where
the header was (`Places`). `Places` makes the abstract header the one the code has
read, so that taking a chunk maps to `TakeFrame` and every read to `Arrive`. For
`DecodesSound` the invariant `Followed` says that the reference decoder has come as
far as the server has: `Parsed` holds of `consumed`, the place where the header in
progress begins, `delivered` and the complete frames in `partial_msg`. A step is a
step of `Decoder`, so only `Arrive` and `TakeFrame` are to be looked at; and in the loop no
whole frame is left (`NoFrameThere`), which is what makes the two agree there.

**CommandsProofs**: `WhisperSound` (`WhisperIsParsed`) and `TextsSound` (`TextsFit`), for
messages of every length. What `strtok_r` returns is said as a place in the string
(`TokenAt`), which exists (`TokenFound`, by the least number with a property) and is
the only one (`TokenUnique`); the documented form of a whisper is said of the
characters of the string (`Form`, `FormOfWhisper`), and the two are compared
(`ArgumentsCut`). The texts are then sums of lengths.

**ClientInputProofs**: `StreamWellFormed` (`StreamParses`). The invariant is the
property and the types; the work is that a header gives back the length it was
made of (`HeaderRoundTrip`: division by `Base` twice), and that a frame written at the
end leaves the earlier ones where they were (`FramePlaced`). `SentSound` (`SentIsTyped`)
follows two readers at once (`InStep`): the decoder is at the end of `stream` with
messages `d` and a beginning `q` (`Parsed`), and the user's lines were followed up to the
place of the next read, with the same `d`, and `q` the part of the current line that was
sent (`Reading`: `last_chunk_filled` is set exactly when there is one, which is why a
lone newline after a full chunk ends the line, and any other one is skipped). What a
terminal's `read()` returns is a part of what was typed that has no newline but its
last byte (`TerminalChunk`), and is as long as `buf` or ends in one, so the newline of
an earlier line, still in `buf`, is never taken for one of this line (`TerminalEnds`). With
`DecodeGrows` this gives `ArrivedSound`: whatever first part of the client's bytes has
arrived, also when the connection breaks in the middle of a frame, decodes to the
first of the lines typed.

**ChatClientProofs**: `TypeCorrect` and `InfoSafeWhileStaying`
(`AbortOnlyWhenLeaving`). The invariant says that as long as the user stays `info` is
freed only in the step in which the listening thread ends (`ListenerOwns`), that the
main thread gets to its `free` only by a command (`FreesByCommand`), and that a
message is there once its header was read (`MessageThere`).

The larger invariants of the queue, the event loop, the reading side and the
client's threads were checked with TLC before they were proved. `Followed` and
`LinesInv` quantify over all byte sequences; of them TLC checks what follows
(`DecodesStream`, `SentIsTyped`). `ArrivedIsTyped` and `DecodeGrows` are proved and not
checked by a run, for the same reason.

Only model-checked: the liveness properties (`AcceptedIsSent`, `ResetIsReaped`,
`ClosedIsReaped`, `ShutdownCompletes`, `MessageIsProcessed`, `ShutdownEnds`,
`LeavingEnds`), since fairness and ENABLED are out of the prover's reach.

## 5. What is not modelled, and the plan

Not modelled: logging and setup (straight-line system calls that end the program
when they fail), `create_and_detach_thread`, `read_packet` and `write_packet` (no
caller), the fuzz clients; crashes on a failed `malloc` whose result the code does
not test (`accept_new_clients.c:42`, `handle_client_read.c:136`,
`process_payload.c:40`); the text of a timestamp. No retry follows a failed
EPOLL_CTL_MOD, nothing bounds the read loop of a client that sends for ever, and a
message that arrives together with a hangup is not read: the models have these
behaviours or bound them, and no property is stated of them.

Next, in this order:

1. `ServerLoop` with the queues of `MsgQueue`, shown to implement `ServerLoop`.
2. `ClientInput` and `ClientRead` with the connection between them as one module, in
   place of the theorems that meet in `Decode`.
