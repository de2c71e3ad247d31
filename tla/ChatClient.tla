----------------------------- MODULE ChatClient -----------------------------
(***************************************************************************)
(* The chat client with its two threads.  The main thread waits for lines  *)
(* on standard input and sends them; the thread client_listen reads what   *)
(* the server sends.  They share the socket, the flag client_shutdown and  *)
(* the heap object info, which either may free.                            *)
(*                                                                         *)
(* A use or a second free of a freed object is what the build's            *)
(* -fsanitize=address makes of it: the process is aborted.                 *)
(***************************************************************************)
EXTENDS Integers, Sequences

CONSTANTS
  MaxLines,         \* bound: lines the user types
  MaxMsgs           \* bound: messages the server sends

ASSUME ClientAssumption == MaxLines \in Nat /\ MaxMsgs \in Nat

VARIABLES
  process,                       \* running, or how it ended
  main, line, disconnecting,     \* the main thread
  listener,                      \* the listening thread
  info, client_shutdown,         \* shared by the threads
  sock,                          \* the client's descriptor sfd
  toClient, connection,          \* what the server has sent; whether it has closed
  typed, sent,                   \* how many lines were typed, messages sent
  has_name, asked                \* the server: it has the name, it got /shutdown

mainVars == <<main, line, disconnecting, typed>>
sharedVars == <<info, client_shutdown>>
serverVars == <<connection, sent>>
requestVars == <<has_name, asked>>
vars == <<process, mainVars, listener, sharedVars, sock, toClient, serverVars,
          requestVars>>

\* What a line is to the main thread: a text (or a command that is only the
\* server's affair), or one of the two commands it knows.
Lines == {"text", "/quit", "/shutdown"}

\* What a message is to the listener.  Of a packet that the close cuts off a
\* "part" has some of its payload, a "broken" one nothing of it.
Messages == {"text", "empty", "notice", "part", "broken"}

Init ==
  /\ process = "running"
  /\ main = "select" /\ line = "text" /\ disconnecting = FALSE /\ typed = 0
  /\ listener = "loop"
  /\ info = "live" /\ client_shutdown = FALSE
  /\ sock = "open"
  /\ toClient = << >> /\ connection = "open" /\ sent = 0
  /\ has_name = FALSE /\ asked = FALSE

Running == process = "running"

-----------------------------------------------------------------------------
(* Faulty variants of definitions below, not part of the specification:    *)
(* substituting one for its original shows that a property can fail.       *)

\* read_header's 0 is not taken for the end.
ListenEnds_IgnoresEof ==
  /\ Running /\ listener = "header" /\ sock = "closed"
  /\ listener' = "done"
  /\ UNCHANGED <<process, mainVars, sharedVars, sock, toClient, serverVars, requestVars>>

\* The main thread returns from the loop without free and join.
AfterWrite_Returns == IF disconnecting THEN "returned" ELSE "select"

\* The main thread looks at client_shutdown only when there is input.
MainStops_OnInput ==
  /\ Running /\ main = "read" /\ client_shutdown
  /\ main' = "join"
  /\ UNCHANGED <<process, line, disconnecting, typed, listener, sharedVars, sock,
                 toClient, serverVars, requestVars>>

\* The listening thread goes on after "Couldnt read payload".
ListenNoPayload_GoesOn ==
  /\ Running /\ listener = "payload"
  /\ sock = "closed" \/ Head(toClient) \in {"empty", "broken"}
  /\ info' = "freed"
  /\ listener' = "loop"
  /\ toClient' = IF sock = "closed" THEN toClient ELSE Tail(toClient)
  /\ UNCHANGED <<process, mainVars, client_shutdown, sock, serverVars, requestVars>>

-----------------------------------------------------------------------------
(* The object info                                                         *)

\* A thread reads info->sfd and goes on with the step given.
Uses(step) ==
  IF info = "live" THEN step /\ UNCHANGED process
  ELSE process' = "aborted" /\ UNCHANGED <<main, listener>>

\* free(info).
Frees ==
  /\ info' = "freed"
  /\ process' = IF info = "live" THEN process ELSE "aborted"

-----------------------------------------------------------------------------
(* The main thread                                                         *)

\* client_shutdown ends the loop, at its head or after select().
MainStops ==
  /\ Running /\ main = "select" /\ client_shutdown
  /\ main' = "join"
  /\ UNCHANGED <<process, line, disconnecting, typed, listener, sharedVars, sock,
                 toClient, serverVars, requestVars>>

\* select() reports input.  (When it times out the loop comes round again.)
MainSelects ==
  /\ Running /\ main = "select" /\ ~client_shutdown
  /\ main' = "read"
  /\ UNCHANGED <<process, line, disconnecting, typed, listener, sharedVars, sock,
                 toClient, serverVars, requestVars>>

\* shutdown() and close().
handle_quit == sock' = "closed"

\* A line is read, and client_handle_command sees to a command.
MainReads(l) ==
  /\ Running /\ main = "read" /\ typed < MaxLines
  /\ line' = l /\ typed' = typed + 1
  /\ disconnecting' = (l # "text")
  /\ IF l = "/quit" THEN handle_quit ELSE UNCHANGED sock
  /\ main' = "write"
  /\ UNCHANGED <<process, listener, sharedVars, toClient, serverVars, requestVars>>

\* A line with nothing but the newline is not sent.
MainReadsNewline ==
  /\ Running /\ main = "read" /\ typed < MaxLines
  /\ typed' = typed + 1
  /\ main' = "select"
  /\ UNCHANGED <<process, line, disconnecting, listener, sharedVars, sock, toClient,
                 serverVars, requestVars>>

\* The end of the input: break.
MainReadsEnd ==
  /\ Running /\ main = "read"
  /\ main' = "join"
  /\ UNCHANGED <<process, line, disconnecting, typed, listener, sharedVars, sock,
                 toClient, serverVars, requestVars>>

AfterWrite == IF disconnecting THEN "free" ELSE "select"

\* The server receives the line.  Its first one is a name, whatever it says.
MainWrites ==
  /\ Running /\ main = "write" /\ sock = "open" /\ connection = "open"
  /\ has_name' = TRUE
  /\ asked' = (asked \/ (has_name /\ line = "/shutdown"))
  /\ main' = AfterWrite
  /\ UNCHANGED <<process, line, disconnecting, typed, listener, sharedVars, sock,
                 toClient, serverVars>>

\* The server has closed: the kernel may still take the bytes.
MainWritesInVain ==
  /\ Running /\ main = "write" /\ sock = "open" /\ connection = "closed"
  /\ main' = AfterWrite
  /\ UNCHANGED <<process, line, disconnecting, typed, listener, sharedVars, sock,
                 toClient, serverVars, requestVars>>

\* Or the write fails: handle_error exits, or SIGPIPE kills the process.  On
\* the descriptor that handle_quit closed it always fails.
MainWriteFails ==
  /\ Running /\ main = "write"
  /\ sock = "closed" \/ connection = "closed"
  /\ process' = "failed"
  /\ UNCHANGED <<mainVars, listener, sharedVars, sock, toClient, serverVars, requestVars>>

\* The user leaves: free(info) and break.
MainFrees ==
  /\ Running /\ main = "free"
  /\ Frees
  /\ main' = "join"
  /\ UNCHANGED <<line, disconnecting, typed, listener, client_shutdown, sock, toClient,
                 serverVars, requestVars>>

\* pthread_join, and main returns.
MainReturns ==
  /\ Running /\ main = "join" /\ listener = "done"
  /\ process' = "returned"
  /\ UNCHANGED <<mainVars, listener, sharedVars, sock, toClient, serverVars, requestVars>>

-----------------------------------------------------------------------------
(* The listening thread, client_listen                                     *)

\* The head of the loop: info->sfd for read_header.
ListenLoop ==
  /\ Running /\ listener = "loop"
  /\ Uses(listener' = "header" /\ UNCHANGED main)
  /\ UNCHANGED <<line, disconnecting, typed, sharedVars, sock, toClient, serverVars,
                 requestVars>>

\* read_header returns a header, or what there was of it.
ListenHeader ==
  /\ Running /\ listener = "header" /\ sock = "open" /\ toClient # << >>
  /\ listener' = "length"
  /\ UNCHANGED <<process, mainVars, sharedVars, sock, toClient, serverVars, requestVars>>

\* read_all finds the end of the stream, or no descriptor.
NothingToRead == sock = "closed" \/ (connection = "closed" /\ toClient = << >>)

\* read_header returns 0 or -1: the server, or handle_quit, closed.
ListenEnds ==
  /\ Running /\ listener = "header" /\ NothingToRead
  /\ listener' = "done"
  /\ UNCHANGED <<process, mainVars, sharedVars, sock, toClient, serverVars, requestVars>>

\* info->sfd for read_payload.
ListenLength ==
  /\ Running /\ listener = "length"
  /\ Uses(listener' = "payload" /\ UNCHANGED main)
  /\ UNCHANGED <<line, disconnecting, typed, sharedVars, sock, toClient, serverVars,
                 requestVars>>

\* read_payload returns 0 or -1: free(info) and the end.  For a message of no
\* bytes it returns 0 too.  (For a part it returns what there is of it.)
ListenNoPayload ==
  /\ Running /\ listener = "payload"
  /\ sock = "closed" \/ Head(toClient) \in {"empty", "broken"}
  /\ Frees
  /\ listener' = "done"
  /\ toClient' = IF sock = "closed" THEN toClient ELSE Tail(toClient)
  /\ UNCHANGED <<mainVars, client_shutdown, sock, serverVars, requestVars>>

\* "SERVER SHUTDOWN": the main thread is told.
ListenNotice ==
  /\ Running /\ listener = "payload" /\ sock = "open" /\ Head(toClient) = "notice"
  /\ client_shutdown' = TRUE
  /\ Frees
  /\ listener' = "done"
  /\ toClient' = Tail(toClient)
  /\ UNCHANGED <<mainVars, sock, serverVars, requestVars>>

\* A text, or what came of one, is printed ...
ListenPrints ==
  /\ Running /\ listener = "payload" /\ sock = "open" /\ Head(toClient) \in {"text", "part"}
  /\ listener' = "loop"
  /\ toClient' = Tail(toClient)
  /\ UNCHANGED <<process, mainVars, sharedVars, sock, serverVars, requestVars>>

\* ... or cannot be: free(info), and the main thread is told.
ListenCannotPrint ==
  /\ Running /\ listener = "payload" /\ sock = "open" /\ Head(toClient) \in {"text", "part"}
  /\ Frees
  /\ client_shutdown' = TRUE
  /\ listener' = "done"
  /\ toClient' = Tail(toClient)
  /\ UNCHANGED <<mainVars, sock, serverVars, requestVars>>

-----------------------------------------------------------------------------
(* The server, as far as this client sees it                               *)

\* A chat message, a whisper or the answer to /list, in which the name of a
\* client that has not sent one is an empty message, and that of a client which
\* calls itself SERVER SHUTDOWN a notice.
ServerSends(m) ==
  /\ Running /\ connection = "open" /\ sent < MaxMsgs
  /\ toClient' = Append(toClient, m)
  /\ sent' = sent + 1
  /\ UNCHANGED <<process, mainVars, listener, sharedVars, sock, connection, requestVars>>

\* The server closes: on the request of this client without a word, at the
\* end of the server with a notice, or with what the socket took of one.
ServerCloses(last) ==
  /\ Running /\ connection = "open"
  /\ connection' = "closed"
  /\ toClient' = toClient \o last
  /\ UNCHANGED <<process, mainVars, listener, sharedVars, sock, sent, requestVars>>

ServerAnswers == asked /\ ServerCloses(<< >>)

-----------------------------------------------------------------------------
User == MainSelects

Main ==
  \/ MainStops \/ MainWrites \/ MainWritesInVain \/ MainWriteFails
  \/ MainFrees \/ MainReturns
  \/ (\E l \in Lines : MainReads(l)) \/ MainReadsNewline \/ MainReadsEnd

Listener ==
  \/ ListenLoop \/ ListenHeader \/ ListenEnds \/ ListenLength
  \/ ListenNoPayload \/ ListenNotice \/ ListenPrints \/ ListenCannotPrint

Server ==
  \/ \E m \in {"text", "empty", "notice"} : ServerSends(m)
  \/ \E last \in {<< >>, <<"notice">>, <<"part">>, <<"broken">>} : ServerCloses(last)

Next == User \/ Main \/ Listener \/ Server

Spec == Init /\ [][Next]_vars

\* Both threads run on, and the server, whose read loop is live, gets to the
\* /shutdown it was sent.  Nobody has to type anything, and the server need
\* not say anything.
FairSpec ==
  Spec /\ WF_vars(Main) /\ WF_vars(Listener) /\ WF_vars(ServerAnswers)

-----------------------------------------------------------------------------
(* Properties                                                              *)

\* Type correctness.
TypeOK ==
  /\ process \in {"running", "returned", "failed", "aborted"}
  /\ main \in {"select", "read", "write", "free", "join"}
  /\ line \in Lines /\ disconnecting \in BOOLEAN
  /\ listener \in {"loop", "header", "length", "payload", "done"}
  /\ info \in {"live", "freed"} /\ client_shutdown \in BOOLEAN
  /\ sock \in {"open", "closed"}
  /\ toClient \in Seq(Messages) /\ connection \in {"open", "closed"}
  /\ typed \in 0..MaxLines /\ sent \in 0..MaxMsgs
  /\ has_name \in BOOLEAN /\ asked \in BOOLEAN

\* Only a user who leaves can make the threads collide over info: as long as
\* nobody types /quit or /shutdown it is freed by one thread, once, after its
\* last use.
AbortOnlyWhenLeaving == process = "aborted" => disconnecting

\* The server's notice, what looks like it, or an output that fails, ends the client, whatever
\* the user and the main thread are doing.
ShutdownEnds == client_shutdown ~> ~Running

\* A user who types /quit, or who has a name and types /shutdown, gets out of
\* the client, whatever the listening thread is doing.
LeavingEnds == (sock = "closed" \/ asked) ~> ~Running

-----------------------------------------------------------------------------
(* What the code's documentation says and the code does not do.            *)

\* client_listen.h on its argument: "Expects a pointer to struct listen_info".
\* The thread would have one as long as it runs.
InfoOutlivesListener == process # "aborted"

\* client.c announces "Joined with listen thread, returning now" after the
\* loop: a main thread that waits for the listener would get there.
JoinReturns == (main = "join") ~> ~Running

\* client_listen.h: "Thread worker function that reads from client socket and
\* prints to stdout": it would do so while there is a connection.
ListenerStays ==
  listener = "done" => connection = "closed" \/ sock = "closed" \/ client_shutdown

\* client.c prints "Disconnect or error", frees info and goes on to
\* "[client] Joining with listen thread": a user who leaves by command would
\* not be shown an error.
LeavingIsNoError == (disconnecting /\ connection = "open") => process # "failed"
=============================================================================
