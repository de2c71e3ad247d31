----------------------------- MODULE ServerLoop -----------------------------
(***************************************************************************)
(* The event loop of the server with all its clients: reaping of closed    *)
(* clients, epoll_wait and its batch of events, the accept loop, the read  *)
(* loop with the messages it processes, broadcasts, and the shutdown.      *)
(*                                                                         *)
(* The server is one thread; between any two of its steps the peers may    *)
(* connect, send, close or reset.  A client is an address of a struct      *)
(* client_info together with its socket: the address may be used again     *)
(* after free.  The outgoing queue (module MsgQueue) is reduced to whether *)
(* it is empty, and the input to whole headers and whole payloads.         *)
(***************************************************************************)
EXTENDS Integers, Sequences, FiniteSets

CONSTANTS
  Clients,          \* the addresses a struct client_info can have
  LISTENER,         \* the listening socket, as a source of events
  NOBODY,
  MAX_CLIENTS,      \* server_state.h
  MAX_EVENTS,       \* server_loop.c: events taken by one epoll_wait
  Sendable,         \* what the peers send, see Items
  SyscallMayFail,   \* whether malloc, close, fcntl, epoll_ctl, ... can fail
  MaxConnects,      \* bound: connections made in one behaviour
  MaxSends          \* bound: headers and payloads sent by the peers

\* What a peer can send: a header, one that announces more than BUF_SIZE
\* bytes, or the payload of a header.  A "chunk" has msg_done = 0; the others
\* are complete messages ("list" stands for every command that answers the
\* user or is unknown).
Headers == {"head", "bad"}
Payloads == {"chunk", "text", "list", "whisper", "shutdown"}
Items == Headers \cup Payloads

ASSUME ServerAssumption ==
  /\ LISTENER \notin Clients /\ NOBODY \notin Clients
  /\ MAX_CLIENTS \in Nat \ {0}
  /\ MAX_EVENTS \in Nat \ {0}
  /\ Sendable \subseteq Items
  /\ SyscallMayFail \in BOOLEAN
  /\ MaxConnects \in Nat /\ MaxSends \in Nat

VARIABLES
  allocated,         \* the client_info objects between malloc and free
  leaked,            \* accepted connections no one will ever release
  client_list,       \* server_state's client_list[0 .. client_count - 1]
  closed, has_name, epollout_enabled, state,   \* struct client_info
  queued,            \* msg_queue.head # NULL
  interest,          \* the epoll registration of a client; {} if none
  peer,              \* the other end: "none", "open", "fin" or "reset"
  inq, mid,          \* items arrived and not read; header sent, payload not
  backlog,           \* connections waiting to be accepted
  pc,                \* where the server thread is
  i,                 \* index of the reaping loop, and of remove_all_clients
  batch,             \* events returned by epoll_wait and not yet handled
  cur, pending_out,  \* the client being read, and EPOLLOUT in its event
  server_shutdown, server_open, mutex_locked,
  connects, sends

listVars == <<allocated, leaked, client_list>>
infoVars == <<closed, has_name, epollout_enabled, state, queued, interest>>
netVars == <<peer, inq, mid, backlog, connects, sends>>
loopVars == <<pc, i, batch, cur, pending_out>>
serverVars == <<server_shutdown, server_open, mutex_locked>>
vars == <<listVars, infoVars, netVars, loopVars, serverVars>>

PCs == {"reap", "wait", "batch", "accept", "read", "write",
        "notify", "close", "remove_all", "destroy", "exited", "aborted"}

Init ==
  /\ allocated = {} /\ leaked = {} /\ client_list = << >>
  /\ closed = [c \in Clients |-> FALSE]
  /\ has_name = [c \in Clients |-> FALSE]
  /\ epollout_enabled = [c \in Clients |-> FALSE]
  /\ state = [c \in Clients |-> "READ_HEADER"]
  /\ queued = [c \in Clients |-> FALSE]
  /\ interest = [c \in Clients |-> {}]
  /\ peer = [c \in Clients |-> "none"]
  /\ inq = [c \in Clients |-> << >>]
  /\ mid = [c \in Clients |-> FALSE]
  /\ backlog = {}
  /\ pc = "reap" /\ i = 1
  /\ batch = << >>
  /\ cur = NOBODY /\ pending_out = FALSE
  /\ server_shutdown = FALSE /\ server_open = TRUE /\ mutex_locked = FALSE
  /\ connects = 0 /\ sends = 0

-----------------------------------------------------------------------------
(* Faulty variants of definitions below, not part of the specification:    *)
(* substituting one for its original shows that a property can fail.       *)

\* add_client_to_list accepts one client too many.
HasRoom_OneMore == Len(client_list) <= MAX_CLIENTS

\* The last entry is dropped, but not moved to the place of the removed one.
SwapRemove_NoSwap(n) == [k \in 1..(Len(client_list) - 1) |-> client_list[k]]

\* The loop goes back to reaping before the batch is finished.
BatchEnd_Early ==
  /\ pc = "batch"
  /\ pc' = IF server_shutdown THEN "notify" ELSE "reap"
  /\ i' = 1
  /\ UNCHANGED <<listVars, infoVars, netVars, batch, cur, pending_out, serverVars>>

\* The loop never looks at server_shutdown.
BatchEnd_Deaf ==
  /\ pc = "batch" /\ DOMAIN batch = {}
  /\ pc' = "reap"
  /\ i' = 1
  /\ UNCHANGED <<listVars, infoVars, netVars, batch, cur, pending_out, serverVars>>

\* The reaping loop begins where the last one ended.
BatchEnd_KeepsIndex ==
  /\ pc = "batch" /\ DOMAIN batch = {}
  /\ pc' = IF server_shutdown THEN "notify" ELSE "reap"
  /\ UNCHANGED <<listVars, infoVars, netVars, i, batch, cur, pending_out, serverVars>>

\* EPOLL_CTL_MOD is never called.
Modified_Never(asking) == {{}}

\* broadcast does not skip closed clients.
Targets_Closed(sender) ==
  {c \in Clients : /\ \E k \in 1..Len(client_list) : client_list[k] = c
                   /\ c # sender}

\* The reaping loop may stop before the last client.
ReapEnd_Early ==
  /\ pc = "reap" /\ i >= Len(client_list)
  /\ pc' = "wait"
  /\ UNCHANGED <<listVars, infoVars, netVars, i, batch, cur, pending_out,
                 serverVars>>

\* remove_all_clients begins before the last client.
CloseListener_LastKept ==
  /\ pc = "close"
  /\ server_open' = FALSE
  /\ backlog' = {}
  /\ peer' = [c \in Clients |-> IF c \in backlog THEN "none" ELSE peer[c]]
  /\ inq' = [c \in Clients |-> IF c \in backlog THEN << >> ELSE inq[c]]
  /\ mid' = [c \in Clients |-> mid[c] /\ c \notin backlog]
  /\ queued' = [c \in Clients |-> FALSE]
  /\ pc' = "remove_all"
  /\ i' = IF client_list = << >> THEN 0 ELSE Len(client_list) - 1
  /\ UNCHANGED <<listVars, closed, has_name, epollout_enabled, state, interest,
                 connects, sends, batch, cur, pending_out, server_shutdown,
                 mutex_locked>>

-----------------------------------------------------------------------------
(* The peers                                                               *)

PeerConnect(c) ==
  /\ peer[c] = "none" /\ c \notin leaked
  /\ server_open /\ connects < MaxConnects
  /\ peer' = [peer EXCEPT ![c] = "open"]
  /\ backlog' = backlog \cup {c}
  /\ connects' = connects + 1
  /\ UNCHANGED <<listVars, infoVars, inq, mid, sends, loopVars, serverVars>>

PeerSend(c, item) ==
  /\ peer[c] = "open" /\ sends < MaxSends
  /\ item \in IF mid[c] THEN Payloads ELSE Headers
  /\ inq' = [inq EXCEPT ![c] = Append(@, item)]
  /\ mid' = [mid EXCEPT ![c] = item = "head"]
  /\ sends' = sends + 1
  /\ UNCHANGED <<listVars, infoVars, peer, backlog, connects, loopVars, serverVars>>

\* The peer closes its side after what it has sent ...
PeerFin(c) ==
  /\ peer[c] = "open"
  /\ peer' = [peer EXCEPT ![c] = "fin"]
  /\ UNCHANGED <<listVars, infoVars, inq, mid, backlog, connects, sends,
                 loopVars, serverVars>>

\* ... or the connection breaks.
PeerReset(c) ==
  /\ peer[c] \in {"open", "fin"}
  /\ peer' = [peer EXCEPT ![c] = "reset"]
  /\ UNCHANGED <<listVars, infoVars, inq, mid, backlog, connects, sends,
                 loopVars, serverVars>>

-----------------------------------------------------------------------------
(* Removing clients                                                        *)

\* client_list without its element at n: the last one takes its place.
SwapRemove(n) ==
  [k \in 1..(Len(client_list) - 1) |->
     IF k = n THEN client_list[Len(client_list)] ELSE client_list[k]]

\* The socket of c is closed: the kernel forgets its registration and data.
CloseSocket(c) ==
  /\ interest' = [interest EXCEPT ![c] = {}]
  /\ peer' = [peer EXCEPT ![c] = "none"]
  /\ inq' = [inq EXCEPT ![c] = << >>]
  /\ mid' = [mid EXCEPT ![c] = FALSE]

\* Whether close() succeeds.  (A descriptor is gone in either case.)
CloseResults == IF SyscallMayFail THEN BOOLEAN ELSE {TRUE}

\* The socket is closed; the struct is freed only if close() succeeded.
cleanup_client(c, ok) ==
  /\ CloseSocket(c)
  /\ allocated' = IF ok THEN allocated \ {c} ELSE allocated
  /\ leaked' = IF ok THEN leaked ELSE leaked \cup {c}

\* One round of the reaping loop: a closed client is taken out of the list
\* and cleaned up.  The index moves on in either case.
Reap ==
  /\ pc = "reap" /\ i <= Len(client_list)
  /\ IF closed[client_list[i]]
     THEN /\ \E ok \in CloseResults : cleanup_client(client_list[i], ok)
          /\ client_list' = SwapRemove(i)
          /\ queued' = [queued EXCEPT ![client_list[i]] = FALSE]
     ELSE UNCHANGED <<listVars, queued, interest, peer, inq, mid>>
  /\ i' = i + 1
  /\ UNCHANGED <<closed, has_name, epollout_enabled, state, backlog, connects,
                 sends, pc, batch, cur, pending_out, serverVars>>

ReapEnd ==
  /\ pc = "reap" /\ i > Len(client_list)
  /\ pc' = "wait"
  /\ UNCHANGED <<listVars, infoVars, netVars, i, batch, cur, pending_out,
                 serverVars>>

-----------------------------------------------------------------------------
(* epoll                                                                   *)

\* The events epoll reports for c when W are the writable sockets: a hangup
\* (EPOLLHUP, EPOLLERR or a requested EPOLLRDHUP), input, room for output.
Events(c, W) ==
  {f \in {"HUP", "IN", "OUT"} :
     \/ f = "HUP" /\ \/ peer[c] = "reset"
                     \/ peer[c] = "fin" /\ "RDHUP" \in interest[c]
     \/ f = "IN" /\ (inq[c] # << >> \/ peer[c] # "open")
     \/ f = "OUT" /\ "OUT" \in interest[c] /\ c \in W}

Registered == {c \in Clients : interest[c] # {}}

Ready(W) ==
  {c \in Registered : Events(c, W) # {}}
    \cup (IF backlog # {} THEN {LISTENER} ELSE {})

\* epoll_wait returns the ready sources, or MAX_EVENTS of them.
EpollWait ==
  /\ pc = "wait"
  /\ \E W \in SUBSET {c \in Registered : "OUT" \in interest[c]} :
     \E S \in SUBSET Ready(W) :
       /\ S # {}
       /\ Cardinality(S) <= MAX_EVENTS
       /\ S # Ready(W) => Cardinality(S) = MAX_EVENTS
       /\ batch' = [e \in S |-> IF e = LISTENER THEN {"IN"} ELSE Events(e, W)]
  /\ pc' = "batch"
  /\ UNCHANGED <<listVars, infoVars, netVars, i, cur, pending_out, serverVars>>

\* epoll_wait is interrupted: server_loop returns -1.
EpollWaitFails ==
  /\ pc = "wait" /\ SyscallMayFail
  /\ pc' = "destroy"
  /\ UNCHANGED <<listVars, infoVars, netVars, i, batch, cur, pending_out,
                 serverVars>>

\* The events other than e.
Without(e) == [x \in DOMAIN batch \ {e} |-> batch[x]]

\* The next event is taken from the batch.
Dispatch(e) ==
  /\ pc = "batch" /\ e \in DOMAIN batch
  /\ batch' = Without(e)
  /\ IF e = LISTENER
     THEN pc' = "accept" /\ UNCHANGED <<closed, cur, pending_out>>
     ELSE \/ /\ closed[e]
             /\ UNCHANGED <<pc, closed, cur, pending_out>>
          \/ /\ ~closed[e] /\ "HUP" \in batch[e]
             /\ closed' = [closed EXCEPT ![e] = TRUE]
             /\ UNCHANGED <<pc, cur, pending_out>>
          \/ /\ ~closed[e] /\ "HUP" \notin batch[e]
             /\ pc' = IF "IN" \in batch[e] THEN "read" ELSE "write"
             /\ cur' = e
             /\ pending_out' = ("OUT" \in batch[e])
             /\ UNCHANGED closed
  /\ UNCHANGED <<listVars, has_name, epollout_enabled, state, queued, interest,
                 netVars, i, serverVars>>

\* All events are handled; only now does the loop look at server_shutdown.
BatchEnd ==
  /\ pc = "batch" /\ DOMAIN batch = {}
  /\ pc' = IF server_shutdown THEN "notify" ELSE "reap"
  /\ i' = 1
  /\ UNCHANGED <<listVars, infoVars, netVars, batch, cur, pending_out, serverVars>>

-----------------------------------------------------------------------------
(* accept_new_clients                                                      *)

\* No connection is waiting, or accept() fails: back to the batch.
AcceptEnd ==
  /\ pc = "accept"
  /\ backlog = {} \/ SyscallMayFail
  /\ pc' = "batch"
  /\ UNCHANGED <<listVars, infoVars, netVars, i, batch, cur, pending_out,
                 serverVars>>

\* fcntl, client_info_init or EPOLL_CTL_ADD fails after accept(): the
\* descriptor is not released, nor is the struct, if it was allocated.
AcceptLeaks(c) ==
  /\ pc = "accept" /\ c \in backlog /\ SyscallMayFail
  /\ backlog' = backlog \ {c}
  /\ leaked' = leaked \cup {c}
  /\ allocated' \in {allocated, allocated \cup {c}}
  /\ pc' = "batch"
  /\ UNCHANGED <<client_list, infoVars, peer, inq, mid, connects, sends,
                 i, batch, cur, pending_out, serverVars>>

HasRoom == Len(client_list) < MAX_CLIENTS

\* The list is full: the connection is closed and accept_new_clients gives
\* up, even if more connections wait.
AcceptFull(c) ==
  /\ pc = "accept" /\ c \in backlog
  /\ ~HasRoom
  /\ backlog' = backlog \ {c}
  /\ CloseSocket(c)
  /\ pc' = "batch"
  /\ UNCHANGED <<listVars, closed, has_name, epollout_enabled, state, queued,
                 connects, sends, i, batch, cur, pending_out, serverVars>>

\* client_info_init sets the struct, EPOLL_CTL_ADD registers it, and it is
\* appended to the list.
Accept(c) ==
  /\ pc = "accept" /\ c \in backlog /\ HasRoom
  /\ backlog' = backlog \ {c}
  /\ allocated' = allocated \cup {c}
  /\ client_list' = Append(client_list, c)
  /\ closed' = [closed EXCEPT ![c] = FALSE]
  /\ has_name' = [has_name EXCEPT ![c] = FALSE]
  /\ epollout_enabled' = [epollout_enabled EXCEPT ![c] = FALSE]
  /\ state' = [state EXCEPT ![c] = "READ_HEADER"]
  /\ queued' = [queued EXCEPT ![c] = FALSE]
  /\ interest' = [interest EXCEPT ![c] = {"IN", "RDHUP"}]
  /\ UNCHANGED <<leaked, peer, inq, mid, connects, sends, loopVars, serverVars>>

-----------------------------------------------------------------------------
(* broadcast: every open client but the sender gets the message, or not.   *)

Targets(sender) ==
  {c \in Clients : /\ \E k \in 1..Len(client_list) : client_list[k] = c
                   /\ c # sender /\ ~closed[c]}

\* broadcast sends to c at once: nothing is queued and no EPOLLOUT awaited.
Direct(c) == ~queued[c] /\ ~epollout_enabled[c]

\* What can become of the message for target c: dropped (no memory, or over
\* the limit), queued and all sent, queued and still there, or the send
\* fails because the connection is broken.
Outcomes(c) ==
  {"dropped"} \cup
    (IF ~Direct(c) THEN {"kept"}
     ELSE IF peer[c] = "reset" THEN {"failed"} ELSE {"sent", "kept"})

\* The set of clients whose EPOLL_CTL_MOD succeeds, out of those that ask.
Modified(asking) == IF SyscallMayFail THEN SUBSET asking ELSE {asking}

\* The broadcast's effect, as one step: the other end of a connection only
\* influences it through the outcomes.  enable_epollout_for_client replaces
\* the registration by EPOLLIN | EPOLLOUT.
broadcast(sender) ==
  LET T == Targets(sender) IN
  \E outcome \in [T -> {"dropped", "sent", "kept", "failed"}] :
    /\ \A c \in T : outcome[c] \in Outcomes(c)
    /\ closed' = [c \in Clients |->
                    closed[c] \/ (c \in T /\ outcome[c] = "failed")]
    /\ queued' = [c \in Clients |->
                    queued[c] \/ (c \in T /\ outcome[c] \in {"kept", "failed"})]
    /\ \E A \in Modified({c \in T : queued'[c] /\ ~epollout_enabled[c]}) :
         /\ epollout_enabled' =
              [c \in Clients |-> epollout_enabled[c] \/ c \in A]
         /\ interest' =
              [c \in Clients |-> IF c \in A THEN {"IN", "OUT"} ELSE interest[c]]

-----------------------------------------------------------------------------
(* handle_client_read and process_payload, for the client cur              *)

\* handle_client_read or client_try_write returns -1: the client is closed
\* and the rest of its event is skipped.
CloseCur ==
  /\ closed' = [closed EXCEPT ![cur] = TRUE]
  /\ pc' = "batch"

\* handle_client_read returns 0.
AfterRead == IF pending_out THEN "write" ELSE "batch"

Item == Head(inq[cur])
Take == inq' = [inq EXCEPT ![cur] = Tail(@)]
SetState(st) == state' = [state EXCEPT ![cur] = st]

Reading(st) == pc = "read" /\ state[cur] = st

\* A whole header arrived.
ReadHeader ==
  /\ Reading("READ_HEADER") /\ inq[cur] # << >> /\ Item = "head"
  /\ Take /\ SetState("READ_PAYLOAD")
  /\ UNCHANGED <<listVars, closed, has_name, epollout_enabled, queued, interest,
                 peer, mid, backlog, connects, sends, loopVars, serverVars>>

\* The header announces more than BUF_SIZE.
ReadBadHeader ==
  /\ Reading("READ_HEADER") /\ inq[cur] # << >> /\ Item = "bad"
  /\ Take /\ CloseCur
  /\ UNCHANGED <<listVars, has_name, epollout_enabled, state, queued, interest,
                 peer, mid, backlog, connects, sends, i, batch, cur, pending_out,
                 serverVars>>

\* read() fails because of a reset, or ends the stream between messages.
ReadEnds ==
  /\ pc = "read" /\ inq[cur] = << >>
  /\ \/ peer[cur] = "reset"
     \/ peer[cur] = "fin" /\ state[cur] = "READ_HEADER"
  /\ CloseCur
  /\ UNCHANGED <<listVars, has_name, epollout_enabled, state, queued, interest,
                 netVars, i, batch, cur, pending_out, serverVars>>

\* read() would block.  The end of the stream inside a payload is handled
\* alike: 0 bytes were read, more are needed, 0 is returned.
ReadReturns ==
  /\ pc = "read" /\ inq[cur] = << >>
  /\ \/ peer[cur] = "open"
     \/ peer[cur] = "fin" /\ state[cur] = "READ_PAYLOAD"
  /\ pc' = AfterRead
  /\ UNCHANGED <<listVars, infoVars, netVars, i, batch, cur, pending_out,
                 serverVars>>

\* The payload completes no message, is the client's name, or is a command
\* that leaves the clients as they are (/list, an unknown command, a whisper
\* that is delivered or has no target).
ReadQuiet ==
  /\ Reading("READ_PAYLOAD") /\ inq[cur] # << >>
  /\ Item = "chunk" \/ ~has_name[cur] \/ Item \in {"list", "whisper"}
  /\ Take /\ SetState("READ_HEADER")
  /\ has_name' = [has_name EXCEPT ![cur] = @ \/ Item # "chunk"]
  /\ UNCHANGED <<listVars, closed, epollout_enabled, queued, interest,
                 peer, mid, backlog, connects, sends, loopVars, serverVars>>

\* A chat message.
ReadText ==
  /\ Reading("READ_PAYLOAD") /\ inq[cur] # << >>
  /\ has_name[cur] /\ Item = "text"
  /\ Take /\ SetState("READ_HEADER")
  /\ broadcast(cur)
  /\ UNCHANGED <<listVars, has_name, peer, mid, backlog, connects, sends,
                 loopVars, serverVars>>

\* A whisper whose write fails disconnects the one who whispers.
ReadWhisperFails ==
  /\ Reading("READ_PAYLOAD") /\ inq[cur] # << >>
  /\ has_name[cur] /\ Item = "whisper"
  /\ Take /\ CloseCur
  /\ UNCHANGED <<listVars, has_name, epollout_enabled, state, queued, interest,
                 peer, mid, backlog, connects, sends, i, batch, cur, pending_out,
                 serverVars>>

\* /shutdown: the flag is set and the one who asked is disconnected.
ReadShutdown ==
  /\ Reading("READ_PAYLOAD") /\ inq[cur] # << >>
  /\ has_name[cur] /\ Item = "shutdown"
  /\ Take /\ CloseCur
  /\ server_shutdown' = TRUE
  /\ UNCHANGED <<listVars, has_name, epollout_enabled, state, queued, interest,
                 peer, mid, backlog, connects, sends, i, batch, cur, pending_out,
                 server_open, mutex_locked>>

handle_client_read ==
  ReadHeader \/ ReadBadHeader \/ ReadEnds \/ ReadReturns \/ ReadQuiet
    \/ ReadText \/ ReadWhisperFails \/ ReadShutdown

-----------------------------------------------------------------------------
(* client_try_write for an EPOLLOUT event of cur                           *)

\* Everything was sent (or nothing was queued): EPOLLOUT is given up, and
\* the registration becomes EPOLLIN.
WriteAll ==
  /\ pc = "write" /\ (queued[cur] => peer[cur] # "reset")
  /\ queued' = [queued EXCEPT ![cur] = FALSE]
  /\ \E A \in Modified({c \in {cur} : epollout_enabled[c]}) :
       /\ epollout_enabled' =
            [c \in Clients |-> epollout_enabled[c] /\ c \notin A]
       /\ interest' = [c \in Clients |-> IF c \in A THEN {"IN"} ELSE interest[c]]
  /\ pc' = "batch"
  /\ UNCHANGED <<listVars, closed, has_name, state, netVars, i, batch, cur,
                 pending_out, serverVars>>

WriteSome ==
  /\ pc = "write" /\ queued[cur] /\ peer[cur] # "reset"
  /\ pc' = "batch"
  /\ UNCHANGED <<listVars, infoVars, netVars, i, batch, cur, pending_out,
                 serverVars>>

WriteFails ==
  /\ pc = "write" /\ queued[cur] /\ peer[cur] = "reset"
  /\ CloseCur
  /\ UNCHANGED <<listVars, has_name, epollout_enabled, state, queued, interest,
                 netVars, i, batch, cur, pending_out, serverVars>>

client_try_write == WriteAll \/ WriteSome \/ WriteFails

-----------------------------------------------------------------------------
(* The shutdown                                                            *)

\* SERVER SHUTDOWN is broadcast ...
Notify ==
  /\ pc = "notify"
  /\ broadcast(NOBODY)
  /\ pc' = "close"
  /\ UNCHANGED <<listVars, has_name, state, netVars, i, batch, cur, pending_out,
                 serverVars>>

\* ... the listening socket is closed, with it the connections that wait to
\* be accepted, and the queues of all clients are freed as they are.
CloseListener ==
  /\ pc = "close"
  /\ server_open' = FALSE
  /\ backlog' = {}
  /\ peer' = [c \in Clients |-> IF c \in backlog THEN "none" ELSE peer[c]]
  /\ inq' = [c \in Clients |-> IF c \in backlog THEN << >> ELSE inq[c]]
  /\ mid' = [c \in Clients |-> mid[c] /\ c \notin backlog]
  /\ queued' = [c \in Clients |-> FALSE]
  /\ pc' = "remove_all" /\ i' = Len(client_list)
  /\ UNCHANGED <<listVars, closed, has_name, epollout_enabled, state, interest,
                 connects, sends, batch, cur, pending_out, server_shutdown,
                 mutex_locked>>

\* One round of remove_all_clients.  The list keeps its entries; if
\* cleanup_client fails, the function returns with the mutex locked.
RemoveNext ==
  /\ pc = "remove_all" /\ i > 0
  /\ \E ok \in CloseResults :
       /\ cleanup_client(client_list[i], ok)
       /\ i' = IF ok THEN i - 1 ELSE i
       /\ pc' = IF ok THEN pc ELSE "destroy"
       /\ mutex_locked' = ~ok
  /\ UNCHANGED <<client_list, closed, has_name, epollout_enabled, state, queued,
                 backlog, connects, sends, batch, cur, pending_out,
                 server_shutdown, server_open>>

RemoveEnd ==
  /\ pc = "remove_all" /\ i = 0
  /\ pc' = "destroy"
  /\ UNCHANGED <<listVars, infoVars, netVars, i, batch, cur, pending_out,
                 serverVars>>

\* server_state_destroy only destroys the mutex, which fails if it is locked.
server_state_destroy ==
  /\ pc = "destroy"
  /\ pc' = IF mutex_locked THEN "aborted" ELSE "exited"
  /\ UNCHANGED <<listVars, infoVars, netVars, i, batch, cur, pending_out,
                 serverVars>>

-----------------------------------------------------------------------------
Peers ==
  \E c \in Clients :
    \/ PeerConnect(c) \/ PeerFin(c) \/ PeerReset(c)
    \/ \E item \in Sendable : PeerSend(c, item)

accept_new_clients ==
  AcceptEnd \/ \E c \in Clients : AcceptLeaks(c) \/ AcceptFull(c) \/ Accept(c)

\* The server thread's steps, but for the failure of epoll_wait.
Server ==
  \/ Reap \/ ReapEnd
  \/ EpollWait
  \/ \E e \in Clients \cup {LISTENER} : Dispatch(e)
  \/ BatchEnd
  \/ accept_new_clients
  \/ handle_client_read
  \/ client_try_write
  \/ Notify \/ CloseListener \/ RemoveNext \/ RemoveEnd
  \/ server_state_destroy

Next == Peers \/ Server \/ EpollWaitFails

Spec == Init /\ [][Next]_vars

\* The server thread runs on whenever it can.  Nothing is assumed of the
\* peers.
FairSpec == Spec /\ WF_vars(Server)

-----------------------------------------------------------------------------
(* Properties                                                              *)

Flags == {"IN", "OUT", "RDHUP"}

\* Type correctness; the list never outgrows the array client_list.
TypeOK ==
  /\ allocated \subseteq Clients /\ leaked \subseteq Clients
  /\ client_list \in Seq(Clients) /\ Len(client_list) <= MAX_CLIENTS
  /\ closed \in [Clients -> BOOLEAN]
  /\ has_name \in [Clients -> BOOLEAN]
  /\ epollout_enabled \in [Clients -> BOOLEAN]
  /\ state \in [Clients -> {"READ_HEADER", "READ_PAYLOAD"}]
  /\ queued \in [Clients -> BOOLEAN]
  /\ interest \in [Clients -> SUBSET Flags]
  /\ peer \in [Clients -> {"none", "open", "fin", "reset"}]
  /\ inq \in [Clients -> Seq(Items)]
  /\ mid \in [Clients -> BOOLEAN]
  /\ backlog \subseteq Clients
  /\ pc \in PCs
  /\ i \in Nat
  /\ DOMAIN batch \subseteq Clients \cup {LISTENER}
  /\ \A e \in DOMAIN batch : batch[e] \subseteq {"HUP", "IN", "OUT"}
  /\ cur \in Clients \cup {NOBODY} /\ pending_out \in BOOLEAN
  /\ server_shutdown \in BOOLEAN /\ server_open \in BOOLEAN
  /\ mutex_locked \in BOOLEAN
  /\ connects \in 0..MaxConnects /\ sends \in 0..MaxSends

\* The list is being taken down, or was when the server ended.
Ending == pc \in {"remove_all", "destroy", "exited", "aborted"}

Listed == {client_list[k] : k \in 1..Len(client_list)}

\* No event still in the batch, no epoll registration and no client being
\* served refers to a freed client_info, or to one that is closed or no
\* longer in the list.
NoDangling ==
  /\ ~Ending => DOMAIN batch \ {LISTENER} \subseteq allocated
  /\ Registered \subseteq allocated
  /\ pc \in {"read", "write"} => cur \in Listed \cap allocated /\ ~closed[cur]

\* remove_client_from_list's swap keeps each client in the list once; apart
\* from what a failed system call leaked, exactly the listed clients are
\* allocated and registered with epoll.
ListSound ==
  /\ \A j, k \in 1..Len(client_list) : client_list[j] = client_list[k] => j = k
  /\ ~Ending => /\ Listed \cap leaked = {}
                /\ Listed \subseteq allocated
                /\ allocated \subseteq Listed \cup leaked
                /\ Registered = Listed

\* No wakeup is lost: when every EPOLL_CTL_MOD succeeds, a listed client has a
\* queued packet exactly when it is registered for EPOLLOUT, and
\* epollout_enabled tells what the registration is, through broadcasts that
\* send directly, broadcasts that queue, and EPOLLOUT events.
QueueArmed ==
  (~SyscallMayFail /\ pc \notin {"close", "remove_all", "destroy", "exited"}) =>
    \A c \in Listed :
      /\ epollout_enabled[c] <=> "OUT" \in interest[c]
      /\ queued[c] <=> epollout_enabled[c]

\* Once closed, a client is only ever freed: nothing more of its input is
\* read, nothing is queued for it, and it is not opened again, although
\* events for it may still be in the batch.
ClosedIsFinal ==
  [][\A c \in Clients :
       (closed[c] /\ c \in allocated /\ c \in allocated') =>
         /\ closed'[c]
         /\ state'[c] = state[c] /\ has_name'[c] = has_name[c]
         /\ ~queued[c] => ~queued'[c]
         /\ (peer'[c] # "none") => Len(inq'[c]) >= Len(inq[c])]_vars

\* The server gives nobody up: a client leaves the list, or is freed while the
\* server goes on, only when it is closed, and the two happen together,
\* although SwapRemove moves another client into its place.
OnlyClosedLeave ==
  [][/\ \A c \in Listed : c \notin Listed' => closed[c]
     /\ \A c \in allocated \ allocated' :
          pc = "remove_all" \/ (closed[c] /\ c \in Listed /\ c \notin Listed')]_vars

\* The reaping loop may pass over a closed client, but only one that SwapRemove
\* has just moved towards the front, and nothing ever moves a client back: so
\* it is passed over fewer times than there were clients before it.
PassedOverMovesUp ==
  [][\A j \in 1..Len(client_list), k \in 1..Len(client_list') :
       client_list[j] = client_list'[k] =>
         /\ k <= j
         /\ (pc = "reap" /\ i <= j /\ k < i' /\ closed[client_list[j]]) => k < j]_vars

\* remove_all_clients, which leaves the list as it is, frees each client once:
\* those it has not come to are allocated, and no other is, but for what a
\* failed close() leaked.  When it returns none is left.
ShutdownReleases ==
  /\ pc = "remove_all" => allocated \ leaked = {client_list[k] : k \in 1..i}
  /\ (pc \in {"destroy", "exited"} /\ ~server_open /\ ~mutex_locked) =>
       allocated \subseteq leaked

\* A connection that was reset is released.
ResetIsReaped ==
  \A c \in Clients :
    (peer[c] = "reset" /\ c \in Listed) ~> (c \notin Listed \/ Ending)

\* As long as something wakes the loop, such as peers that connect and hang up
\* again and again, every closed client is released, although the reaping loop
\* passes over a client that SwapRemove moves and no event of its own follows.
ClosedIsReaped ==
  \A c \in Clients :
    []<>(pc = "reap") => ((closed[c] /\ c \in Listed) ~> c \notin Listed)

\* A shutdown request ends the server with every client released.
ShutdownCompletes ==
  server_shutdown ~> (pc = "exited" /\ allocated = {} /\ ~server_open)

-----------------------------------------------------------------------------
(* What the code's documentation says and the code does not do.            *)

\* server_loop.c, on EPOLLRDHUP: "used when a client exits and exits
\* gracefully".  A client that closed its side would be released.
FinIsReaped ==
  \A c \in Clients :
    (peer[c] = "fin" /\ c \in Listed) ~> (c \notin Listed \/ Ending)

\* handle_client_read.c: "Disconnect - process_payload returned error".  A
\* client marked closed would be disconnected.
ClosedIsDisconnected ==
  \A c \in Clients :
    (closed[c] /\ c \in Listed) ~> (c \notin Listed \/ Ending)

\* server_state.h, on server_state_destroy: "Cleans up each client, destroys
\* the state's mutex, and closes the server file descriptor".
DestroyCleansUp == pc = "exited" => allocated = {} /\ ~server_open
=============================================================================
