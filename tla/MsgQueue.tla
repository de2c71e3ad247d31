------------------------------ MODULE MsgQueue ------------------------------
(***************************************************************************)
(* The outgoing side of one connected client: the linked list of packets   *)
(* struct msg_queue, the broadcasts that append to it, the send loop       *)
(* client_try_write that empties it, and the EPOLLOUT registration that    *)
(* decides when the send loop runs again.                                  *)
(*                                                                         *)
(* The packets are heap objects at addresses that malloc may hand out      *)
(* again after free, linked by pointers as in the code, so a stale tail, a *)
(* lost node or a freed packet still in the list can all be expressed.     *)
(* Every iteration of the send loop is a step of its own: each send() may  *)
(* take any part of what is offered.                                       *)
(***************************************************************************)
EXTENDS Wire, FiniteSets

CONSTANTS
  Packets,          \* the addresses a struct msg_packet can have
  NULL,
  HeaderLen,        \* sizeof(struct msg_header)
  PayloadLens,      \* the lengths of the messages that are broadcast
  MSG_SIZE_LIMIT,   \* protocol.h: bytes a client's queue may hold
  MaxMsgs,          \* bound: messages broadcast in one behaviour
  EpollCtlMayFail   \* whether EPOLL_CTL_MOD can fail

ASSUME QueueAssumption ==
  /\ NULL \notin Packets
  /\ HeaderLen \in Nat \ {0}
  /\ PayloadLens \subseteq Nat
  /\ MSG_SIZE_LIMIT \in Nat
  /\ MaxMsgs \in Nat
  /\ EpollCtlMayFail \in BOOLEAN

VARIABLES
  allocated, next, len, offset, data,        \* the heap of struct msg_packet
  head, tail, queued_bytes, queued_count,    \* struct msg_queue
  epollout_enabled, closed,                  \* struct client_info
  pc,          \* what the server thread is doing with this client
  offered,     \* messages broadcast so far
  wire,        \* history: the bytes send() took, in order
  accepted,    \* history: the bytes of the packets enqueued, in order
  order, at    \* history: the packets in the list, and where in accepted
               \* the bytes of each begin

heapVars == <<allocated, next, len, offset, data>>
queueVars == <<head, tail, queued_bytes, queued_count>>
ghostVars == <<accepted, order, at>>
vars == <<heapVars, queueVars, epollout_enabled, closed, pc, offered, wire,
          ghostVars>>

PCs == {"loop",      \* elsewhere in the event loop
        "bwrite",    \* in client_try_write, called by broadcast
        "ewrite",    \* in client_try_write, called for an EPOLLOUT event
        "arm",       \* in broadcast, before the EPOLLOUT check
        "release",   \* freeing the queue of a client being removed
        "freed"}     \* the client_info is gone

Init ==
  /\ allocated = {}
  /\ next = [p \in Packets |-> NULL]
  /\ len = [p \in Packets |-> 0]
  /\ offset = [p \in Packets |-> 0]
  /\ data = [p \in Packets |-> 0]
  /\ head = NULL /\ tail = NULL
  /\ queued_bytes = 0 /\ queued_count = 0
  /\ epollout_enabled = FALSE /\ closed = FALSE
  /\ pc = "loop"
  /\ offered = 0
  /\ wire = << >> /\ accepted = << >>
  /\ order = << >> /\ at = [p \in Packets |-> 0]

-----------------------------------------------------------------------------
(* Faulty variants of the definitions below, each a slip that could be made *)
(* in the code.  They are not part of the specification: substituting one  *)
(* for its original shows that a property can fail.                        *)

\* The limit is compared with the queue as it is, not with the new packet.
Fits_IgnoresPacket(total) == queued_bytes <= MSG_SIZE_LIMIT

\* tail is not reset when the last packet leaves.
TailAfterPop_Stale == tail

\* send() is given packet_data instead of packet_data + offset.
Sent_FromStart(m) ==
  /\ wire' = wire \o Chunk(data[head], 0, m)
  /\ offset' = [offset EXCEPT ![head] = @ + m]
  /\ queued_bytes' = queued_bytes - m

\* Sent bytes are not subtracted from queued_bytes.
Sent_NotCounted(m) ==
  /\ wire' = wire \o Chunk(data[head], offset[head], offset[head] + m)
  /\ offset' = [offset EXCEPT ![head] = @ + m]
  /\ UNCHANGED queued_bytes

\* broadcast does not ask for EPOLLOUT after a short send.
ArmIfQueued_Forgets == UNCHANGED epollout_enabled

\* A packet that was sent completely stays at the head of the list.
SendLast_KeepsPacket ==
  /\ pc \in {"bwrite", "ewrite"} /\ head # NULL /\ len[head] > offset[head]
  /\ wire' = wire \o Chunk(data[head], offset[head], len[head])
  /\ offset' = [offset EXCEPT ![head] = len[head]]
  /\ queued_bytes' = queued_bytes - (len[head] - offset[head])
  /\ UNCHANGED <<allocated, next, len, data, head, tail, queued_count,
                 epollout_enabled, closed, pc, offered, ghostVars>>

-----------------------------------------------------------------------------
(* Appending: create_packet and client_enqueue_msg_packet                  *)

\* The queue has room for a packet of total bytes.
Fits(total) == queued_bytes + total <= MSG_SIZE_LIMIT

\* The pointer fields of all packets once p, with p->next = NULL, is
\* appended after the current tail.
LinkLast(p) ==
  [x \in Packets |-> IF x = p THEN NULL ELSE IF x = tail THEN p ELSE next[x]]

\* Packet p for the message being broadcast is filled in ...
create_packet(p, total) ==
  /\ allocated' = allocated \cup {p}
  /\ len' = [len EXCEPT ![p] = total]
  /\ offset' = [offset EXCEPT ![p] = 0]
  /\ data' = [data EXCEPT ![p] = offered + 1]

\* ... and becomes the last of the list.
client_enqueue_msg_packet(p, total) ==
  /\ next' = LinkLast(p)
  /\ head' = IF tail = NULL THEN p ELSE head
  /\ tail' = p
  /\ queued_bytes' = queued_bytes + total
  /\ queued_count' = queued_count + 1
  /\ accepted' = accepted \o Chunk(offered + 1, 0, total)
  /\ order' = Append(order, p)
  /\ at' = [at EXCEPT ![p] = Len(accepted)]

-----------------------------------------------------------------------------
(* broadcast, as it treats this client.  A closed client is skipped.       *)

\* The packet is queued.  If it is alone and no EPOLLOUT is awaited,
\* broadcast sends at once.
BroadcastEnqueue(p, n) ==
  /\ pc = "loop" /\ ~closed /\ offered < MaxMsgs
  /\ p \notin allocated
  /\ Fits(HeaderLen + n)
  /\ create_packet(p, HeaderLen + n)
  /\ client_enqueue_msg_packet(p, HeaderLen + n)
  /\ offered' = offered + 1
  /\ pc' = IF ~epollout_enabled /\ head' = p THEN "bwrite" ELSE "arm"
  /\ UNCHANGED <<epollout_enabled, closed, wire>>

\* The queue is full for this packet: it is freed again, and the message is
\* lost for this client.
BroadcastDrop(n) ==
  /\ pc = "loop" /\ ~closed /\ offered < MaxMsgs
  /\ ~Fits(HeaderLen + n)
  /\ offered' = offered + 1
  /\ pc' = "arm"
  /\ UNCHANGED <<heapVars, queueVars, epollout_enabled, closed, wire, ghostVars>>

\* create_packet returned NULL: on to the next client.
BroadcastNoMemory ==
  /\ pc = "loop" /\ ~closed /\ offered < MaxMsgs
  /\ offered' = offered + 1
  /\ UNCHANGED <<heapVars, queueVars, epollout_enabled, closed, pc, wire, ghostVars>>

enable_epollout_for_client ==
  \/ epollout_enabled' = TRUE
  \/ EpollCtlMayFail /\ epollout_enabled' = epollout_enabled

disable_epollout_for_client ==
  \/ epollout_enabled' = FALSE
  \/ EpollCtlMayFail /\ epollout_enabled' = epollout_enabled

\* The registration with which broadcast leaves the client.
ArmIfQueued ==
  IF head # NULL THEN enable_epollout_for_client ELSE UNCHANGED epollout_enabled

BroadcastArm ==
  /\ pc = "arm"
  /\ ArmIfQueued
  /\ pc' = "loop"
  /\ UNCHANGED <<heapVars, queueVars, closed, offered, wire, ghostVars>>

-----------------------------------------------------------------------------
(* client_try_write                                                        *)

Writing == pc \in {"bwrite", "ewrite"}

\* Where client_try_write returns to.
Return == IF pc = "bwrite" THEN "arm" ELSE "loop"

\* epoll_wait reports EPOLLOUT for a client that is not closed.
EpolloutEvent ==
  /\ pc = "loop" /\ epollout_enabled /\ ~closed
  /\ pc' = "ewrite"
  /\ UNCHANGED <<heapVars, queueVars, epollout_enabled, closed, offered, wire, ghostVars>>

Remaining == len[head] - offset[head]

\* send() takes m bytes of the head packet, counted from its offset.
Sent(m) ==
  /\ wire' = wire \o Chunk(data[head], offset[head], offset[head] + m)
  /\ offset' = [offset EXCEPT ![head] = @ + m]
  /\ queued_bytes' = queued_bytes - m

\* The tail pointer once the head packet is unlinked.
TailAfterPop == IF next[head] = NULL THEN NULL ELSE tail

\* send() takes a part of the head packet.
SendPart(m) ==
  /\ Writing /\ head # NULL
  /\ m \in 1..(Remaining - 1)
  /\ Sent(m)
  /\ UNCHANGED <<allocated, next, len, data, head, tail, queued_count,
                 epollout_enabled, closed, pc, offered, ghostVars>>

\* send() takes all that was left of the head packet, which is unlinked and
\* freed.
SendLast ==
  /\ Writing /\ head # NULL /\ Remaining > 0
  /\ Sent(Remaining)
  /\ head' = next[head]
  /\ tail' = TailAfterPop
  /\ allocated' = allocated \ {head}
  /\ queued_count' = queued_count - 1
  /\ order' = Tail(order)
  /\ UNCHANGED <<next, len, data, epollout_enabled, closed, pc, offered,
                 accepted, at>>

\* send() would block: client_try_write returns 0.  (After EINTR it tries
\* again: a stuttering step.)
SendWouldBlock ==
  /\ Writing /\ head # NULL
  /\ pc' = Return
  /\ UNCHANGED <<heapVars, queueVars, epollout_enabled, closed, offered, wire, ghostVars>>

\* send() fails or takes nothing: -1, and the caller marks the client closed.
SendFails ==
  /\ Writing /\ head # NULL
  /\ closed' = TRUE
  /\ pc' = Return
  /\ UNCHANGED <<heapVars, queueVars, epollout_enabled, offered, wire, ghostVars>>

\* The queue is empty: EPOLLOUT is given up.
WriteDone ==
  /\ Writing /\ head = NULL
  /\ disable_epollout_for_client
  /\ pc' = Return
  /\ UNCHANGED <<heapVars, queueVars, closed, offered, wire, ghostVars>>

-----------------------------------------------------------------------------
(* The end of the client                                                   *)

\* A hangup, an error event or a failed read marks the client closed.
Disconnect ==
  /\ pc = "loop" /\ ~closed
  /\ closed' = TRUE
  /\ UNCHANGED <<heapVars, queueVars, epollout_enabled, pc, offered, wire, ghostVars>>

\* The loop reaps the client because it is closed, or the server shuts down.
BeginRelease ==
  /\ pc = "loop"
  /\ pc' = "release"
  /\ UNCHANGED <<heapVars, queueVars, epollout_enabled, closed, offered, wire, ghostVars>>

\* One round of the freeing loop.  Only head moves: tail and the counters
\* keep their old values.
ReleaseOne ==
  /\ pc = "release" /\ head # NULL
  /\ head' = next[head]
  /\ allocated' = allocated \ {head}
  /\ order' = Tail(order)
  /\ UNCHANGED <<next, len, offset, data, tail, queued_bytes, queued_count,
                 epollout_enabled, closed, pc, offered, wire, accepted, at>>

\* Nothing is left: the client_info itself is freed.
ReleaseDone ==
  /\ pc = "release" /\ head = NULL
  /\ pc' = "freed"
  /\ UNCHANGED <<heapVars, queueVars, epollout_enabled, closed, offered, wire, ghostVars>>

Send == SendLast \/ \E m \in 1..MSG_SIZE_LIMIT : SendPart(m)

Next ==
  \/ \E p \in Packets, n \in PayloadLens : BroadcastEnqueue(p, n)
  \/ \E n \in PayloadLens : BroadcastDrop(n)
  \/ BroadcastNoMemory
  \/ BroadcastArm
  \/ EpolloutEvent
  \/ Send
  \/ SendWouldBlock
  \/ SendFails
  \/ WriteDone
  \/ Disconnect
  \/ BeginRelease
  \/ ReleaseOne
  \/ ReleaseDone

Spec == Init /\ [][Next]_vars

\* The server thread does not stop inside a handler, epoll_wait keeps
\* reporting EPOLLOUT while it is requested, and a peer that stays connected
\* keeps making room, so send() does not answer EAGAIN forever.
FairSpec ==
  /\ Spec
  /\ WF_vars(BroadcastArm) /\ WF_vars(WriteDone)
  /\ WF_vars(EpolloutEvent)
  /\ SF_vars(Send)

-----------------------------------------------------------------------------
(* Properties                                                              *)

Releasing == pc \in {"release", "freed"}

\* Type correctness.  The bounds on queued_bytes say that the size_t never
\* wraps below zero when sent bytes are subtracted, and never passes the
\* limit.
TypeOK ==
  /\ allocated \subseteq Packets
  /\ next \in [Packets -> Packets \cup {NULL}]
  /\ len \in [Packets -> Nat]
  /\ offset \in [Packets -> Nat]
  /\ data \in [Packets -> Nat]
  /\ head \in Packets \cup {NULL}
  /\ tail \in Packets \cup {NULL}
  /\ queued_bytes \in 0..MSG_SIZE_LIMIT
  /\ queued_count \in Nat
  /\ epollout_enabled \in BOOLEAN
  /\ closed \in BOOLEAN
  /\ pc \in PCs
  /\ offered \in 0..MaxMsgs
  /\ wire \in Seq(Byte)
  /\ accepted \in Seq(Byte)
  /\ order \in Seq(Packets)
  /\ at \in [Packets -> Nat]

\* Following next from head visits the queued packets in the order of their
\* arrival, each once, and ends at NULL; exactly these packets are allocated:
\* none is freed while still linked, none is lost, and nothing is left when
\* the client_info is freed.
ListShape ==
  /\ head = IF order = << >> THEN NULL ELSE order[1]
  /\ \A i \in 1..Len(order) :
       next[order[i]] = IF i = Len(order) THEN NULL ELSE order[i + 1]
  /\ \A i, j \in 1..Len(order) : order[i] = order[j] => i = j
  /\ allocated = {order[i] : i \in 1..Len(order)}

\* Until the queue is released, the pointer client_enqueue_msg_packet writes
\* through (tail->next = packet) is NULL or the last packet of the list, and
\* queued_count is the length of the list.
TailShape ==
  ~Releasing =>
    /\ tail = IF order = << >> THEN NULL ELSE order[Len(order)]
    /\ queued_count = Len(order)

\* The linked list survives any sequence of broadcasts, partial sends,
\* failures and releases.
QueueIntact == ListShape /\ TailShape

\* The peer has received the first bytes of the accepted packets: whole
\* packets back to back, whatever parts send() took.
StreamIntact ==
  /\ Len(wire) <= Len(accepted)
  /\ \A i \in 1..Len(wire) : wire[i] = accepted[i]

\* queued_bytes is what is accepted and not yet sent.
Accounting == ~Releasing => queued_bytes = Len(accepted) - Len(wire)

\* Between handlers an open client waits for EPOLLOUT exactly when it has
\* something to send: no queued packet is forgotten, and an empty queue does
\* not keep epoll_wait returning.  (Provided EPOLL_CTL_MOD succeeds.)
WakeupArmed ==
  (~EpollCtlMayFail /\ pc = "loop" /\ ~closed)
    => (epollout_enabled <=> head # NULL)

\* Whatever was accepted is sent in the end, unless the client goes away.
AcceptedIsSent ==
  (wire # accepted) ~> (wire = accepted \/ closed \/ Releasing)

\* The queue implements the byte stream of module ByteStream.
Stream == INSTANCE ByteStream WITH open <- ~Releasing
ImplementsStream == Stream!Spec
=============================================================================
